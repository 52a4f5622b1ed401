---------------------------- MODULE ExecutionProofs ----------------------------
(***************************************************************************)
(* Proofs about Execution, for any identities, contexts, sessions, keys    *)
(* and requests, any assignment of attributes to requests and, unless a    *)
(* theorem says otherwise, either repository: types, session locks, what   *)
(* an ended execution leaves, create tasks and claims.  Every theorem goes *)
(* from an inductive invariant of ExecutionInvariants: one step per action *)
(* of Next.                                                                *)
(***************************************************************************)
EXTENDS ExecutionInvariants, TLAPS

(* The steps taken in the name of one request, and the others, as one      *)
(* list of actions.                                                        *)
LEMMA NextCases ==
    ASSUME Next
    PROVE  \/ \E r \in Requests :
                \/ Reject(r) \/ Start(r) \/ Claim(r) \/ Rebind(r)
                \/ LookupBound(r) \/ LookupJoin(r) \/ LookupStart(r)
                \/ Created(r) \/ Record(r) \/ GetSessionLock(r) \/ Acquire(r)
                \/ Send(r) \/ Finalize(r) \/ FinalBind(r) \/ ContinueWithTools(r) \/ AwaitTerminal(r)
                \/ Complete(r) \/ Operate(r) \/ Adopt(r) \/ Fail(r)
                \/ Interrupt(r) \/ ShareCancellation(r) \/ Release(r)
                \/ InterruptRelease(r) \/ Unlock(r) \/ StreamSignals(r)
                \/ StreamEnds(r) \/ Disconnect(r) \/ CreateAnswers(r)
           \/ \E k \in Keys, i \in Identities : CancelRead(k, i)
           \/ \E k \in Keys : CancelPop(k) \/ CancelKill(k) \/ CancelFails(k)
           \/ \E s \in Sessions : Expire(s) \/ CollectLock(s)
           \/ Forget
BY DEF Next, Advance, Bind, Turn, Unwind, Stream, CancelTask

-------------------------------------------------------------------------------
(* Types.                                                                  *)

(* A torn critical section leaves the repository well typed.               *)
LEMMA TornTyped ==
    ASSUME StateInv, NEW r \in Requests, TornWrite(r)
    PROVE  StoreTypeOK'
<1> USE RequestAttributes
    DEF StateInv, TypeOK, ManagerTypeOK, StoreTypeOK, ControlInv, HasSession,
        Driving, PairOf, Pairs
<1>1. CASE UNCHANGED storeVars
  BY <1>1 DEF storeVars
<1>2. CASE pc[r] = "claim" /\ ClaimPreferredSession(IdentityOf[r], sid[r])
  BY <1>2 DEF ClaimPreferredSession, SetPendingClaim
<1>3. CASE pc[r] = "record" /\ RecordBindingOnly(PairOf(r), create[awaiting[r]])
  BY <1>3 DEF RecordBindingOnly, SetSession
<1>4. CASE pc[r] = "record" /\ RecordCreated(PairOf(r), create[awaiting[r]])
  BY <1>4 DEF RecordCreated, SetSession, SetOwner
<1>5. CASE pc[r] = "finalize" /\ FinalizeOwnerOnly(IdentityOf[r], sid[r])
  BY <1>5 DEF FinalizeOwnerOnly, SetOwner
<1> QED
  BY <1>1, <1>2, <1>3, <1>4, <1>5 DEF TornWrite

(* Every step keeps the type invariant.                                    *)
LEMMA TypeStep == StateInv /\ [Next]_vars => TypeOK'
<1> SUFFICES ASSUME StateInv, [Next]_vars PROVE TypeOK'
  OBVIOUS
<1> USE BackendAssumption, RequestAttributes, NoneAssumption,
        RequestsAssumption, CreateStatesAssumption
    DEF StateInv, TypeOK, ManagerTypeOK, StoreTypeOK, storeVars, managerVars,
        lockVars, registryVars, streamVars, flowVars, At, Goto, PCs, Working,
        Driving, CleanupPc, PairOf, Pairs
<1>1. ASSUME NEW r \in Requests, Reject(r) PROVE TypeOK'
  BY <1>1 DEF Reject, EmitError
<1>2. ASSUME NEW r \in Requests, Start(r) PROVE TypeOK'
  BY <1>2 DEF Start, Register
<1>3. ASSUME NEW r \in Requests, Claim(r) PROVE TypeOK'
  <2>1. StoreTypeOK'
    BY <1>3 DEF StoreTypeOK, Claim, ClaimPreferredSession, SetPendingClaim
  <2>2. leased' \subseteq Requests
    BY <1>3 DEF Claim
  <2>3. pc' \in [Requests -> PCs]
    BY <1>3 DEF Claim
  <2>4. pending' \in [Requests -> BOOLEAN]
    BY <1>3 DEF Claim, ClaimIsPending
  <2> QED
    BY <1>3, <2>1, <2>2, <2>3, <2>4 DEF Claim
<1>4. ASSUME NEW r \in Requests, Rebind(r) PROVE TypeOK'
  BY <1>4 DEF ControlInv, HasSession, Rebind, BindSession, SetSession
<1>5. ASSUME NEW r \in Requests, LookupBound(r) PROVE TypeOK'
  BY <1>5 DEF LookupBound
<1>37. ASSUME NEW r \in Requests, LookupJoin(r) PROVE TypeOK'
  BY <1>37 DEF LookupJoin
<1>6. ASSUME NEW r \in Requests, LookupStart(r) PROVE TypeOK'
  BY <1>6 DEF LookupStart, StartCreate, CreateStates
<1>7. ASSUME NEW r \in Requests, Created(r) PROVE TypeOK'
  BY <1>7 DEF Created
<1>8. ASSUME NEW r \in Requests, Record(r) PROVE TypeOK'
  BY <1>8 DEF ControlInv, HasSession, Record, RecordCreated, SetSession,
              SetOwner, DropInflight
<1>9. ASSUME NEW r \in Requests, GetSessionLock(r) PROVE TypeOK'
  BY <1>9 DEF GetSessionLock
<1>10. ASSUME NEW r \in Requests, Acquire(r) PROVE TypeOK'
  BY <1>10 DEF Acquire
<1>11. ASSUME NEW r \in Requests, Send(r) PROVE TypeOK'
  BY <1>11 DEF Send
<1>12. ASSUME NEW r \in Requests, Finalize(r) PROVE TypeOK'
  <2>1. StoreTypeOK'
    BY <1>12 DEF StoreTypeOK, Finalize, FinalizeSessionClaim, SetOwner, ClearPendingClaim
  <2>2. pc' \in [Requests -> PCs] /\ pending' \in [Requests -> BOOLEAN]
    BY <1>12 DEF Finalize
  <2> QED
    BY <1>12, <2>1, <2>2 DEF Finalize
<1>13. ASSUME NEW r \in Requests, FinalBind(r) PROVE TypeOK'
  BY <1>13 DEF ControlInv, HasSession, FinalBind, BindSession, SetSession
<1>14. ASSUME NEW r \in Requests, ContinueWithTools(r) PROVE TypeOK'
  BY <1>14 DEF ContinueWithTools
<1>15. ASSUME NEW r \in Requests, AwaitTerminal(r) PROVE TypeOK'
  BY <1>15 DEF AwaitTerminal
<1>16. ASSUME NEW r \in Requests, Complete(r) PROVE TypeOK'
  BY <1>16 DEF Complete
<1>17. ASSUME NEW r \in Requests, Operate(r) PROVE TypeOK'
  BY <1>17 DEF Operate, ForkSession
<1>18. ASSUME NEW r \in Requests, Adopt(r) PROVE TypeOK'
  BY <1>18 DEF Adopt, FinalizeSessionClaim, SetOwner, ClearPendingClaim
<1>19. ASSUME NEW r \in Requests, Fail(r) PROVE TypeOK'
  <2>1. StoreTypeOK'
    BY <1>19, TornTyped DEF Fail, EmitError
  <2>2. inflight' \in [Pairs -> Requests \cup {None}]
    <3>1. CASE inflight' = inflight
      BY <3>1
    <3>2. CASE DropInflight(PairOf(r), awaiting[r])
      BY <3>2 DEF DropInflight
    <3> QED
      BY <1>19, <3>1, <3>2 DEF Fail, EmitError
  <2>3. pc' \in [Requests -> PCs]
    BY <1>19 DEF Fail, EmitError
  <2> QED
    BY <1>19, <2>1, <2>2, <2>3 DEF Fail, EmitError
<1>20. ASSUME NEW r \in Requests, Interrupt(r) PROVE TypeOK'
  <2>1. StoreTypeOK'
    BY <1>20, TornTyped DEF Interrupt
  <2>2. create' \in [Requests -> CreateStates \cup Sessions]
    BY <1>20 DEF Interrupt, CreateStates
  <2>3. pc' \in [Requests -> PCs]
    BY <1>20 DEF Interrupt
  <2> QED
    BY <1>20, <2>1, <2>2, <2>3 DEF Interrupt
<1>21. ASSUME NEW r \in Requests, ShareCancellation(r) PROVE TypeOK'
  BY <1>21 DEF ShareCancellation
<1>22. ASSUME NEW r \in Requests, Release(r) PROVE TypeOK'
  BY <1>22 DEF Release, ReleasePreferredSessionClaim, ClearPendingClaim
<1>23. ASSUME NEW r \in Requests, InterruptRelease(r) PROVE TypeOK'
  <2>1. StoreTypeOK'
    BY <1>23
    DEF InterruptRelease, ReleasePreferredSessionClaim, ClearPendingClaim
  <2> QED
    BY <1>23, <2>1 DEF InterruptRelease
<1>24. ASSUME NEW r \in Requests, Unlock(r) PROVE TypeOK'
  <2>1. locked' \in [Sessions -> BOOLEAN] /\ pc' \in [Requests -> PCs]
    BY <1>24 DEF Unlock, Unlocks, Deregister
  <2>2. /\ running' \in [Keys -> Requests \cup {None}]
        /\ boundTo' \in [Keys -> Requests \cup {None}]
    BY <1>24 DEF Unlock, Unlocks, Deregister
  <2>3. robbed' \subseteq Sessions
    <3>1. r \in lockRef /\ locked[sid[r]] => sid[r] \in Sessions
      BY DEF ControlInv
    <3> QED
      BY <1>24, <3>1 DEF Unlock, Unlocks, Deregister
  <2> QED
    BY <1>24, <2>1, <2>2, <2>3 DEF Unlock, Unlocks, Deregister
<1>25. ASSUME NEW r \in Requests, StreamSignals(r) PROVE TypeOK'
  BY <1>25 DEF StreamSignals
<1>26. ASSUME NEW r \in Requests, StreamEnds(r) PROVE TypeOK'
  BY <1>26 DEF StreamEnds
<1>27. ASSUME NEW r \in Requests, Disconnect(r) PROVE TypeOK'
  BY <1>27 DEF Disconnect
<1>28. ASSUME NEW r \in Requests, CreateAnswers(r) PROVE TypeOK'
  <2>1. /\ create' \in [Requests -> CreateStates \cup Sessions]
        /\ minted' \subseteq Sessions
    <3>1. CASE CreateSucceeds(r)
      BY <3>1 DEF CreateSucceeds
    <3>2. CASE CreateFails(r)
      BY <3>2 DEF CreateFails, CreateStates
    <3> QED
      BY <1>28, <3>1, <3>2 DEF CreateAnswers
  <2> QED
    BY <1>28, <2>1 DEF CreateAnswers, CreateSucceeds, CreateFails
<1>29. ASSUME NEW k \in Keys, NEW i \in Identities, CancelRead(k, i)
      PROVE  TypeOK'
  <2>1. cancel' \in [Keys -> CancelRecords]
    BY <1>29 DEF CancelRead, Forgotten, CancelRecords
  <2> QED
    BY <1>29, <2>1 DEF CancelRead
<1>30. ASSUME NEW k \in Keys, CancelPop(k) PROVE TypeOK'
  <2>1. cancel' \in [Keys -> CancelRecords]
    <3>1. inflight[cancel[k].pair] \in Requests \cup {None}
      BY <1>30 DEF CancelPop, CancelInv
    <3> QED
      BY <1>30, <3>1 DEF CancelPop, CancelRecords
  <2>2. /\ binding' \in [Pairs -> Sessions \cup {None}]
        /\ inflight' \in [Pairs -> Requests \cup {None}]
    BY <1>30 DEF CancelPop, PopCachedSession, PopSession
  <2> QED
    BY <1>30, <2>1, <2>2 DEF CancelPop, PopCachedSession
<1>31. ASSUME NEW k \in Keys, CancelKill(k) PROVE TypeOK'
  <2>1. cancel' \in [Keys -> CancelRecords]
    BY <1>31 DEF CancelKill, CancelRecords, Answered, NoCancel
  <2>2. create' \in [Requests -> CreateStates \cup Sessions]
    BY <1>31 DEF CancelKill, CreateStates
  <2>3. doomed' \subseteq Requests
    BY <1>31 DEF CancelKill, CancelRecords
  <2> QED
    BY <1>31, <2>1, <2>2, <2>3 DEF CancelKill
<1>32. ASSUME NEW k \in Keys, CancelFails(k) PROVE TypeOK'
  <2>1. cancel' \in [Keys -> CancelRecords]
    BY <1>32 DEF CancelFails, CancelRecords, Answered, NoCancel
  <2> QED
    BY <1>32, <2>1 DEF CancelFails
<1>33. ASSUME NEW s \in Sessions, Expire(s) PROVE TypeOK'
  BY <1>33 DEF Expire, ExpireClaim
<1>34. ASSUME NEW s \in Sessions, CollectLock(s) PROVE TypeOK'
  BY <1>34 DEF CollectLock
<1>35. ASSUME Forget PROVE TypeOK'
  <2>1. StoreTypeOK'
    BY <1>35 DEF Forget, ForgetBinding, ForgetOwner, PopSession, SetOwner
  <2> QED
    BY <1>35, <2>1 DEF Forget
<1>36. ASSUME UNCHANGED vars PROVE TypeOK'
  BY <1>36 DEF vars
<1> QED
  BY <1>1, <1>2, <1>3, <1>4, <1>5, <1>37, <1>6, <1>7, <1>8, <1>9, <1>10,
     <1>11, <1>12, <1>13, <1>14, <1>15, <1>16, <1>17, <1>18, <1>19, <1>20, <1>21, <1>22,
     <1>23, <1>24, <1>25, <1>26, <1>27, <1>28, <1>29, <1>30, <1>31, <1>32,
     <1>33, <1>34, <1>35, <1>36, NextCases

-------------------------------------------------------------------------------
(* Control.                                                                *)

LEMMA PairTyped ==
    ASSUME NEW r \in Requests
    PROVE  PairOf(r) \in Pairs /\ PairOf(r)[1] = IdentityOf[r]
BY RequestAttributes DEF PairOf, Pairs

(* Every step keeps the control invariant.                                 *)
LEMMA ControlStep == StateInv /\ [Next]_vars => ControlInv'
<1> SUFFICES ASSUME StateInv, [Next]_vars PROVE ControlInv'
  OBVIOUS
<1> USE RequestAttributes, NoneAssumption, RequestsAssumption,
        CreateStatesAssumption
    DEF StateInv, TypeOK, ManagerTypeOK, ControlInv, storeVars, managerVars,
        lockVars, registryVars, streamVars, flowVars, At, Goto, Driving,
        CleanupPc, HasSession, AfterLock, CreateStates
<1>1. ASSUME NEW r \in Requests, Reject(r) PROVE ControlInv'
  BY <1>1 DEF Reject, EmitError
<1>2. ASSUME NEW r \in Requests, Start(r) PROVE ControlInv'
  <2>1. CASE PreferredOf[r] = None
    <3>1. /\ pc' = [pc EXCEPT ![r] = "lookup"]
          /\ sid' = [sid EXCEPT ![r] = None]
          /\ KindOf[r] = "send"
          /\ UNCHANGED <<create, awaiting, pending, lockRef>>
      BY <1>2, <2>1 DEF Start, Register
    <3>2. pc[r] = "idle" /\ r \notin lockRef
      BY <1>2 DEF Start, Register
    <3>3. ~pending[r]
      BY <3>2 DEF ClaimInv
    <3> QED
      BY <3>1, <3>2, <3>3
  <2>2. CASE PreferredOf[r] # None
    <3>1. /\ pc' = [pc EXCEPT ![r] = "claim"]
          /\ sid' = [sid EXCEPT ![r] = PreferredOf[r]]
          /\ PreferredOf[r] \in Sessions
          /\ UNCHANGED <<create, awaiting, pending, lockRef>>
      BY <1>2, <2>2 DEF Start, Register
    <3>2. pc[r] = "idle"
      BY <1>2 DEF Start, Register
    <3> QED
      BY <3>1, <3>2
  <2> QED
    BY <2>1, <2>2
<1>3. ASSUME NEW r \in Requests, Claim(r) PROVE ControlInv'
  BY <1>3 DEF Claim
<1>4. ASSUME NEW r \in Requests, Rebind(r) PROVE ControlInv'
  BY <1>4 DEF Rebind
<1>5. ASSUME NEW r \in Requests, LookupBound(r) PROVE ControlInv'
  BY <1>5, PairTyped DEF LookupBound, StoreTypeOK
<1>6. ASSUME NEW r \in Requests, LookupJoin(r) PROVE ControlInv'
  BY <1>6, PairTyped DEF LookupJoin, CreateInv
<1>7. ASSUME NEW r \in Requests, LookupStart(r) PROVE ControlInv'
  BY <1>7 DEF LookupStart, StartCreate
<1>8. ASSUME NEW r \in Requests, Created(r) PROVE ControlInv'
  BY <1>8 DEF Created
<1>9. ASSUME NEW r \in Requests, Record(r) PROVE ControlInv'
  BY <1>9 DEF Record, DropInflight
<1>10. ASSUME NEW r \in Requests, GetSessionLock(r) PROVE ControlInv'
  BY <1>10 DEF GetSessionLock
<1>11. ASSUME NEW r \in Requests, Acquire(r) PROVE ControlInv'
  BY <1>11 DEF Acquire
<1>12. ASSUME NEW r \in Requests, Send(r) PROVE ControlInv'
  BY <1>12 DEF Send
<1>13. ASSUME NEW r \in Requests, Finalize(r) PROVE ControlInv'
  <2>1. CASE KindOf[r] = "send"
    BY <1>13, <2>1 DEF Finalize
  <2>2. CASE KindOf[r] # "send"
    <3>1. /\ pending' = [pending EXCEPT ![r] = FALSE]
          /\ UNCHANGED <<sid, create, awaiting, lockRef>>
      BY <1>13, <2>2 DEF Finalize
    <3>2. CASE KindOf[r] = "fork"
      <4>1. pc' = [pc EXCEPT ![r] = "adopt"] /\ pc[r] = "finalize"
        BY <1>13, <3>2 DEF Finalize
      <4> QED
        BY <3>1, <3>2, <4>1
    <3>3. CASE KindOf[r] = "control"
      <4>1. pc' = [pc EXCEPT ![r] = "done"] /\ pc[r] = "finalize"
        BY <1>13, <3>3 DEF Finalize
      <4> QED
        BY <3>1, <3>3, <4>1
    <3> QED
      BY <2>2, <3>2, <3>3
  <2> QED
    BY <2>1, <2>2
<1>14. ASSUME NEW r \in Requests, FinalBind(r) PROVE ControlInv'
  BY <1>14 DEF FinalBind
<1>15. ASSUME NEW r \in Requests, ContinueWithTools(r) PROVE ControlInv'
  BY <1>15 DEF ContinueWithTools
<1>16. ASSUME NEW r \in Requests, AwaitTerminal(r) PROVE ControlInv'
  BY <1>16 DEF AwaitTerminal
<1>17. ASSUME NEW r \in Requests, Complete(r) PROVE ControlInv'
  BY <1>17 DEF Complete
<1>18. ASSUME NEW r \in Requests, Operate(r) PROVE ControlInv'
  BY <1>18 DEF Operate, ForkSession
<1>19. ASSUME NEW r \in Requests, Adopt(r) PROVE ControlInv'
  BY <1>19 DEF Adopt
<1>20. ASSUME NEW r \in Requests, Fail(r) PROVE ControlInv'
  BY <1>20 DEF Fail, EmitError, DropInflight
<1>21. ASSUME NEW r \in Requests, Interrupt(r) PROVE ControlInv'
  BY <1>21 DEF Interrupt
<1>22. ASSUME NEW r \in Requests, ShareCancellation(r) PROVE ControlInv'
  BY <1>22 DEF ShareCancellation
<1>23. ASSUME NEW r \in Requests, Release(r) PROVE ControlInv'
  BY <1>23 DEF Release
<1>24. ASSUME NEW r \in Requests, InterruptRelease(r) PROVE ControlInv'
  BY <1>24 DEF InterruptRelease
<1>25. ASSUME NEW r \in Requests, Unlock(r) PROVE ControlInv'
  BY <1>25 DEF Unlock, Unlocks, Deregister
<1>26. ASSUME NEW r \in Requests, StreamSignals(r) PROVE ControlInv'
  BY <1>26 DEF StreamSignals
<1>27. ASSUME NEW r \in Requests, StreamEnds(r) PROVE ControlInv'
  BY <1>27 DEF StreamEnds
<1>28. ASSUME NEW r \in Requests, Disconnect(r) PROVE ControlInv'
  BY <1>28 DEF Disconnect
<1>29. ASSUME NEW r \in Requests, CreateAnswers(r) PROVE ControlInv'
  BY <1>29 DEF CreateAnswers, CreateSucceeds, CreateFails
<1>30. ASSUME NEW k \in Keys, NEW i \in Identities, CancelRead(k, i)
      PROVE  ControlInv'
  BY <1>30 DEF CancelRead
<1>31. ASSUME NEW k \in Keys, CancelPop(k) PROVE ControlInv'
  BY <1>31 DEF CancelPop
<1>32. ASSUME NEW k \in Keys, CancelKill(k) PROVE ControlInv'
  BY <1>32 DEF CancelKill
<1>33. ASSUME NEW k \in Keys, CancelFails(k) PROVE ControlInv'
  BY <1>33 DEF CancelFails
<1>34. ASSUME NEW s \in Sessions, Expire(s) PROVE ControlInv'
  BY <1>34 DEF Expire
<1>35. ASSUME NEW s \in Sessions, CollectLock(s) PROVE ControlInv'
  BY <1>35 DEF CollectLock
<1>36. ASSUME Forget PROVE ControlInv'
  BY <1>36 DEF Forget
<1>37. ASSUME UNCHANGED vars PROVE ControlInv'
  BY <1>37 DEF vars
<1> QED
  BY <1>1, <1>2, <1>3, <1>4, <1>5, <1>6, <1>7, <1>8, <1>9, <1>10, <1>11,
     <1>12, <1>13, <1>14, <1>15, <1>16, <1>17, <1>18, <1>19, <1>20, <1>21,
     <1>22, <1>23, <1>24, <1>25, <1>26, <1>27, <1>28, <1>29, <1>30, <1>31,
     <1>32, <1>33, <1>34, <1>35, <1>36, <1>37, NextCases

-------------------------------------------------------------------------------
(* Create tasks, cancel calls and claims.                                  *)

(* Every step keeps the invariant of the create tasks.                    *)
LEMMA CreateStep == StateInv /\ [Next]_vars => CreateInv'
<1> SUFFICES ASSUME StateInv, [Next]_vars PROVE CreateInv'
  OBVIOUS
<1> USE RequestAttributes, NoneAssumption, RequestsAssumption,
        CreateStatesAssumption
    DEF StateInv, TypeOK, ManagerTypeOK, CreateInv, storeVars, managerVars,
        lockVars, registryVars, streamVars, flowVars, At, Goto, CreateStates
<1>1. ASSUME NEW r \in Requests,
           Reject(r) \/ Start(r) \/ Claim(r) \/ Rebind(r) \/ LookupBound(r)
           \/ LookupJoin(r) \/ Created(r) \/ GetSessionLock(r) \/ Acquire(r)
           \/ Send(r) \/ Finalize(r) \/ FinalBind(r) \/ ContinueWithTools(r)
           \/ AwaitTerminal(r) \/ Complete(r) \/ Adopt(r) \/
           ShareCancellation(r) \/ Release(r) \/ InterruptRelease(r) \/
           Unlock(r) \/ StreamSignals(r) \/ StreamEnds(r) \/ Disconnect(r)
      PROVE  CreateInv'
  BY <1>1 DEF Reject, EmitError, Start, Register, Claim, Rebind, LookupBound, LookupJoin,
     Created, GetSessionLock, Acquire, Send, Finalize, FinalBind,
     ContinueWithTools, AwaitTerminal, Complete, Adopt, ShareCancellation,
     Release, InterruptRelease, Unlock, StreamSignals, StreamEnds,
     Disconnect
<1>2. ASSUME NEW r \in Requests, LookupStart(r) PROVE CreateInv'
  BY <1>2, PairTyped DEF LookupStart, StartCreate, ControlInv
<1>3. ASSUME NEW r \in Requests, Record(r) PROVE CreateInv'
  BY <1>3 DEF Record, DropInflight
<1>4. ASSUME NEW r \in Requests, Operate(r) PROVE CreateInv'
  BY <1>4 DEF Operate, ForkSession, ControlInv
<1>5. ASSUME NEW r \in Requests, Fail(r) PROVE CreateInv'
  BY <1>5 DEF Fail, EmitError, DropInflight
<1>6. ASSUME NEW r \in Requests, Interrupt(r) PROVE CreateInv'
  BY <1>6 DEF Interrupt
<1>7. ASSUME NEW r \in Requests, CreateAnswers(r) PROVE CreateInv'
  BY <1>7 DEF CreateAnswers, CreateSucceeds, CreateFails
<1>8. ASSUME NEW k \in Keys, NEW i \in Identities, CancelRead(k, i)
      PROVE  CreateInv'
  BY <1>8 DEF CancelRead
<1>9. ASSUME NEW k \in Keys, CancelPop(k) PROVE CreateInv'
  BY <1>9 DEF CancelPop, PopCachedSession
<1>10. ASSUME NEW k \in Keys, CancelKill(k) PROVE CreateInv'
  BY <1>10 DEF CancelKill
<1>11. ASSUME NEW k \in Keys, CancelFails(k) PROVE CreateInv'
  BY <1>11 DEF CancelFails
<1>12. ASSUME NEW s \in Sessions, Expire(s) PROVE CreateInv'
  BY <1>12 DEF Expire
<1>13. ASSUME NEW s \in Sessions, CollectLock(s) PROVE CreateInv'
  BY <1>13 DEF CollectLock
<1>14. ASSUME Forget PROVE CreateInv'
  BY <1>14 DEF Forget
<1>15. ASSUME UNCHANGED vars PROVE CreateInv'
  BY <1>15 DEF vars
<1> QED
  BY <1>1, <1>2, <1>3, <1>4, <1>5, <1>6, <1>7, <1>8, <1>9, <1>10, <1>11,
     <1>12, <1>13, <1>14, <1>15, NextCases

(* Every step keeps the invariant of the cancel calls.                     *)
LEMMA CancelStep == StateInv /\ [Next]_vars => CancelInv'
<1> SUFFICES ASSUME StateInv, [Next]_vars PROVE CancelInv'
  OBVIOUS
<1> USE RequestAttributes
    DEF StateInv, TypeOK, CancelInv, storeVars, managerVars, lockVars,
        registryVars, streamVars, flowVars, Pairs
<1>1. ASSUME NEW r \in Requests,
           Reject(r) \/ Start(r) \/ Claim(r) \/ Rebind(r) \/ LookupBound(r)
           \/ LookupJoin(r) \/ LookupStart(r) \/ Created(r) \/ Record(r) \/
           GetSessionLock(r) \/ Acquire(r) \/ Send(r) \/ Finalize(r) \/
           FinalBind(r) \/ ContinueWithTools(r) \/ AwaitTerminal(r) \/
           Complete(r) \/ Operate(r) \/ Adopt(r) \/ Fail(r) \/ Interrupt(r)
           \/ ShareCancellation(r) \/ Release(r) \/ InterruptRelease(r) \/
           Unlock(r) \/ StreamSignals(r) \/ StreamEnds(r) \/ Disconnect(r) \/
           CreateAnswers(r)
      PROVE  CancelInv'
  BY <1>1 DEF Reject, EmitError, Start, Register, Claim, Rebind, LookupBound, LookupJoin,
     LookupStart, Created, Record, GetSessionLock, Acquire, Send, Finalize,
     FinalBind, ContinueWithTools, AwaitTerminal, Complete, Operate, ForkSession, Adopt,
     Fail, EmitError, Interrupt, ShareCancellation, Release, InterruptRelease, Unlock,
     StreamSignals, StreamEnds, Disconnect, CreateAnswers
<1>2. ASSUME NEW k \in Keys, NEW i \in Identities, CancelRead(k, i)
      PROVE  CancelInv'
  BY <1>2 DEF CancelRead, Forgotten
<1>3. ASSUME NEW k \in Keys, CancelPop(k) PROVE CancelInv'
  BY <1>3 DEF CancelPop
<1>4. ASSUME NEW k \in Keys, CancelKill(k) PROVE CancelInv'
  BY <1>4 DEF CancelKill, Answered, NoCancel
<1>5. ASSUME NEW k \in Keys, CancelFails(k) PROVE CancelInv'
  BY <1>5 DEF CancelFails, Answered, NoCancel
<1>6. ASSUME NEW s \in Sessions, Expire(s) PROVE CancelInv'
  BY <1>6 DEF Expire
<1>7. ASSUME NEW s \in Sessions, CollectLock(s) PROVE CancelInv'
  BY <1>7 DEF CollectLock
<1>8. ASSUME Forget PROVE CancelInv'
  BY <1>8 DEF Forget
<1>9. ASSUME UNCHANGED vars PROVE CancelInv'
  BY <1>9 DEF vars
<1> QED
  BY <1>1, <1>2, <1>3, <1>4, <1>5, <1>6, <1>7, <1>8, <1>9, NextCases

(* Every step keeps the invariant of the claims.                           *)
LEMMA ClaimStep == StateInv /\ [Next]_vars => ClaimInv'
<1> SUFFICES ASSUME StateInv, [Next]_vars PROVE ClaimInv'
  OBVIOUS
<1> USE RequestAttributes
    DEF StateInv, TypeOK, ClaimInv, ControlInv, storeVars, managerVars,
        lockVars, registryVars, streamVars, flowVars, At, Goto, CleanupPc
<1>1. ASSUME NEW r \in Requests,
           StreamSignals(r) \/ StreamEnds(r) \/ Disconnect(r) \/
           CreateAnswers(r)
      PROVE  ClaimInv'
  BY <1>1 DEF StreamSignals, StreamEnds, Disconnect, CreateAnswers
<1>2. ASSUME NEW r \in Requests, Reject(r) PROVE ClaimInv'
  BY <1>2 DEF Reject, EmitError
<1>3. ASSUME NEW r \in Requests, Start(r) PROVE ClaimInv'
  BY <1>3 DEF Start, Register
<1>4. ASSUME NEW r \in Requests, Claim(r) PROVE ClaimInv'
  BY <1>4 DEF Claim
<1>5. ASSUME NEW r \in Requests, Rebind(r) PROVE ClaimInv'
  BY <1>5 DEF Rebind
<1>6. ASSUME NEW r \in Requests, LookupBound(r) PROVE ClaimInv'
  BY <1>6 DEF LookupBound
<1>7. ASSUME NEW r \in Requests, LookupJoin(r) PROVE ClaimInv'
  BY <1>7 DEF LookupJoin
<1>8. ASSUME NEW r \in Requests, LookupStart(r) PROVE ClaimInv'
  BY <1>8 DEF LookupStart
<1>9. ASSUME NEW r \in Requests, Created(r) PROVE ClaimInv'
  BY <1>9 DEF Created
<1>10. ASSUME NEW r \in Requests, Record(r) PROVE ClaimInv'
  BY <1>10 DEF Record
<1>11. ASSUME NEW r \in Requests, GetSessionLock(r) PROVE ClaimInv'
  BY <1>11 DEF GetSessionLock
<1>12. ASSUME NEW r \in Requests, Acquire(r) PROVE ClaimInv'
  BY <1>12 DEF Acquire
<1>13. ASSUME NEW r \in Requests, Send(r) PROVE ClaimInv'
  BY <1>13 DEF Send
<1>14. ASSUME NEW r \in Requests, Finalize(r) PROVE ClaimInv'
  BY <1>14 DEF Finalize
<1>15. ASSUME NEW r \in Requests, FinalBind(r) PROVE ClaimInv'
  BY <1>15 DEF FinalBind
<1>16. ASSUME NEW r \in Requests, ContinueWithTools(r) PROVE ClaimInv'
  BY <1>16 DEF ContinueWithTools
<1>17. ASSUME NEW r \in Requests, AwaitTerminal(r) PROVE ClaimInv'
  BY <1>17 DEF AwaitTerminal
<1>18. ASSUME NEW r \in Requests, Complete(r) PROVE ClaimInv'
  BY <1>18 DEF Complete
<1>19. ASSUME NEW r \in Requests, Operate(r) PROVE ClaimInv'
  BY <1>19 DEF Operate, ForkSession
<1>20. ASSUME NEW r \in Requests, Adopt(r) PROVE ClaimInv'
  BY <1>20 DEF Adopt
<1>21. ASSUME NEW r \in Requests, Fail(r) PROVE ClaimInv'
  BY <1>21 DEF Fail, EmitError
<1>22. ASSUME NEW r \in Requests, Interrupt(r) PROVE ClaimInv'
  BY <1>22 DEF Interrupt
<1>23. ASSUME NEW r \in Requests, ShareCancellation(r) PROVE ClaimInv'
  BY <1>23 DEF ShareCancellation
<1>24. ASSUME NEW r \in Requests, Release(r) PROVE ClaimInv'
  BY <1>24 DEF Release
<1>25. ASSUME NEW r \in Requests, InterruptRelease(r) PROVE ClaimInv'
  BY <1>25 DEF InterruptRelease
<1>26. ASSUME NEW r \in Requests, Unlock(r) PROVE ClaimInv'
  BY <1>26 DEF Unlock, Unlocks, Deregister
<1>27. ASSUME NEW k \in Keys, NEW i \in Identities, CancelRead(k, i)
      PROVE  ClaimInv'
  BY <1>27 DEF CancelRead
<1>28. ASSUME NEW k \in Keys, CancelPop(k) PROVE ClaimInv'
  BY <1>28 DEF CancelPop
<1>29. ASSUME NEW k \in Keys, CancelKill(k) PROVE ClaimInv'
  BY <1>29 DEF CancelKill
<1>30. ASSUME NEW k \in Keys, CancelFails(k) PROVE ClaimInv'
  BY <1>30 DEF CancelFails
<1>31. ASSUME NEW s \in Sessions, Expire(s) PROVE ClaimInv'
  BY <1>31 DEF Expire
<1>32. ASSUME NEW s \in Sessions, CollectLock(s) PROVE ClaimInv'
  BY <1>32 DEF CollectLock
<1>33. ASSUME Forget PROVE ClaimInv'
  BY <1>33 DEF Forget
<1>34. ASSUME UNCHANGED vars PROVE ClaimInv'
  BY <1>34 DEF vars
<1> QED
  BY <1>1, <1>2, <1>3, <1>4, <1>5, <1>6, <1>7, <1>8, <1>9, <1>10, <1>11,
     <1>12, <1>13, <1>14, <1>15, <1>16, <1>17, <1>18, <1>19, <1>20, <1>21,
     <1>22, <1>23, <1>24, <1>25, <1>26, <1>27, <1>28, <1>29, <1>30, <1>31,
     <1>32, <1>33, <1>34, NextCases

-------------------------------------------------------------------------------
(* The initial state has what the invariants of state ask for.             *)
LEMMA StateInit == Init => StateInv
<1> SUFFICES ASSUME Init PROVE StateInv
  OBVIOUS
<1> USE RequestAttributes, NoneAssumption, RequestsAssumption,
        CreateStatesAssumption
    DEF Init, ManagerInit, StoreInit
<1>1. TypeOK
  <2>1. ManagerTypeOK
    BY DEF ManagerTypeOK, StoreTypeOK, CreateStates
  <2>2. cancel \in [Keys -> CancelRecords]
    BY DEF CancelRecords, NoCancel
  <2> QED
    BY <2>1, <2>2 DEF TypeOK, PCs
<1>2. ControlInv
  BY DEF ControlInv, HasSession, Driving
<1>3. CreateInv
  BY DEF CreateInv
<1>4. CancelInv
  BY DEF CancelInv, NoCancel
<1>5. ClaimInv
  BY DEF ClaimInv
<1> QED
  BY <1>1, <1>2, <1>3, <1>4, <1>5 DEF StateInv

(* Together they are inductive.                                            *)
LEMMA StateStep == StateInv /\ [Next]_vars => StateInv'
BY TypeStep, ControlStep, CreateStep, CancelStep, ClaimStep DEF StateInv

(* In every reachable state the variables are typed, each coroutine has    *)
(* what its next step reads, and a claim is owed only where one can be:    *)
(* no await of coordinator.py or session_manager.py returns to a request   *)
(* without the session, task or record that the code after it uses.        *)
THEOREM StateHolds == Spec => []StateInv
BY StateInit, StateStep, PTL DEF Spec

(* The variables keep their types, whatever the requests and the backend.  *)
THEOREM TypeCorrect == Spec => []TypeOK
<1>1. StateInv => TypeOK
  BY DEF StateInv
<1> QED
  BY <1>1, StateHolds, PTL
-------------------------------------------------------------------------------
(* Locks.                                                                  *)

(* Every step keeps the lock invariant.                                    *)
LEMMA LockStep == StateInv /\ LockInv /\ [Next]_vars => LockInv'
<1> SUFFICES ASSUME StateInv /\ LockInv, [Next]_vars PROVE LockInv'
  OBVIOUS
<1> USE RequestAttributes, NoneAssumption
    DEF StateInv, TypeOK, ControlInv, LockInv, Executions,
        Driving, AfterLock, At, Goto, CleanupPc, Live, flowVars, lockVars
<1>1. ASSUME NEW r \in Requests,
           StreamSignals(r) \/ StreamEnds(r) \/ Disconnect(r) \/
           CreateAnswers(r)
      PROVE  LockInv'
  BY <1>1 DEF StreamSignals, StreamEnds, Disconnect, CreateAnswers
<1>2. ASSUME NEW r \in Requests, Reject(r) PROVE LockInv'
  BY <1>2 DEF Reject, EmitError
<1>3. ASSUME NEW r \in Requests, Start(r) PROVE LockInv'
  BY <1>3 DEF Start, Register
<1>4. ASSUME NEW r \in Requests, Claim(r) PROVE LockInv'
  BY <1>4 DEF Claim
<1>5. ASSUME NEW r \in Requests, Rebind(r) PROVE LockInv'
  BY <1>5 DEF Rebind
<1>6. ASSUME NEW r \in Requests, LookupBound(r) PROVE LockInv'
  BY <1>6 DEF LookupBound
<1>7. ASSUME NEW r \in Requests, LookupJoin(r) PROVE LockInv'
  BY <1>7 DEF LookupJoin
<1>8. ASSUME NEW r \in Requests, LookupStart(r) PROVE LockInv'
  BY <1>8 DEF LookupStart
<1>9. ASSUME NEW r \in Requests, Created(r) PROVE LockInv'
  BY <1>9 DEF Created
<1>10. ASSUME NEW r \in Requests, Record(r) PROVE LockInv'
  BY <1>10 DEF Record
<1>11. ASSUME NEW r \in Requests, GetSessionLock(r) PROVE LockInv'
  BY <1>11 DEF GetSessionLock
<1>12. ASSUME NEW r \in Requests, Acquire(r) PROVE LockInv'
  <2>1. /\ pc' = [pc EXCEPT ![r] = "send"] /\ held' = held \cup {r}
        /\ locked' = [locked EXCEPT ![sid[r]] = TRUE]
        /\ UNCHANGED <<sid, robbed, lockRef>>
        /\ pc[r] = "queued" /\ ~locked[sid[r]]
    BY <1>12 DEF Acquire
  <2>2. r \in lockRef /\ sid[r] \in Sessions
    BY <2>1
  <2>3. \A q \in held : sid[q] = sid[r] => sid[r] \in robbed
    BY <2>1
  <2>4. \A q \in held : locked'[sid[q]] \/ sid[q] \in robbed
    BY <2>1, <2>2
  <2> QED
    BY <2>1, <2>2, <2>3, <2>4
<1>13. ASSUME NEW r \in Requests, Send(r) PROVE LockInv'
  BY <1>13 DEF Send
<1>14. ASSUME NEW r \in Requests, Finalize(r) PROVE LockInv'
  BY <1>14 DEF Finalize
<1>15. ASSUME NEW r \in Requests, FinalBind(r) PROVE LockInv'
  BY <1>15 DEF FinalBind
<1>16. ASSUME NEW r \in Requests, ContinueWithTools(r) PROVE LockInv'
  BY <1>16 DEF ContinueWithTools
<1>17. ASSUME NEW r \in Requests, AwaitTerminal(r) PROVE LockInv'
  BY <1>17 DEF AwaitTerminal
<1>18. ASSUME NEW r \in Requests, Complete(r) PROVE LockInv'
  BY <1>18 DEF Complete
<1>19. ASSUME NEW r \in Requests, Operate(r) PROVE LockInv'
  BY <1>19 DEF Operate, ForkSession
<1>20. ASSUME NEW r \in Requests, Adopt(r) PROVE LockInv'
  BY <1>20 DEF Adopt
<1>21. ASSUME NEW r \in Requests, Fail(r) PROVE LockInv'
  BY <1>21 DEF Fail, EmitError
<1>22. ASSUME NEW r \in Requests, Interrupt(r) PROVE LockInv'
  BY <1>22 DEF Interrupt
<1>23. ASSUME NEW r \in Requests, ShareCancellation(r) PROVE LockInv'
  BY <1>23 DEF ShareCancellation
<1>24. ASSUME NEW r \in Requests, Release(r) PROVE LockInv'
  BY <1>24 DEF Release
<1>25. ASSUME NEW r \in Requests, InterruptRelease(r) PROVE LockInv'
  BY <1>25 DEF InterruptRelease
<1>26. ASSUME NEW r \in Requests, Unlock(r) PROVE LockInv'
  BY <1>26 DEF Unlock, Unlocks, Deregister
<1>27. ASSUME NEW k \in Keys, NEW i \in Identities, CancelRead(k, i)
      PROVE  LockInv'
  BY <1>27 DEF CancelRead
<1>28. ASSUME NEW k \in Keys, CancelPop(k) PROVE LockInv'
  BY <1>28 DEF CancelPop
<1>29. ASSUME NEW k \in Keys, CancelKill(k) PROVE LockInv'
  BY <1>29 DEF CancelKill
<1>30. ASSUME NEW k \in Keys, CancelFails(k) PROVE LockInv'
  BY <1>30 DEF CancelFails
<1>31. ASSUME NEW s \in Sessions, Expire(s) PROVE LockInv'
  BY <1>31 DEF Expire
<1>32. ASSUME NEW s \in Sessions, CollectLock(s) PROVE LockInv'
  BY <1>32 DEF CollectLock
<1>33. ASSUME Forget PROVE LockInv'
  BY <1>33 DEF Forget
<1>34. ASSUME UNCHANGED vars PROVE LockInv'
  BY <1>34 DEF vars
<1> QED
  BY <1>1, <1>2, <1>3, <1>4, <1>5, <1>6, <1>7, <1>8, <1>9, <1>10, <1>11,
     <1>12, <1>13, <1>14, <1>15, <1>16, <1>17, <1>18, <1>19, <1>20, <1>21,
     <1>22, <1>23, <1>24, <1>25, <1>26, <1>27, <1>28, <1>29, <1>30, <1>31,
     <1>32, <1>33, <1>34, NextCases

(* Who drives holds the lock of its session; two holders mean a robbery.   *)
THEOREM LockHolds == Spec => []LockInv
<1>1. Init => LockInv
  BY DEF Init, LockInv, Executions, Driving
<1> QED
  BY <1>1, LockStep, StateHolds, PTL DEF Spec

(* The session lock is a mutex but for one hole: executions share a        *)
(* session only after _cleanup_execution of a request that did not hold    *)
(* the lock released it (coordinator.py, `if lock and lock.locked()').     *)
THEOREM OneDriverUnlessRobbed == Spec => []MutexUnlessRobbed
<1>1. LockInv => MutexUnlessRobbed
  BY DEF LockInv, MutexUnlessRobbed, Executions
<1> QED
  BY <1>1, LockHolds, PTL

-------------------------------------------------------------------------------
(* Holders.                                                                *)

(* Every step keeps the locked locks held.                                 *)
LEMMA HolderStep ==
    StateInv /\ LockInv /\ HolderInv /\ [Next]_vars => HolderInv'
<1> SUFFICES ASSUME StateInv /\ LockInv /\ HolderInv, [Next]_vars,
                    Backend = "memory"
             PROVE  /\ \A r \in held' : pc'[r] # "done"
                    /\ \A s \in Sessions :
                          locked'[s] => \E r \in held' : sid'[r] = s
  BY DEF HolderInv
<1> DEFINE Goal == /\ \A r \in held' : pc'[r] # "done"
                   /\ \A s \in Sessions :
                         locked'[s] => \E r \in held' : sid'[r] = s
<1> USE RequestAttributes, NoneAssumption
    DEF StateInv, TypeOK, ControlInv, LockInv, HolderInv, Executions, Driving,
        AfterLock, At, Goto, CleanupPc, Live, flowVars, lockVars
<1>1. ASSUME NEW r \in Requests,
             StreamSignals(r) \/ StreamEnds(r) \/ Disconnect(r)
             \/ CreateAnswers(r)
      PROVE  Goal
  BY <1>1 DEF StreamSignals, StreamEnds, Disconnect, CreateAnswers
<1>2. ASSUME NEW r \in Requests,
             Reject(r) \/ Start(r) \/ Claim(r) \/ Rebind(r) \/ LookupBound(r)
             \/ LookupJoin(r) \/ LookupStart(r) \/ Created(r) \/ Record(r)
             \/ GetSessionLock(r)
      PROVE  Goal
  <2>1. /\ r \notin held /\ UNCHANGED <<held, locked>>
        /\ \A q \in Requests \ {r} : pc'[q] = pc[q] /\ sid'[q] = sid[q]
    BY <1>2 DEF Reject, Start, Claim, Rebind, LookupBound, LookupJoin,
                LookupStart, Created, Record, GetSessionLock
  <2> QED
    BY <2>1
<1>3. ASSUME NEW r \in Requests, Acquire(r) PROVE Goal
  <2>1. /\ pc' = [pc EXCEPT ![r] = "send"] /\ held' = held \cup {r}
        /\ locked' = [locked EXCEPT ![sid[r]] = TRUE] /\ sid' = sid
    BY <1>3 DEF Acquire
  <2> QED
    BY <2>1
<1>4. ASSUME NEW r \in Requests,
             \/ Send(r) \/ Finalize(r) \/ FinalBind(r) \/ ContinueWithTools(r)
             \/ AwaitTerminal(r) \/ Complete(r) \/ Operate(r) \/ Adopt(r)
             \/ Fail(r) \/ Interrupt(r) \/ ShareCancellation(r) \/ Release(r)
      PROVE  Goal
  <2>1. /\ UNCHANGED <<held, locked, sid>>
        /\ \A q \in Requests \ {r} : pc'[q] = pc[q]
    BY <1>4 DEF Send, Finalize, FinalBind, ContinueWithTools, AwaitTerminal,
                Complete, Operate, Adopt, Fail, Interrupt, ShareCancellation,
                Release
  <2>2. KindOf[r] = "send" => pc'[r] # "done"
    BY <1>4 DEF Send, Finalize, FinalBind, ContinueWithTools, AwaitTerminal,
                Complete, Operate, Adopt, Fail, Interrupt, ShareCancellation,
                Release
  <2> QED
    BY <2>1, <2>2
<1>5. ASSUME NEW r \in Requests, InterruptRelease(r) PROVE Goal
  BY <1>5 DEF InterruptRelease
<1>6. ASSUME NEW r \in Requests, Unlock(r) PROVE Goal
  <2>1. /\ pc' = [pc EXCEPT ![r] = "done"] /\ held' = held \ {r} /\ sid' = sid
        /\ locked' = IF Unlocks(r) THEN [locked EXCEPT ![sid[r]] = FALSE]
                     ELSE locked
    BY <1>6 DEF Unlock
  <2>2. CASE Unlocks(r)
    <3>1. sid[r] \in Sessions /\ locked' = [locked EXCEPT ![sid[r]] = FALSE]
      BY <2>1, <2>2 DEF Unlocks
    <3> QED
      BY <2>1, <3>1
  <2>3. CASE ~Unlocks(r)
    <3>1. r \in held => ~locked[sid[r]]
      BY <2>3 DEF Unlocks
    <3> QED
      BY <2>1, <2>3, <3>1
  <2> QED
    BY <2>2, <2>3
<1>7. ASSUME NEW k \in Keys, CancelTask(k) PROVE Goal
  BY <1>7 DEF CancelTask, CancelRead, CancelPop, CancelKill, CancelFails
<1>8. ASSUME NEW s \in Sessions, Expire(s) PROVE Goal
  BY <1>8 DEF Expire
<1>9. ASSUME NEW s \in Sessions, CollectLock(s) PROVE Goal
  BY <1>9 DEF CollectLock
<1>10. ASSUME Forget PROVE Goal
  BY <1>10 DEF Forget
<1>11. ASSUME UNCHANGED vars PROVE Goal
  BY <1>11 DEF vars
<1> QED
  BY <1>1, <1>2, <1>3, <1>4, <1>5, <1>6, <1>7, <1>8, <1>9, <1>10, <1>11
  DEF Next, Advance, Bind, Turn, Unwind, Stream

(* With the memory repository nobody waits for a lock that no one will     *)
(* release: whatever cancellations and robberies came before, a locked     *)
(* session lock has a holder, and the holder still has its cleanup to run. *)
THEOREM LockedMeansHeld == Spec => [](Backend = "memory" => LocksHaveHolders)
<1>1. Init => HolderInv
  BY DEF Init, HolderInv
<1>2. LockInv /\ HolderInv => (Backend = "memory" => LocksHaveHolders)
  BY DEF LockInv, HolderInv, LocksHaveHolders, Live, AfterLock, Driving
<1> QED
  BY <1>1, <1>2, HolderStep, LockHolds, StateHolds, PTL DEF Spec

-------------------------------------------------------------------------------
(* Registry entries and stream tasks.                                      *)

(* Every step keeps them to executions that still have their cleanup.      *)
LEMMA RegistryStep ==
    StateInv /\ LockInv /\ RegistryInv /\ [Next]_vars => RegistryInv'
<1> SUFFICES ASSUME StateInv /\ LockInv /\ RegistryInv, [Next]_vars,
                    Backend = "memory"
             PROVE  RegistryInv'
  BY DEF RegistryInv
<1> USE RequestAttributes, NoneAssumption, RequestsAssumption
    DEF StateInv, TypeOK, ControlInv, RegistryInv, Executions, Driving,
        AfterLock, At, Goto, CleanupPc, Live, flowVars, lockVars, registryVars,
        streamVars
<1>1. ASSUME NEW r \in Requests,
             StreamSignals(r) \/ StreamEnds(r) \/ Disconnect(r)
             \/ CreateAnswers(r)
      PROVE  RegistryInv'
  BY <1>1 DEF StreamSignals, StreamEnds, Disconnect, CreateAnswers
<1>2. ASSUME NEW r \in Requests, Start(r) PROVE RegistryInv'
  BY <1>2 DEF Start, Register
<1>3. ASSUME NEW r \in Requests,
             Reject(r) \/ Claim(r) \/ Rebind(r) \/ LookupBound(r)
             \/ LookupJoin(r) \/ LookupStart(r) \/ Created(r) \/ Record(r)
             \/ GetSessionLock(r)
      PROVE  RegistryInv'
  <2>1. /\ pc[r] \notin AfterLock /\ UNCHANGED <<registryVars, streamVars>>
        /\ \A q \in Requests \ {r} : pc'[q] = pc[q]
        /\ KindOf[r] = "send" => pc[r] = "idle" \/ pc'[r] \notin {"idle", "done"}
    BY <1>3 DEF Reject, EmitError, Claim, Rebind, LookupBound, LookupJoin,
                LookupStart, Created, Record, GetSessionLock
  <2> QED
    BY <2>1
<1>4. ASSUME NEW r \in Requests, Acquire(r) PROVE RegistryInv'
  <2>1. /\ pc' = [pc EXCEPT ![r] = "send"] /\ running' = running
        /\ boundTo' = [boundTo EXCEPT ![KeyOf[r]] = r]
        /\ consuming' \subseteq consuming \cup {r}
    BY <1>4 DEF Acquire
  <2>2. pc[r] = "queued"
    BY <1>4 DEF Acquire
  <2>3. KindOf[r] = "send"
    BY <2>2
  <2> QED
    BY <2>1, <2>3
<1>5. ASSUME NEW r \in Requests,
             \/ Send(r) \/ Finalize(r) \/ FinalBind(r) \/ ContinueWithTools(r)
             \/ AwaitTerminal(r) \/ Complete(r) \/ Operate(r) \/ Adopt(r)
             \/ Release(r)
      PROVE  RegistryInv'
  <2>1. /\ UNCHANGED <<registryVars, consuming>>
        /\ \A q \in Requests \ {r} : pc'[q] = pc[q]
        /\ KindOf[r] = "send" => pc'[r] \in AfterLock \ {"done"}
    BY <1>5 DEF Send, Finalize, FinalBind, ContinueWithTools, AwaitTerminal,
                Complete, Operate, Adopt, Release
  <2> QED
    BY <2>1
<1>6. ASSUME NEW r \in Requests,
             Fail(r) \/ Interrupt(r) \/ ShareCancellation(r)
      PROVE  RegistryInv'
  <2>1. /\ UNCHANGED <<registryVars, consuming>>
        /\ \A q \in Requests \ {r} : pc'[q] = pc[q]
        /\ KindOf[r] = "send" => pc'[r] \in {"release", "unlock"}
    BY <1>6 DEF Fail, Interrupt, ShareCancellation
  <2> QED
    BY <2>1
<1>7. ASSUME NEW r \in Requests, InterruptRelease(r) PROVE RegistryInv'
  BY <1>7 DEF InterruptRelease
<1>8. ASSUME NEW r \in Requests, Unlock(r) PROVE RegistryInv'
  <2>1. /\ pc' = [pc EXCEPT ![r] = "done"] /\ consuming' = consuming \ {r}
        /\ running' = [running EXCEPT ![KeyOf[r]] = None]
        /\ boundTo' = [boundTo EXCEPT ![KeyOf[r]] = None]
    BY <1>8 DEF Unlock, Deregister
  <2> QED
    BY <2>1
<1>9. ASSUME NEW k \in Keys, CancelTask(k) PROVE RegistryInv'
  BY <1>9 DEF CancelTask, CancelRead, CancelPop, CancelKill, CancelFails
<1>10. ASSUME NEW s \in Sessions, Expire(s) PROVE RegistryInv'
  BY <1>10 DEF Expire
<1>11. ASSUME NEW s \in Sessions, CollectLock(s) PROVE RegistryInv'
  BY <1>11 DEF CollectLock
<1>12. ASSUME Forget PROVE RegistryInv'
  BY <1>12 DEF Forget
<1>13. ASSUME UNCHANGED vars PROVE RegistryInv'
  BY <1>13 DEF vars
<1> QED
  BY <1>1, <1>2, <1>3, <1>4, <1>5, <1>6, <1>7, <1>8, <1>9, <1>10, <1>11,
     <1>12, <1>13
  DEF Next, Advance, Bind, Turn, Unwind, Stream

(* With the memory repository an execution that ended, however it ended,   *)
(* left no lock held, no stream task and no registry entry that a later    *)
(* tasks/cancel of its key would follow: the finally block of the          *)
(* coordinator runs to its end and undoes what this execution registered.  *)
THEOREM NothingLeftBehind == Spec => [](Backend = "memory" => EndedLeavesNothing)
<1>1. Init => HolderInv /\ RegistryInv
  BY DEF Init, HolderInv, RegistryInv
<1>2. StateInv /\ LockInv /\ HolderInv /\ RegistryInv
      => (Backend = "memory" => EndedLeavesNothing)
  BY RequestsAssumption
  DEF HolderInv, RegistryInv, EndedLeavesNothing, Live, AfterLock, Executions
<1> QED
  BY <1>1, <1>2, HolderStep, RegistryStep, LockHolds, StateHolds, PTL DEF Spec

-------------------------------------------------------------------------------
(* Create tasks outside the in-flight map.                                 *)

(* Every step keeps a running create task in the map, or in the hands of a *)
(* cancel that will end it.                                                *)
LEMMA StrayStep ==
    StateInv /\ StrayCreatesAreDoomed /\ [Next]_vars => StrayCreatesAreDoomed'
<1> SUFFICES ASSUME StateInv /\ StrayCreatesAreDoomed, [Next]_vars
             PROVE  StrayCreatesAreDoomed'
  OBVIOUS
<1> USE RequestAttributes, NoneAssumption, RequestsAssumption,
        CreateStatesAssumption, PairTyped
    DEF StateInv, TypeOK, ManagerTypeOK, ControlInv, StrayCreatesAreDoomed,
        Executions, CreateStates, At, managerVars, storeVars
<1>1. ASSUME UNCHANGED <<inflight, create, cancel>>
      PROVE  StrayCreatesAreDoomed'
  BY <1>1
<1>2. ASSUME NEW r \in Requests, LookupStart(r) PROVE StrayCreatesAreDoomed'
  BY <1>2 DEF LookupStart, StartCreate
<1>3. ASSUME NEW r \in Requests, UNCHANGED <<create, cancel>>,
             awaiting[r] \in Requests, create[awaiting[r]] # "running",
             DropInflight(PairOf(r), awaiting[r])
      PROVE  StrayCreatesAreDoomed'
  BY <1>3 DEF DropInflight
<1>4. ASSUME NEW r \in Requests, Record(r) PROVE StrayCreatesAreDoomed'
  BY <1>4, <1>3 DEF Record
<1>5. ASSUME NEW r \in Requests, Fail(r) PROVE StrayCreatesAreDoomed'
  <2>1. UNCHANGED <<create, cancel>>
    BY <1>5 DEF Fail
  <2>2. \/ UNCHANGED inflight
        \/ /\ awaiting[r] \in Requests /\ create[awaiting[r]] # "running"
           /\ DropInflight(PairOf(r), awaiting[r])
    BY <1>5 DEF Fail, Raises
  <2> QED
    BY <2>1, <2>2, <1>1, <1>3
<1>6. ASSUME NEW r \in Requests, Interrupt(r) PROVE StrayCreatesAreDoomed'
  BY <1>6 DEF Interrupt
<1>7. ASSUME NEW r \in Requests, Operate(r) PROVE StrayCreatesAreDoomed'
  BY <1>7 DEF Operate, ForkSession
<1>8. ASSUME NEW r \in Requests, CreateAnswers(r) PROVE StrayCreatesAreDoomed'
  BY <1>8 DEF CreateAnswers, CreateSucceeds, CreateFails
<1>9. ASSUME NEW k \in Keys, NEW i \in Identities, CancelRead(k, i)
      PROVE  StrayCreatesAreDoomed'
  BY <1>9 DEF CancelRead
<1>10. ASSUME NEW k \in Keys, CancelPop(k) PROVE StrayCreatesAreDoomed'
  <2>1. /\ UNCHANGED create
        /\ inflight' = [inflight EXCEPT ![cancel[k].pair] = None]
        /\ cancel[k].phase = "read" /\ cancel[k].pair \in Pairs
    BY <1>10 DEF CancelPop, PopCachedSession, CancelInv
  <2>2. /\ cancel'[k].phase = "popped"
        /\ cancel'[k].create = inflight[cancel[k].pair]
        /\ \A j \in Keys \ {k} : cancel'[j] = cancel[j]
    BY <1>10 DEF CancelPop
  <2> QED
    BY <2>1, <2>2
<1>11. ASSUME NEW k \in Keys, CancelKill(k) PROVE StrayCreatesAreDoomed'
  <2>1. /\ UNCHANGED inflight
        /\ \A j \in Keys \ {k} : cancel'[j] = cancel[j]
    BY <1>11 DEF CancelKill
  <2>2. \A r \in Requests : create'[r] = "running" =>
            create[r] = "running" /\ cancel[k].create # r
    BY <1>11 DEF CancelKill
  <2> QED
    BY <2>1, <2>2
<1>12. ASSUME NEW k \in Keys, CancelFails(k) PROVE StrayCreatesAreDoomed'
  BY <1>12 DEF CancelFails
<1>13. ASSUME NEW r \in Requests,
             \/ Reject(r) \/ Start(r) \/ Claim(r) \/ Rebind(r) \/ LookupBound(r)
             \/ LookupJoin(r) \/ Created(r) \/ GetSessionLock(r) \/ Acquire(r)
             \/ Send(r) \/ Finalize(r) \/ FinalBind(r) \/ ContinueWithTools(r)
             \/ AwaitTerminal(r) \/ Complete(r) \/ Adopt(r)
             \/ ShareCancellation(r) \/ Release(r) \/ InterruptRelease(r)
             \/ Unlock(r) \/ StreamSignals(r) \/ StreamEnds(r) \/ Disconnect(r)
      PROVE  StrayCreatesAreDoomed'
  BY <1>13, <1>1
  DEF Reject, Start, Claim, Rebind, LookupBound, LookupJoin, Created,
      GetSessionLock, Acquire, Send, Finalize, FinalBind, ContinueWithTools,
      AwaitTerminal, Complete, Adopt, ShareCancellation, Release,
      InterruptRelease, Unlock, StreamSignals, StreamEnds, Disconnect
<1>14. ASSUME NEW s \in Sessions, Expire(s) \/ CollectLock(s)
       PROVE  StrayCreatesAreDoomed'
  BY <1>14, <1>1 DEF Expire, CollectLock
<1>15. ASSUME Forget \/ UNCHANGED vars PROVE StrayCreatesAreDoomed'
  BY <1>15, <1>1 DEF Forget, vars
<1> QED
  BY <1>2, <1>4, <1>5, <1>6, <1>7, <1>8, <1>9, <1>10, <1>11, <1>12, <1>13,
     <1>14, <1>15
  DEF Next, Advance, Bind, Turn, Unwind, Stream, CancelTask

(* Two requests of a conversation never have two create_session tasks, but *)
(* for one that a tasks/cancel took out of the map and is about to cancel  *)
(* (session_manager.py, pop_cached_session): for either repository.        *)
THEOREM StraysAlwaysDoomed == Spec => []StrayCreatesAreDoomed
<1>1. Init => StrayCreatesAreDoomed
  BY DEF Init, ManagerInit, StrayCreatesAreDoomed, Executions
<1> QED
  BY <1>1, StrayStep, StateHolds, PTL DEF Spec

-------------------------------------------------------------------------------
(* Claims.                                                                 *)

(* After every step a request owes nothing where it is about to claim, has *)
(* only its lock to give back, or a forked session to adopt.               *)
LEMMA OweStep ==
    StateInv /\ ClaimantInv /\ [Next]_vars
    => \A r \in Requests : pc'[r] \in {"claim", "adopt", "unlock"} => ~pending'[r]
<1> DEFINE Goal == \A r \in Requests :
                       pc'[r] \in {"claim", "adopt", "unlock"} => ~pending'[r]
<1> SUFFICES ASSUME StateInv, ClaimantInv, [Next]_vars PROVE Goal
  OBVIOUS
<1> USE RequestAttributes
    DEF StateInv, TypeOK, ControlInv, ClaimInv, ClaimantInv, At, Goto,
        CleanupPc, flowVars
<1>1. ASSUME UNCHANGED <<pc, pending>> PROVE Goal
  BY <1>1
<1>2. ASSUME NEW r \in Requests, UNCHANGED pending,
             \A q \in Requests \ {r} : pc'[q] = pc[q],
             pc'[r] \in {"claim", "adopt", "unlock"} => ~pending[r]
      PROVE  Goal
  BY <1>2
<1>3. ASSUME NEW r \in Requests,
             \/ Reject(r) \/ Start(r) \/ Rebind(r) \/ LookupBound(r)
             \/ LookupJoin(r) \/ LookupStart(r) \/ Created(r) \/ Record(r)
             \/ GetSessionLock(r) \/ Acquire(r) \/ Send(r)
             \/ ContinueWithTools(r) \/ AwaitTerminal(r) \/ Complete(r)
             \/ Operate(r) \/ Adopt(r)
             \/ Fail(r) \/ Interrupt(r) \/ ShareCancellation(r)
             \/ InterruptRelease(r) \/ Unlock(r)
      PROVE  Goal
  <2>1. /\ UNCHANGED pending /\ \A q \in Requests \ {r} : pc'[q] = pc[q]
        /\ pc'[r] \in {"claim", "adopt", "unlock"} => ~pending[r]
    BY <1>3 DEF Reject, Start, Rebind, LookupBound, LookupJoin, LookupStart,
         Created, Record, GetSessionLock, Acquire, Send, ContinueWithTools,
         AwaitTerminal, Complete, Operate, Adopt, Fail, Interrupt,
         ShareCancellation, InterruptRelease, Unlock
  <2> QED
    BY <2>1, <1>2
<1>4. ASSUME NEW r \in Requests, Claim(r) \/ FinalBind(r) \/ Release(r)
      PROVE  Goal
  <2>1. /\ \A q \in Requests \ {r} : pc'[q] = pc[q] /\ pending'[q] = pending[q]
        /\ pc'[r] \in {"claim", "adopt", "unlock"} => pending'[r] = FALSE
    BY <1>4 DEF Claim, FinalBind, Release
  <2> QED
    BY <2>1
<1>5. ASSUME NEW r \in Requests,
             \/ StreamSignals(r) \/ StreamEnds(r) \/ Disconnect(r)
             \/ CreateAnswers(r)
      PROVE  Goal
  BY <1>5, <1>1 DEF StreamSignals, StreamEnds, Disconnect, CreateAnswers
<1>6. ASSUME NEW k \in Keys, CancelTask(k) PROVE Goal
  BY <1>6, <1>1 DEF CancelTask, CancelRead, CancelPop, CancelKill, CancelFails
<1>7. ASSUME NEW s \in Sessions, Expire(s) \/ CollectLock(s) PROVE Goal
  BY <1>7, <1>1 DEF Expire, CollectLock
<1>8. ASSUME Forget \/ UNCHANGED vars PROVE Goal
  BY <1>8, <1>1 DEF Forget, vars
<1>9. ASSUME NEW r \in Requests, Finalize(r) PROVE Goal
  <2>1. /\ \A q \in Requests \ {r} : pc'[q] = pc[q] /\ pending'[q] = pending[q]
        /\ pc'[r] \in {"finalbind", "adopt", "done"}
    BY <1>9 DEF Finalize
  <2>2. CASE KindOf[r] = "send"
    <3>1. pc' = [pc EXCEPT ![r] = "finalbind"]
      BY <1>9, <2>2 DEF Finalize
    <3> QED
      BY <2>1, <3>1
  <2>3. CASE KindOf[r] # "send"
    <3>1. pending' = [pending EXCEPT ![r] = FALSE]
      BY <1>9, <2>3 DEF Finalize
    <3> QED
      BY <2>1, <3>1
  <2> QED
    BY <2>2, <2>3
<1> QED
  BY <1>3, <1>4, <1>5, <1>6, <1>7, <1>8, <1>9
  DEF Next, Advance, Bind, Turn, Unwind, Stream

(* A step that only clears claims, and after which the claimant of a claim *)
(* that is left still has to settle it, keeps the claimants.               *)
LEMMA ClaimantsStay ==
    ASSUME ClaimantInv, Backend = "memory",
           \A s \in Sessions : claim'[s] \in {claim[s], None},
           \A r \in Requests, s \in Sessions :
               claim'[s] # None /\ Claimant(r, s) =>
                   /\ pending'[r] /\ sid'[r] = sid[r]
                   /\ pc'[r] \notin {"idle", "finalbind", "done"}
    PROVE  \A s \in Sessions :
               claim'[s] # None => \E r \in Requests : Claimant(r, s)'
<1> SUFFICES ASSUME NEW s \in Sessions, claim'[s] # None
             PROVE  \E r \in Requests : Claimant(r, s)'
  OBVIOUS
<1>1. claim'[s] = claim[s] /\ claim[s] # None
  OBVIOUS
<1>2. PICK r \in Requests : Claimant(r, s)
  BY <1>1 DEF ClaimantInv
<1> QED
  BY <1>1, <1>2 DEF Claimant

(* Every step keeps each claim in the hands of a request that settles it.  *)
LEMMA ClaimantStep == StateInv /\ ClaimantInv /\ [Next]_vars => ClaimantInv'
<1> DEFINE Goal == \A s \in Sessions :
                       claim'[s] # None => \E r \in Requests : Claimant(r, s)'
<1> SUFFICES ASSUME StateInv, ClaimantInv, [Next]_vars, Backend = "memory"
             PROVE  Goal
  BY OweStep DEF ClaimantInv
<1> USE RequestAttributes, NoneAssumption
    DEF StateInv, TypeOK, ManagerTypeOK, StoreTypeOK, ControlInv, ClaimInv,
        HasSession, Driving, At, Goto, CleanupPc, flowVars, storeVars
<1>1. ASSUME UNCHANGED <<pc, pending, sid>>,
             \A s \in Sessions : claim'[s] \in {claim[s], None}
      PROVE  Goal
  BY <1>1, ClaimantsStay DEF Claimant
<1>2. ASSUME NEW r \in Requests, OnlyMoves(r), UNCHANGED claim,
             \/ ~pending[r]
             \/ pc[r] = "finalbind"
             \/ /\ pending'[r] /\ sid'[r] = sid[r]
                /\ pc'[r] \notin {"idle", "finalbind", "done"}
      PROVE  Goal
  BY <1>2, ClaimantsStay DEF Claimant, OnlyMoves
<1>3. ASSUME NEW r \in Requests, OnlyMoves(r), UNCHANGED sid,
             sid[r] \in Sessions,
             \A s \in Sessions : claim'[s] \in {claim[s], None},
             ~pending[r] \/ claim'[sid[r]] # IdentityOf[r]
      PROVE  Goal
  BY <1>3, ClaimantsStay DEF Claimant, OnlyMoves
<1>4. ASSUME NEW r \in Requests, Claim(r) PROVE Goal
  <2>1. /\ pc[r] = "claim" /\ sid' = sid /\ OnlyMoves(r)
        /\ pc' = [pc EXCEPT ![r] = pc'[r]]
        /\ pc'[r] \in {"op", "getlock", "rebind"}
    BY <1>4 DEF Claim, OnlyMoves
  <2>2. CASE owner[sid[r]] = IdentityOf[r]
    <3>1. UNCHANGED claim /\ ~pending[r]
      BY <1>4, <2>1, <2>2
      DEF Claim, ClaimPreferredSession, ClaimIsPending, ClaimantInv
    <3> QED
      BY <2>1, <3>1, <1>2
  <2>3. CASE owner[sid[r]] # IdentityOf[r]
    <3>1. /\ claim' = [claim EXCEPT ![sid[r]] = IdentityOf[r]]
          /\ pending' = [pending EXCEPT ![r] = TRUE] /\ sid[r] \in Sessions
      BY <1>4, <2>1, <2>3
      DEF Claim, ClaimPreferredSession, ClaimIsPending, SetPendingClaim
    <3>2. Claimant(r, sid[r])'
      BY <2>1, <3>1 DEF Claimant
    <3>3. ASSUME NEW s \in Sessions \ {sid[r]}, claim'[s] # None
          PROVE  \E q \in Requests : Claimant(q, s)'
      <4>1. PICK q \in Requests : Claimant(q, s)
        BY <3>1, <3>3 DEF ClaimantInv
      <4> QED
        BY <2>1, <3>1, <3>3, <4>1 DEF Claimant, OnlyMoves
    <3> QED
      BY <2>1, <3>1, <3>2, <3>3
  <2> QED
    BY <2>2, <2>3
<1>5. ASSUME NEW r \in Requests,
             \/ Reject(r) \/ Start(r) \/ Rebind(r) \/ LookupBound(r)
             \/ LookupJoin(r) \/ LookupStart(r) \/ Created(r) \/ Record(r)
             \/ FinalBind(r) \/ Unlock(r)
      PROVE  Goal
  <2>1. /\ OnlyMoves(r) /\ UNCHANGED claim
        /\ pc[r] \in {"idle", "rebind", "lookup", "creating", "record",
                      "finalbind", "unlock"}
    BY <1>5 DEF OnlyMoves, Reject, Start, Rebind, BindSession, LookupBound,
         LookupJoin, LookupStart, Created, Record, RecordCreated, FinalBind,
         Unlock
  <2> QED
    BY <2>1, <1>2 DEF ClaimantInv
<1>6. ASSUME NEW r \in Requests,
             \/ GetSessionLock(r) \/ Acquire(r) \/ Send(r)
             \/ ContinueWithTools(r) \/ AwaitTerminal(r) \/ Complete(r)
             \/ Operate(r) \/ Fail(r) \/ Interrupt(r) \/ ShareCancellation(r)
      PROVE  Goal
  <2>1. /\ OnlyMoves(r) /\ UNCHANGED <<claim, pending, sid>>
        /\ pending[r] => pc'[r] \notin {"idle", "finalbind", "done"}
    BY <1>6 DEF OnlyMoves, GetSessionLock, Acquire, Send, ContinueWithTools,
         AwaitTerminal, Complete, Operate, Fail, Interrupt, TornWrite,
         FinalizeOwnerOnly, ShareCancellation
  <2> QED
    BY <2>1, <1>2
<1>7. ASSUME NEW r \in Requests, Finalize(r) \/ Release(r) PROVE Goal
  <2>1. /\ OnlyMoves(r) /\ UNCHANGED sid /\ sid[r] \in Sessions
        /\ ClearPendingClaim(sid[r], IdentityOf[r])
    BY <1>7 DEF OnlyMoves, Finalize, FinalizeSessionClaim, Release,
         ReleasePreferredSessionClaim
  <2> QED
    BY <2>1, <1>3 DEF ClearPendingClaim
<1>8. ASSUME NEW r \in Requests, Adopt(r) PROVE Goal
  <2>1. /\ OnlyMoves(r) /\ UNCHANGED sid /\ ~pending[r] /\ sid[r] \in Sessions
        /\ ClearPendingClaim(create[r], IdentityOf[r])
    BY <1>8 DEF OnlyMoves, Adopt, FinalizeSessionClaim, ClaimantInv
  <2> QED
    BY <2>1, <1>3 DEF ClearPendingClaim
<1>9. ASSUME NEW r \in Requests, InterruptRelease(r) PROVE Goal
  BY <1>9 DEF InterruptRelease
<1>10. ASSUME NEW r \in Requests,
             \/ StreamSignals(r) \/ StreamEnds(r) \/ Disconnect(r)
             \/ CreateAnswers(r)
      PROVE  Goal
  BY <1>10, <1>1 DEF StreamSignals, StreamEnds, Disconnect, CreateAnswers
<1>11. ASSUME NEW k \in Keys, CancelTask(k) PROVE Goal
  BY <1>11, <1>1
  DEF CancelTask, CancelRead, CancelPop, PopCachedSession, CancelKill,
      CancelFails
<1>12. ASSUME NEW s \in Sessions, Expire(s) \/ CollectLock(s) PROVE Goal
  BY <1>12, <1>1 DEF Expire, ExpireClaim, CollectLock
<1>13. ASSUME Forget \/ UNCHANGED vars PROVE Goal
  BY <1>13, <1>1 DEF Forget, ForgetBinding, ForgetOwner, vars
<1> QED
  BY <1>4, <1>5, <1>6, <1>7, <1>8, <1>9, <1>10, <1>11, <1>12, <1>13
  DEF Next, Advance, Bind, Turn, Unwind, Stream

(* With the memory repository a pending claim keeps others out only while  *)
(* a request that made it is being served and will finalize or release it: *)
(* no sequence of failures and cancellations leaves a claim to its lease.  *)
THEOREM ClaimsAlwaysHaveClaimants ==
    Spec => [](Backend = "memory" => ClaimsHaveClaimants)
<1>1. Init => ClaimantInv
  BY DEF Init, ManagerInit, StoreInit, ClaimantInv
<1>2. ClaimantInv => (Backend = "memory" => ClaimsHaveClaimants)
  BY DEF ClaimantInv, Claimant, ClaimsHaveClaimants, Live
<1> QED
  BY <1>1, <1>2, ClaimantStep, StateHolds, PTL DEF Spec
===============================================================================
