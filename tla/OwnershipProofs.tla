---------------------------- MODULE OwnershipProofs ----------------------------
(***************************************************************************)
(* Who owns a session stays its owner, every conversation is bound to a    *)
(* session of its identity, and only the owner's executions generate: the  *)
(* service implements SessionCustody.                                      *)
(***************************************************************************)
EXTENDS ExecutionProofs

-------------------------------------------------------------------------------
(* Owners.                                                                 *)

(* A torn critical section sets no owner but an absent one.                *)
LEMMA TornOwners ==
    ASSUME StateInv, NEW r \in Requests, TornWrite(r)
    PROVE  OwnerSteps
<1> USE RequestAttributes, NoneAssumption, PairTyped
    DEF StateInv, TypeOK, ManagerTypeOK, StoreTypeOK, ControlInv, HasSession,
        Driving, OwnerSteps
<1>1. CASE UNCHANGED storeVars
  BY <1>1 DEF storeVars
<1>2. CASE ClaimPreferredSession(IdentityOf[r], sid[r])
  BY <1>2 DEF ClaimPreferredSession
<1>3. CASE pc[r] = "record" /\ RecordBindingOnly(PairOf(r), create[awaiting[r]])
  BY <1>3 DEF RecordBindingOnly
<1>4. CASE pc[r] = "record" /\ RecordCreated(PairOf(r), create[awaiting[r]])
  BY <1>4 DEF RecordCreated, SetOwner
<1>5. CASE pc[r] = "finalize" /\ FinalizeOwnerOnly(IdentityOf[r], sid[r])
  BY <1>5 DEF FinalizeOwnerOnly, SetOwner, MayHold
<1> QED
  BY <1>1, <1>2, <1>3, <1>4, <1>5 DEF TornWrite

(* No step takes a session from its owner, except by forgetting.           *)
LEMMA OwnerStep == StateInv /\ [Next]_vars => OwnerSteps
<1> SUFFICES ASSUME StateInv, [Next]_vars PROVE OwnerSteps
  OBVIOUS
<1> USE RequestAttributes, NoneAssumption
    DEF StateInv, TypeOK, ManagerTypeOK, StoreTypeOK, ControlInv, HasSession,
        OwnerSteps, storeVars, At, Driving
<1>1. ASSUME NEW r \in Requests,
           Reject(r) \/ Start(r) \/ LookupBound(r) \/ LookupJoin(r) \/
           LookupStart(r) \/ Created(r) \/ GetSessionLock(r) \/ Acquire(r) \/
           Send(r) \/ ContinueWithTools(r) \/ AwaitTerminal(r) \/ Complete(r)
           \/ Operate(r) \/ ShareCancellation(r) \/ Unlock(r) \/
           StreamSignals(r) \/ StreamEnds(r) \/ Disconnect(r) \/
           CreateAnswers(r)
      PROVE  OwnerSteps
  BY <1>1 DEF Reject, EmitError, Start, Register, LookupBound, LookupJoin, LookupStart, Created,
     GetSessionLock, Acquire, Send, ContinueWithTools, AwaitTerminal,
     Complete, Operate, ForkSession, ShareCancellation, Unlock, StreamSignals,
     StreamEnds, Disconnect, CreateAnswers
<1>2. ASSUME NEW r \in Requests, Claim(r) PROVE OwnerSteps
  BY <1>2 DEF Claim, ClaimPreferredSession
<1>3. ASSUME NEW r \in Requests, Rebind(r) PROVE OwnerSteps
  BY <1>3 DEF Rebind, BindSession
<1>4. ASSUME NEW r \in Requests, Record(r) PROVE OwnerSteps
  BY <1>4, PairTyped DEF Record, RecordCreated, SetOwner
<1>5. ASSUME NEW r \in Requests, Finalize(r) PROVE OwnerSteps
  BY <1>5 DEF Finalize, FinalizeSessionClaim, SetOwner, MayHold
<1>6. ASSUME NEW r \in Requests, FinalBind(r) PROVE OwnerSteps
  BY <1>6 DEF FinalBind, BindSession
<1>7. ASSUME NEW r \in Requests, Adopt(r) PROVE OwnerSteps
  BY <1>7 DEF Adopt, FinalizeSessionClaim, SetOwner, MayHold
<1>8. ASSUME NEW r \in Requests, Fail(r) PROVE OwnerSteps
  BY <1>8, TornOwners DEF Fail, EmitError
<1>9. ASSUME NEW r \in Requests, Interrupt(r) PROVE OwnerSteps
  BY <1>9, TornOwners DEF Interrupt
<1>10. ASSUME NEW r \in Requests, Release(r) PROVE OwnerSteps
  BY <1>10 DEF Release, ReleasePreferredSessionClaim
<1>11. ASSUME NEW r \in Requests, InterruptRelease(r) PROVE OwnerSteps
  BY <1>11 DEF InterruptRelease, ReleasePreferredSessionClaim
<1>12. ASSUME NEW k \in Keys, NEW i \in Identities, CancelRead(k, i)
      PROVE  OwnerSteps
  BY <1>12 DEF CancelRead
<1>13. ASSUME NEW k \in Keys, CancelPop(k) PROVE OwnerSteps
  BY <1>13 DEF CancelPop, PopCachedSession
<1>14. ASSUME NEW k \in Keys, CancelKill(k) PROVE OwnerSteps
  BY <1>14 DEF CancelKill
<1>15. ASSUME NEW k \in Keys, CancelFails(k) PROVE OwnerSteps
  BY <1>15 DEF CancelFails
<1>16. ASSUME NEW s \in Sessions, Expire(s) PROVE OwnerSteps
  BY <1>16 DEF Expire, ExpireClaim
<1>17. ASSUME NEW s \in Sessions, CollectLock(s) PROVE OwnerSteps
  BY <1>17 DEF CollectLock
<1>18. ASSUME Forget PROVE OwnerSteps
  BY <1>18 DEF Forget, ForgetBinding, ForgetOwner, SetOwner
<1>19. ASSUME UNCHANGED vars PROVE OwnerSteps
  BY <1>19 DEF vars
<1> QED
  BY <1>1, <1>2, <1>3, <1>4, <1>5, <1>6, <1>7, <1>8, <1>9, <1>10, <1>11,
     <1>12, <1>13, <1>14, <1>15, <1>16, <1>17, <1>18, <1>19, NextCases

(* No claim, finalisation, fresh session, torn write, expiry or eviction   *)
(* passes a session from one identity to another (session_manager.py,      *)
(* state_store.py): an owner is only ever set or forgotten.                *)
THEOREM OwnersNeverChangeHands == Spec => OwnersStay
<1>1. StateInv /\ [Next]_vars =>
        [\A s \in Sessions :
            owner[s] # None => \/ owner'[s] = owner[s]
                               \/ Backend = "memory" /\ owner'[s] = None]_owner
  BY OwnerStep DEF OwnerSteps
<1> QED
  BY <1>1, StateHolds, PTL DEF Spec, OwnersStay

(* Who is entitled to a session stays so.                                  *)
LEMMA EntitledStays ==
    ASSUME StateInv, [Next]_vars, NEW i \in Identities, NEW s \in Sessions,
           Entitled(i, s)
    PROVE  Entitled(i, s)'
BY OwnerStep, NoneAssumption DEF OwnerSteps, Entitled

-------------------------------------------------------------------------------
(* Bindings and their users.                                               *)

(* A torn critical section binds only what its caller is entitled to.      *)
LEMMA TornBindings ==
    ASSUME StateInv, OwnershipInv, NEW r \in Requests, TornWrite(r), OwnerSteps
    PROVE  BindingsAreOwned'
<1> USE RequestAttributes, NoneAssumption, PairTyped
    DEF StateInv, TypeOK, ManagerTypeOK, StoreTypeOK, ControlInv,
        OwnershipInv, BindingsAreOwned, Entitled, OwnerSteps
<1>1. CASE UNCHANGED binding
  BY <1>1 DEF Pairs
<1>2. CASE pc[r] = "record" /\ RecordBindingOnly(PairOf(r), create[awaiting[r]])
  BY <1>2 DEF RecordBindingOnly, SetSession, Pairs
<1>3. CASE pc[r] = "record" /\ RecordCreated(PairOf(r), create[awaiting[r]])
  BY <1>3 DEF RecordCreated, SetSession, SetOwner, Pairs
<1> QED
  BY <1>1, <1>2, <1>3
  DEF TornWrite, storeVars, ClaimPreferredSession, FinalizeOwnerOnly

(* Every step keeps the bindings owned.                                    *)
LEMMA BindingStep == StateInv /\ OwnershipInv /\ [Next]_vars => BindingsAreOwned'
<1> SUFFICES ASSUME StateInv /\ OwnershipInv, [Next]_vars PROVE BindingsAreOwned'
  OBVIOUS
<1>0. \A i \in Identities, s \in Sessions :
        Entitled(i, s) => owner'[s] = i \/ s \in orphaned'
  BY EntitledStays DEF Entitled
<1> USE <1>0, RequestAttributes, NoneAssumption, PairTyped
    DEF StateInv, TypeOK, ManagerTypeOK, StoreTypeOK, ControlInv, HasSession,
        Driving, Bound, OwnershipInv, BindingsAreOwned, Entitled, Pairs,
        ClaimInv, storeVars, At
<1>1. ASSUME NEW r \in Requests,
           Reject(r) \/ Start(r) \/ LookupBound(r) \/ LookupJoin(r) \/
           LookupStart(r) \/ Created(r) \/ GetSessionLock(r) \/ Acquire(r) \/
           Send(r) \/ ContinueWithTools(r) \/ AwaitTerminal(r) \/ Complete(r)
           \/ Operate(r) \/ ShareCancellation(r) \/ Unlock(r) \/
           StreamSignals(r) \/ StreamEnds(r) \/ Disconnect(r) \/
           CreateAnswers(r)
      PROVE  BindingsAreOwned'
  BY <1>1 DEF Reject, EmitError, Start, Register, LookupBound, LookupJoin, LookupStart, Created,
     GetSessionLock, Acquire, Send, ContinueWithTools, AwaitTerminal,
     Complete, Operate, ForkSession, ShareCancellation, Unlock, StreamSignals,
     StreamEnds, Disconnect, CreateAnswers
<1>2. ASSUME NEW r \in Requests, Claim(r) PROVE BindingsAreOwned'
  BY <1>2 DEF Claim, ClaimPreferredSession
<1>3. ASSUME NEW r \in Requests, Rebind(r) PROVE BindingsAreOwned'
  <2>1. SUFFICES ASSUME NEW p \in Pairs, binding'[p] # None
                 PROVE  Entitled(p[1], binding[p])'
    BY DEF BindingsAreOwned
  <2>2. /\ binding' = [binding EXCEPT ![PairOf(r)] = sid[r]]
        /\ PairOf(r) \in Pairs /\ PairOf(r)[1] = IdentityOf[r]
    BY <1>3, PairTyped DEF Rebind, BindSession, SetSession
  <2>3. CASE p = PairOf(r)
    <3>1. pc[r] = "rebind"
      BY <1>3 DEF Rebind
    <3>2. sid[r] \in Sessions
      BY <3>1
    <3>3. Entitled(IdentityOf[r], sid[r])
      BY <3>1 DEF UsersEntitled
    <3>4. owner'[sid[r]] = IdentityOf[r] \/ sid[r] \in orphaned'
      BY <3>2, <3>3
    <3> QED
      BY <3>4, <2>2, <2>3
  <2>4. CASE p # PairOf(r)
    <3>1. p[1] \in Identities /\ binding'[p] = binding[p] /\ binding[p] \in Sessions
      BY <2>1, <2>2, <2>4 DEF Pairs
    <3> QED
      BY <3>1, <2>1, EntitledStays DEF BindingsAreOwned, Entitled
  <2> QED
    BY <2>3, <2>4
<1>4. ASSUME NEW r \in Requests, Record(r) PROVE BindingsAreOwned'
  <2>1. SUFFICES ASSUME NEW p \in Pairs, binding'[p] # None
                 PROVE  Entitled(p[1], binding[p])'
    BY DEF BindingsAreOwned
  <2>2. /\ binding' = [binding EXCEPT ![PairOf(r)] = create[awaiting[r]]]
        /\ PairOf(r) \in Pairs /\ PairOf(r)[1] = IdentityOf[r]
    BY <1>4, PairTyped DEF Record, RecordCreated, SetSession
  <2>3. CASE p = PairOf(r)
    <3>1. owner' = [owner EXCEPT ![create[awaiting[r]]] = IdentityOf[r]]
      BY <1>4, <2>2 DEF Record, RecordCreated, SetOwner
    <3> QED
      BY <1>4, <3>1, <2>2, <2>3 DEF Record
  <2>4. CASE p # PairOf(r)
    <3>1. p[1] \in Identities /\ binding'[p] = binding[p] /\ binding[p] \in Sessions
      BY <2>1, <2>2, <2>4 DEF Pairs
    <3> QED
      BY <3>1, <2>1, EntitledStays DEF BindingsAreOwned, Entitled
  <2> QED
    BY <2>3, <2>4
<1>5. ASSUME NEW r \in Requests, Finalize(r) PROVE BindingsAreOwned'
  BY <1>5 DEF Finalize, FinalizeSessionClaim
<1>6. ASSUME NEW r \in Requests, FinalBind(r) PROVE BindingsAreOwned'
  <2>1. SUFFICES ASSUME NEW p \in Pairs, binding'[p] # None
                 PROVE  Entitled(p[1], binding[p])'
    BY DEF BindingsAreOwned
  <2>2. /\ binding' = [binding EXCEPT ![PairOf(r)] = sid[r]]
        /\ PairOf(r) \in Pairs /\ PairOf(r)[1] = IdentityOf[r]
    BY <1>6, PairTyped DEF FinalBind, BindSession, SetSession
  <2>3. CASE p = PairOf(r)
    <3>1. pc[r] = "finalbind"
      BY <1>6 DEF FinalBind
    <3>2. sid[r] \in Sessions
      BY <3>1
    <3>3. Entitled(IdentityOf[r], sid[r])
      BY <3>1 DEF UsersEntitled
    <3>4. owner'[sid[r]] = IdentityOf[r] \/ sid[r] \in orphaned'
      BY <3>2, <3>3
    <3> QED
      BY <3>4, <2>2, <2>3
  <2>4. CASE p # PairOf(r)
    <3>1. p[1] \in Identities /\ binding'[p] = binding[p] /\ binding[p] \in Sessions
      BY <2>1, <2>2, <2>4 DEF Pairs
    <3> QED
      BY <3>1, <2>1, EntitledStays DEF BindingsAreOwned, Entitled
  <2> QED
    BY <2>3, <2>4
<1>7. ASSUME NEW r \in Requests, Adopt(r) PROVE BindingsAreOwned'
  BY <1>7 DEF Adopt, FinalizeSessionClaim
<1>8. ASSUME NEW r \in Requests, Fail(r) PROVE BindingsAreOwned'
  BY <1>8, TornBindings, OwnerStep DEF Fail, EmitError
<1>9. ASSUME NEW r \in Requests, Interrupt(r) PROVE BindingsAreOwned'
  BY <1>9, TornBindings, OwnerStep DEF Interrupt
<1>10. ASSUME NEW r \in Requests, Release(r) PROVE BindingsAreOwned'
  BY <1>10 DEF Release, ReleasePreferredSessionClaim
<1>11. ASSUME NEW r \in Requests, InterruptRelease(r) PROVE BindingsAreOwned'
  BY <1>11 DEF InterruptRelease, ReleasePreferredSessionClaim
<1>12. ASSUME NEW k \in Keys, NEW i \in Identities, CancelRead(k, i)
      PROVE  BindingsAreOwned'
  BY <1>12 DEF CancelRead
<1>13. ASSUME NEW k \in Keys, CancelPop(k) PROVE BindingsAreOwned'
  BY <1>13 DEF CancelPop, PopCachedSession, PopSession, CancelInv
<1>14. ASSUME NEW k \in Keys, CancelKill(k) PROVE BindingsAreOwned'
  BY <1>14 DEF CancelKill
<1>15. ASSUME NEW k \in Keys, CancelFails(k) PROVE BindingsAreOwned'
  BY <1>15 DEF CancelFails
<1>16. ASSUME NEW s \in Sessions, Expire(s) PROVE BindingsAreOwned'
  BY <1>16 DEF Expire, ExpireClaim
<1>17. ASSUME NEW s \in Sessions, CollectLock(s) PROVE BindingsAreOwned'
  BY <1>17 DEF CollectLock
<1>18. ASSUME Forget PROVE BindingsAreOwned'
  BY <1>18 DEF Forget, ForgetBinding, ForgetOwner, PopSession
<1>19. ASSUME UNCHANGED vars PROVE BindingsAreOwned'
  BY <1>19 DEF vars
<1> QED
  BY <1>1, <1>2, <1>3, <1>4, <1>5, <1>6, <1>7, <1>8, <1>9, <1>10, <1>11,
     <1>12, <1>13, <1>14, <1>15, <1>16, <1>17, <1>18, <1>19, NextCases

(* Every step keeps the requests entitled to the sessions they are in.     *)
LEMMA EntitledStep == StateInv /\ OwnershipInv /\ [Next]_vars => UsersEntitled'
<1> SUFFICES ASSUME StateInv /\ OwnershipInv, [Next]_vars PROVE UsersEntitled'
  OBVIOUS
<1>0. \A i \in Identities, s \in Sessions :
        Entitled(i, s) => owner'[s] = i \/ s \in orphaned'
  BY EntitledStays DEF Entitled
<1> USE <1>0, RequestAttributes, NoneAssumption, PairTyped
    DEF StateInv, TypeOK, ManagerTypeOK, StoreTypeOK, ControlInv, HasSession,
        Driving, Bound, OwnershipInv, UsersEntitled, BindingsAreOwned, Entitled,
        ClaimInv, storeVars, At, Goto, CleanupPc, flowVars
<1>1. ASSUME NEW r \in Requests,
           StreamSignals(r) \/ StreamEnds(r) \/ Disconnect(r) \/
           CreateAnswers(r)
      PROVE  UsersEntitled'
  BY <1>1 DEF StreamSignals, StreamEnds, Disconnect, CreateAnswers
<1>2. ASSUME NEW r \in Requests, Reject(r) PROVE UsersEntitled'
  BY <1>2 DEF Reject, EmitError
<1>3. ASSUME NEW r \in Requests, Start(r) PROVE UsersEntitled'
  BY <1>3 DEF Start, Register
<1>4. ASSUME NEW r \in Requests, Claim(r) PROVE UsersEntitled'
  <2>1. UNCHANGED <<sid, owner, orphaned>> /\ pc[r] = "claim"
    BY <1>4 DEF Claim, ClaimPreferredSession
  <2>2. CASE owner[sid[r]] = IdentityOf[r]
    BY <1>4, <2>1, <2>2 DEF Claim, ClaimIsPending
  <2>3. CASE owner[sid[r]] # IdentityOf[r]
    <3>1. pending' = [pending EXCEPT ![r] = TRUE]
      BY <1>4, <2>3 DEF Claim, ClaimIsPending
    <3>2. /\ pc' = [pc EXCEPT ![r] = pc'[r]]
          /\ pc'[r] # "finalbind"
      BY <1>4 DEF Claim
    <3> QED
      BY <2>1, <3>1, <3>2
  <2> QED
    BY <2>2, <2>3
<1>5. ASSUME NEW r \in Requests, Rebind(r) PROVE UsersEntitled'
  BY <1>5 DEF Rebind
<1>6. ASSUME NEW r \in Requests, LookupBound(r) PROVE UsersEntitled'
  BY <1>6 DEF LookupBound
<1>7. ASSUME NEW r \in Requests, LookupJoin(r) PROVE UsersEntitled'
  BY <1>7 DEF LookupJoin
<1>8. ASSUME NEW r \in Requests, LookupStart(r) PROVE UsersEntitled'
  BY <1>8 DEF LookupStart
<1>9. ASSUME NEW r \in Requests, Created(r) PROVE UsersEntitled'
  BY <1>9 DEF Created
<1>10. ASSUME NEW r \in Requests, Record(r) PROVE UsersEntitled'
  BY <1>10 DEF Record, RecordCreated, SetOwner
<1>11. ASSUME NEW r \in Requests, GetSessionLock(r) PROVE UsersEntitled'
  BY <1>11 DEF GetSessionLock
<1>12. ASSUME NEW r \in Requests, Acquire(r) PROVE UsersEntitled'
  BY <1>12 DEF Acquire
<1>13. ASSUME NEW r \in Requests, Send(r) PROVE UsersEntitled'
  BY <1>13 DEF Send
<1>14. ASSUME NEW r \in Requests, Finalize(r) PROVE UsersEntitled'
  BY <1>14 DEF Finalize, FinalizeSessionClaim, SetOwner
<1>15. ASSUME NEW r \in Requests, FinalBind(r) PROVE UsersEntitled'
  BY <1>15 DEF FinalBind
<1>16. ASSUME NEW r \in Requests, ContinueWithTools(r) PROVE UsersEntitled'
  BY <1>16 DEF ContinueWithTools
<1>17. ASSUME NEW r \in Requests, AwaitTerminal(r) PROVE UsersEntitled'
  BY <1>17 DEF AwaitTerminal
<1>18. ASSUME NEW r \in Requests, Complete(r) PROVE UsersEntitled'
  BY <1>18 DEF Complete
<1>19. ASSUME NEW r \in Requests, Operate(r) PROVE UsersEntitled'
  BY <1>19 DEF Operate, ForkSession
<1>20. ASSUME NEW r \in Requests, Adopt(r) PROVE UsersEntitled'
  BY <1>20 DEF Adopt
<1>21. ASSUME NEW r \in Requests, Fail(r) PROVE UsersEntitled'
  BY <1>21 DEF Fail, EmitError
<1>22. ASSUME NEW r \in Requests, Interrupt(r) PROVE UsersEntitled'
  BY <1>22 DEF Interrupt
<1>23. ASSUME NEW r \in Requests, ShareCancellation(r) PROVE UsersEntitled'
  BY <1>23 DEF ShareCancellation
<1>24. ASSUME NEW r \in Requests, Release(r) PROVE UsersEntitled'
  BY <1>24 DEF Release
<1>25. ASSUME NEW r \in Requests, InterruptRelease(r) PROVE UsersEntitled'
  BY <1>25 DEF InterruptRelease
<1>26. ASSUME NEW r \in Requests, Unlock(r) PROVE UsersEntitled'
  BY <1>26 DEF Unlock
<1>27. ASSUME NEW k \in Keys, NEW i \in Identities, CancelRead(k, i)
      PROVE  UsersEntitled'
  BY <1>27 DEF CancelRead
<1>28. ASSUME NEW k \in Keys, CancelPop(k) PROVE UsersEntitled'
  BY <1>28 DEF CancelPop
<1>29. ASSUME NEW k \in Keys, CancelKill(k) PROVE UsersEntitled'
  BY <1>29 DEF CancelKill
<1>30. ASSUME NEW k \in Keys, CancelFails(k) PROVE UsersEntitled'
  BY <1>30 DEF CancelFails
<1>31. ASSUME NEW s \in Sessions, Expire(s) PROVE UsersEntitled'
  BY <1>31 DEF Expire
<1>32. ASSUME NEW s \in Sessions, CollectLock(s) PROVE UsersEntitled'
  BY <1>32 DEF CollectLock
<1>33. ASSUME Forget PROVE UsersEntitled'
  BY <1>33 DEF Forget
<1>34. ASSUME UNCHANGED vars PROVE UsersEntitled'
  BY <1>34 DEF vars
<1> QED
  BY <1>1, <1>2, <1>3, <1>4, <1>5, <1>6, <1>7, <1>8, <1>9, <1>10, <1>11,
     <1>12, <1>13, <1>14, <1>15, <1>16, <1>17, <1>18, <1>19, <1>20, <1>21,
     <1>22, <1>23, <1>24, <1>25, <1>26, <1>27, <1>28, <1>29, <1>30, <1>31,
     <1>32, <1>33, <1>34, NextCases

-------------------------------------------------------------------------------
(* The inductive invariant of ownership: bindings and users together.  A   *)
(* binding alone is not inductive: Rebind and FinalBind write it from what *)
(* their request learnt in an earlier critical section.                    *)
THEOREM OwnershipHolds == Spec => []OwnershipInv
<1>1. Init => OwnershipInv
  BY DEF Init, ManagerInit, StoreInit, OwnershipInv, BindingsAreOwned,
     UsersEntitled, Bound, Driving
<1>2. StateInv /\ OwnershipInv /\ [Next]_vars => OwnershipInv'
  BY BindingStep, EntitledStep DEF OwnershipInv
<1> QED
  BY <1>1, <1>2, StateHolds, PTL DEF Spec

(* The lookup of get_or_create_session may trust a binding without asking  *)
(* who owns its session.                                                   *)
THEOREM BindingsAlwaysOwned == Spec => []BindingsAreOwned
<1>1. OwnershipInv => BindingsAreOwned
  BY DEF OwnershipInv
<1> QED
  BY <1>1, OwnershipHolds, PTL

(* An execution whose claim is settled generates on a session its identity *)
(* owns, for any number of requests that claim, settle, cancel and expire. *)
THEOREM OnlyOwnersEverDrive == Spec => []OnlyOwnersDrive
<1>1. OwnershipInv => OnlyOwnersDrive
  BY DEF OwnershipInv, UsersEntitled, OnlyOwnersDrive, Settled, Bound
<1> QED
  BY <1>1, OwnershipHolds, PTL

-------------------------------------------------------------------------------
(* Execution implements SessionCustody.  The settled executions are the    *)
(* users: acquiring the lock with no claim owed, or settling the claim, is *)
(* how a user enters; cleanup is how it leaves; the writes of owners are   *)
(* the grants.                                                             *)

(* How a move of one request shows in the users of sessions.               *)
LEMMA UsingStays ==
    ASSUME NEW r \in Requests, OnlyMoves(r), ~Settled(r), ~Settled(r)'
    PROVE  Using' = Using
BY DEF OnlyMoves, Using, Settled

LEMMA UsingEnds ==
    ASSUME NEW r \in Requests, OnlyMoves(r), ~Settled(r)'
    PROVE  Using' = [Using EXCEPT ![r] = None]
BY DEF OnlyMoves, Using, Settled

LEMMA UsingBegins ==
    ASSUME NEW r \in Requests, OnlyMoves(r), ~Settled(r), Settled(r)',
           sid'[r] = sid[r]
    PROVE  /\ Using[r] = None
           /\ Using' = [Using EXCEPT ![r] = sid[r]]
BY DEF OnlyMoves, Using, Settled

-------------------------------------------------------------------------------
(* Setting an owner under the guard of MayHold or RecordCreated grants.    *)
LEMMA SetOwnerGrants ==
    ASSUME StateInv, NEW s \in Sessions, NEW i \in Identities,
           owner[s] \in {None, i}, SetOwner(s, i), UNCHANGED orphaned
    PROVE  GrantsAtMost
<1> USE DEF StateInv, TypeOK, ManagerTypeOK, StoreTypeOK
<1>1. CASE owner[s] = None
  BY <1>1 DEF GrantsAtMost
<1>2. CASE owner[s] = i
  <2>1. owner' = owner
    BY <1>2 DEF SetOwner
  <2> QED
    BY <2>1 DEF GrantsAtMost
<1> QED
  BY <1>1, <1>2

(* So does a torn critical section, at most.                               *)
LEMMA TornGrants ==
    ASSUME StateInv, NEW r \in Requests, TornWrite(r)
    PROVE  GrantsAtMost
<1> USE RequestAttributes, PairTyped
    DEF StateInv, TypeOK, ManagerTypeOK, StoreTypeOK, ControlInv,
        HasSession, Driving
<1>1. CASE UNCHANGED storeVars \/ ClaimPreferredSession(IdentityOf[r], sid[r])
  BY <1>1 DEF storeVars, ClaimPreferredSession, GrantsAtMost
<1>2. CASE pc[r] = "record" /\ RecordBindingOnly(PairOf(r), create[awaiting[r]])
  BY <1>2 DEF RecordBindingOnly, GrantsAtMost
<1>3. CASE pc[r] = "record" /\ RecordCreated(PairOf(r), create[awaiting[r]])
  BY <1>3, SetOwnerGrants DEF RecordCreated
<1>4. CASE pc[r] = "finalize" /\ FinalizeOwnerOnly(IdentityOf[r], sid[r])
  BY <1>4, SetOwnerGrants DEF FinalizeOwnerOnly, MayHold
<1> QED
  BY <1>1, <1>2, <1>3, <1>4 DEF TornWrite

-------------------------------------------------------------------------------
(* The shapes of concrete steps, as steps of SessionCustody.               *)
LEMMA StillIsCustody ==
    ASSUME UNCHANGED <<owner, orphaned, pc, sid, pending>>
    PROVE  CustodyMove
<1>1. Using' = Using
  BY DEF Using, Settled
<1> QED
  BY <1>1 DEF CustodyMove, Custody!custodyVars

LEMMA GrantIsCustody ==
    ASSUME GrantsAtMost, Using' = Using
    PROVE  CustodyMove
BY DEF CustodyMove, GrantsAtMost, SetOwner, Custody!CustodyNext,
       Custody!custodyVars, Custody!Grant, Custody!LeaveUnrecorded

LEMMA LeaveIsCustody ==
    ASSUME NEW r \in Requests, UNCHANGED <<owner, orphaned>>, OnlyMoves(r),
           ~Settled(r)'
    PROVE  CustodyMove
BY UsingEnds DEF CustodyMove, Custody!CustodyNext, Custody!Leave

LEMMA EnterIsCustody ==
    ASSUME StateInv, OwnershipInv, NEW r \in Requests,
           UNCHANGED <<owner, orphaned, sid>>, OnlyMoves(r),
           pc[r] \in Bound, KindOf[r] = "send",
           Entitled(IdentityOf[r], sid[r])
    PROVE  CustodyMove
<1>1. CASE Settled(r) /\ Settled(r)'
  <2>1. Using' = Using
    BY <1>1 DEF OnlyMoves, Using, Settled
  <2> QED
    BY <2>1 DEF CustodyMove, Custody!custodyVars
<1>2. CASE ~Settled(r)'
  BY <1>2, LeaveIsCustody
<1>3. CASE ~Settled(r) /\ Settled(r)'
  <2>1. /\ Using[r] = None /\ Using' = [Using EXCEPT ![r] = sid[r]]
        /\ sid[r] \in Sessions
    BY <1>3, UsingBegins DEF StateInv, ControlInv, Bound, HasSession
  <2> QED
    BY <2>1 DEF CustodyMove, Entitled, Custody!CustodyNext, Custody!Enter
<1> QED
  BY <1>1, <1>2, <1>3

-------------------------------------------------------------------------------
(* Every step of the service is a step of the custody, or stutters.        *)
LEMMA CustodyStep == StateInv /\ OwnershipInv /\ [Next]_vars => CustodyMove
<1> SUFFICES ASSUME StateInv /\ OwnershipInv, [Next]_vars PROVE CustodyMove
  OBVIOUS
<1> USE RequestAttributes
    DEF StateInv, TypeOK, ManagerTypeOK, StoreTypeOK, ControlInv, ClaimInv,
        HasSession, Driving, Settled, OnlyMoves, At, Goto, CleanupPc, storeVars,
        flowVars
<1>1. ASSUME NEW r \in Requests,
             \/ Reject(r) \/ Start(r) \/ Claim(r) \/ Rebind(r) \/ LookupBound(r)
             \/ LookupJoin(r) \/ LookupStart(r) \/ Created(r) \/ GetSessionLock(r)
             \/ Complete(r) \/ Operate(r) \/ ShareCancellation(r) \/ Release(r)
             \/ InterruptRelease(r) \/ Unlock(r)
      PROVE  CustodyMove
  <2>1. OnlyMoves(r) /\ ~Settled(r)' /\ UNCHANGED <<owner, orphaned>>
    BY <1>1 DEF Reject, EmitError, Start, Register, Claim, Rebind, LookupBound, LookupJoin,
       LookupStart, Created, GetSessionLock, Complete, Operate, ForkSession,
       ShareCancellation, Release, InterruptRelease, Unlock,
       ClaimPreferredSession, BindSession, ReleasePreferredSessionClaim
  <2> QED
    BY <2>1, LeaveIsCustody
<1>2. ASSUME NEW r \in Requests,
             Acquire(r) \/ Send(r) \/ ContinueWithTools(r) \/ AwaitTerminal(r)
      PROVE  CustodyMove
  <2>1. /\ OnlyMoves(r) /\ UNCHANGED <<owner, orphaned, sid, pending>>
        /\ KindOf[r] = "send" /\ pc[r] \in Bound
    BY <1>2 DEF Acquire, Send, ContinueWithTools, AwaitTerminal, Bound
  <2>2. CASE pending[r]
    BY <2>1, <2>2, LeaveIsCustody
  <2>3. CASE ~pending[r]
    <3>1. Entitled(IdentityOf[r], sid[r])
      BY <2>1, <2>3 DEF OwnershipInv, UsersEntitled
    <3> QED
      BY <2>1, <3>1, EnterIsCustody
  <2> QED
    BY <2>2, <2>3
<1>3. ASSUME NEW r \in Requests, FinalBind(r) PROVE CustodyMove
  <2>1. /\ OnlyMoves(r) /\ UNCHANGED <<owner, orphaned, sid>>
        /\ KindOf[r] = "send" /\ pc[r] \in Bound
    BY <1>3 DEF FinalBind, BindSession, Bound
  <2>2. Entitled(IdentityOf[r], sid[r])
    BY <1>3 DEF FinalBind, OwnershipInv, UsersEntitled
  <2> QED
    BY <2>1, <2>2, EnterIsCustody
<1>4. ASSUME NEW r \in Requests, Record(r) \/ Finalize(r) \/ Adopt(r)
      PROVE  CustodyMove
  <2>1. OnlyMoves(r) /\ ~Settled(r) /\ ~Settled(r)'
    BY <1>4 DEF Record, Finalize, Adopt
  <2>2. GrantsAtMost
    <3>1. CASE Record(r)
      <4>1. create[awaiting[r]] \in Sessions
        BY <3>1 DEF Record
      <4> QED
        BY <3>1, <4>1, SetOwnerGrants, PairTyped DEF Record, RecordCreated
    <3>2. CASE Finalize(r)
      <4>1. sid[r] \in Sessions
        BY <3>2 DEF Finalize
      <4> QED
        BY <3>2, <4>1, SetOwnerGrants DEF Finalize, FinalizeSessionClaim, MayHold
    <3>3. CASE Adopt(r)
      <4>1. create[r] \in Sessions
        BY <3>3 DEF Adopt
      <4> QED
        BY <3>3, <4>1, SetOwnerGrants DEF Adopt, FinalizeSessionClaim, MayHold
    <3> QED
      BY <1>4, <3>1, <3>2, <3>3
  <2> QED
    BY <2>1, <2>2, UsingStays, GrantIsCustody
<1>5. ASSUME NEW r \in Requests, Fail(r) \/ Interrupt(r) PROVE CustodyMove
  <2>1. OnlyMoves(r) /\ ~Settled(r)' /\ TornWrite(r)
    BY <1>5 DEF Fail, EmitError, Interrupt
  <2>2. CASE UNCHANGED <<owner, orphaned>>
    BY <2>1, <2>2, LeaveIsCustody
  <2>3. CASE ~UNCHANGED <<owner, orphaned>>
    <3>1. pc[r] \in {"record", "finalize"}
      BY <2>1, <2>3 DEF TornWrite, ClaimPreferredSession
    <3>2. ~Settled(r)
      BY <3>1
    <3>3. Using' = Using
      BY <2>1, <3>2, UsingStays
    <3> QED
      BY <2>1, <3>3, TornGrants, GrantIsCustody
  <2> QED
    BY <2>2, <2>3
<1>6. ASSUME NEW r \in Requests,
             \/ StreamSignals(r) \/ StreamEnds(r) \/ Disconnect(r)
             \/ CreateAnswers(r)
      PROVE  CustodyMove
  BY <1>6, StillIsCustody DEF StreamSignals, StreamEnds, Disconnect, CreateAnswers
<1>7. ASSUME NEW k \in Keys,
             \/ \E i \in Identities : CancelRead(k, i)
             \/ CancelPop(k) \/ CancelKill(k) \/ CancelFails(k)
      PROVE  CustodyMove
  BY <1>7, StillIsCustody
  DEF CancelRead, CancelPop, CancelKill, CancelFails, PopCachedSession
<1>8. ASSUME NEW s \in Sessions, Expire(s) \/ CollectLock(s) PROVE CustodyMove
  BY <1>8, StillIsCustody DEF Expire, CollectLock, ExpireClaim
<1>9. ASSUME Forget PROVE CustodyMove
  <2>1. CASE \E p \in Pairs : ForgetBinding(p)
    BY <1>9, <2>1, StillIsCustody DEF Forget, ForgetBinding
  <2>2. CASE \E s \in Sessions : ForgetOwner(s)
    <3>1. Using' = Using
      BY <1>9 DEF Forget, Using
    <3> QED
      BY <2>2, <3>1 DEF CustodyMove, ForgetOwner, SetOwner,
                        Custody!CustodyNext, Custody!ForgetGrant
  <2> QED
    BY <1>9, <2>1, <2>2 DEF Forget
<1>10. CASE UNCHANGED vars
  BY <1>10, StillIsCustody DEF vars
<1> QED
  BY <1>1, <1>2, <1>3, <1>4, <1>5, <1>6, <1>7, <1>8, <1>9, <1>10, NextCases

(* The service implements SessionCustody: with all its claims, locks,      *)
(* registries and torn writes it grants, enters and leaves sessions only   *)
(* the way the abstract specification does.                                *)
THEOREM ServiceKeepsCustody == Spec => SessionsAreInCustody
<1>1. Init => Custody!CustodyInit
  BY DEF Init, ManagerInit, StoreInit, Custody!CustodyInit, Using, Settled,
         Driving
<1> QED
  BY <1>1, CustodyStep, StateHolds, OwnershipHolds, PTL
  DEF Spec, CustodyMove, SessionsAreInCustody, Custody!CustodySpec
===============================================================================
