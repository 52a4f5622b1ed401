---------------------------- MODULE SessionManager ----------------------------
(***************************************************************************)
(* The session manager (execution/session_manager.py): every operation     *)
(* that reads or writes the session state repository, each one a critical  *)
(* section under the manager's own lock, and the map of the upstream       *)
(* create_session tasks in flight, which lets concurrent first messages of *)
(* one conversation share one upstream session.                            *)
(*                                                                         *)
(* A create task is named by the request that started it.  The operations  *)
(* leave the caller's control state alone; the Execution module gives them *)
(* a caller.                                                               *)
(***************************************************************************)
EXTENDS SessionStore

CONSTANT Requests       \* requests the service is handling
ASSUME RequestsAssumption ==
    /\ None \notin Requests
    /\ Requests \cap Sessions = {}

VARIABLES inflight,  \* conversation -> request whose create task is in flight
          create,    \* request -> state of the create task it started
          minted     \* sessions the upstream knows

managerVars == <<inflight, create, minted>>

CreateStates == {"none", "running", "failed", "cancelled"}
ASSUME CreateStatesAssumption == CreateStates \cap Sessions = {}

ManagerTypeOK ==
    /\ StoreTypeOK
    /\ inflight \in [Pairs -> Requests \cup {None}]
    /\ create \in [Requests -> CreateStates \cup Sessions]
    /\ minted \subseteq Sessions

ManagerInit(existing) ==
    /\ StoreInit
    /\ inflight = [p \in Pairs |-> None]
    /\ create = [r \in Requests |-> "none"]
    /\ minted = existing

-------------------------------------------------------------------------------
(* The guard of claim and finalize: neither owned nor claimed by another.  *)
UnclaimedByOthers(i, s) == claim[s] \in {None, i}   \* mutant: owner unasked
MayHold(i, s) == owner[s] \in {None, i} /\ claim[s] \in {None, i}

(* claim_preferred_session returns whether the caller now holds a pending  *)
(* claim: a session is claimed unless the caller owns it already.          *)
ClaimIsPending(i, s) == owner[s] # i

ClaimPreferredSession(i, s) ==
    /\ MayHold(i, s)
    /\ IF ClaimIsPending(i, s) THEN SetPendingClaim(s, i) ELSE UNCHANGED claim
    /\ UNCHANGED <<binding, owner, orphaned>>

FinalizeTrustingClaim(i, s) ==    \* mutant: relies on the claim made before
    /\ SetOwner(s, i)
    /\ ClearPendingClaim(s, i)
    /\ UNCHANGED <<binding, orphaned>>
FinalizeKeepingClaim(i, s) ==     \* mutant: leaves the claim to its lease
    /\ MayHold(i, s)
    /\ SetOwner(s, i)
    /\ UNCHANGED <<binding, claim, orphaned>>
FinalizeSessionClaim(i, s) ==
    /\ MayHold(i, s)
    /\ SetOwner(s, i)
    /\ ClearPendingClaim(s, i)
    /\ UNCHANGED <<binding, orphaned>>

(* The database fails or the caller is cancelled between the two writes.   *)
FinalizeOwnerOnly(i, s) ==
    /\ Backend = "database"
    /\ MayHold(i, s)
    /\ SetOwner(s, i)
    /\ UNCHANGED <<binding, claim, orphaned>>

ReleasePreferredSessionClaim(i, s) ==
    /\ ClearPendingClaim(s, i)
    /\ UNCHANGED <<binding, owner, orphaned>>

BindSession(p, s) ==
    /\ SetSession(p, s)
    /\ UNCHANGED <<owner, claim, orphaned>>

-------------------------------------------------------------------------------
(* The first request of an unbound conversation starts the create task.    *)
StartCreate(r, p) ==
    /\ inflight[p] = None
    /\ inflight' = [inflight EXCEPT ![p] = r]
    /\ create' = [create EXCEPT ![r] = "running"]

(* A waiter takes the task out of the map only if the map still holds it.  *)
DropWhatIsThere(p, t) == inflight' = [inflight EXCEPT ![p] = None]   \* mutant
DropInflight(p, t) ==
    inflight' = [inflight EXCEPT ![p] = IF @ = t THEN None ELSE @]

(* The binding and, if there is none, the owner of a fresh session.        *)
RecordUnowned(p, s) ==            \* mutant: the owner is left to a later claim
    /\ owner[s] \in {None, p[1]}
    /\ SetSession(p, s)
    /\ UNCHANGED <<owner, claim, orphaned>>
RecordCreated(p, s) ==
    /\ owner[s] \in {None, p[1]}
    /\ SetSession(p, s)
    /\ SetOwner(s, p[1])
    /\ UNCHANGED <<claim, orphaned>>

(* Only the first of the two writes takes effect.                          *)
RecordBindingOnly(p, s) ==
    /\ Backend = "database"
    /\ owner[s] \in {None, p[1]}
    /\ SetSession(p, s)
    /\ orphaned' = IF owner[s] = None THEN orphaned \cup {s} ELSE orphaned
    /\ UNCHANGED <<owner, claim>>

(* tasks/cancel takes the conversation's binding and its create task.      *)
PopCachedSession(p) ==
    /\ PopSession(p)
    /\ inflight' = [inflight EXCEPT ![p] = None]
    /\ UNCHANGED <<owner, claim, orphaned>>

-------------------------------------------------------------------------------
(* The upstream answers a create_session call, or the call fails.          *)
CreateSucceeds(r) ==
    /\ create[r] = "running"
    /\ \E s \in Sessions \ minted :
          /\ create' = [create EXCEPT ![r] = s]
          /\ minted' = minted \cup {s}
    /\ UNCHANGED inflight

CreateFails(r) ==
    /\ create[r] = "running"
    /\ create' = [create EXCEPT ![r] = "failed"]
    /\ UNCHANGED <<inflight, minted>>
===============================================================================
