--------------------------- MODULE InterruptStore ---------------------------
(***************************************************************************)
(* The registry of the questions and permission requests that the upstream *)
(* service is waiting on: server/state_store.py, the memory and the        *)
(* database InterruptRequestRepository.  A binding is active until it      *)
(* expires; what then remains of it is a tombstone, for a while, so that a *)
(* late reply hears "expired" and not "missing".  Nothing is scheduled:    *)
(* both are pruned by the operations themselves, and the two backends do   *)
(* not prune on the same occasions.                                        *)
(*                                                                         *)
(* Every operation reads the clock once and takes effect at that instant.  *)
(***************************************************************************)
EXTENDS Integers

CONSTANTS
    Ids,            \* request ids the upstream hands out
    Identities,     \* authenticated users
    None,           \* absence: of a binding, a tombstone, an identity
    Backend,        \* "memory" or "database"
    RequestTTL,     \* a2a_interrupt_request_ttl_seconds
    TombstoneTTL    \* a2a_interrupt_request_tombstone_ttl_seconds

ASSUME NoneIsOutside ==
    /\ None \notin Ids \cup Identities \cup Int
    /\ None \notin [interrupt_type : {"permission", "question"},
                    identity       : Identities \cup {None},
                    expires_at     : Int]
ASSUME BackendAssumption == Backend \in {"memory", "database"}
ASSUME TTLAssumption == RequestTTL \in Nat /\ TombstoneTTL \in Nat

VARIABLES
    now,            \* the repository's clock
    requests,       \* bindings: _interrupt_requests, or rows with expires_at
    tombstones,     \* expiry of the tombstone, or None
    due             \* history: the expiry the last remember promised and no
                    \* discard took back
storeVars == <<requests, tombstones, due>>

Types == {"permission", "question"}
Bindings == [interrupt_type : Types,
             identity       : Identities \cup {None},
             expires_at     : Nat]

StoreTypeOK ==
    /\ now \in Nat
    /\ requests \in [Ids -> Bindings \cup {None}]
    /\ tombstones \in [Ids -> Nat \cup {None}]
    /\ due \in [Ids -> Nat \cup {None}]

StoreInit ==
    /\ now = 0
    /\ requests = [i \in Ids |-> None]
    /\ tombstones = [i \in Ids |-> None]
    /\ due = [i \in Ids |-> None]

-----------------------------------------------------------------------------
(* Pruning *)

Overdue == {i \in Ids : requests[i] # None /\ requests[i].expires_at <= now}

(* A tombstone is kept for TombstoneTTL; a TTL of zero keeps none. *)
NewTombstone == IF TombstoneTTL > 0 THEN now + TombstoneTTL ELSE None

(* Drop the tombstones whose time is over. *)
PrunedTombstones ==
    [i \in Ids |-> IF tombstones[i] # None /\ tombstones[i] <= now
                     THEN None ELSE tombstones[i]]

(* The registry once the bindings in S have become tombstones and the old  *)
(* tombstones are pruned.                                                  *)
RequestsWithout(S) == [i \in Ids |-> IF i \in S THEN None ELSE requests[i]]
TombstonesWithout(S) ==           \* mutant: buried without a tombstone
    [i \in Ids |-> IF i \in S THEN None ELSE PrunedTombstones[i]]
TombstonesWith(S) ==
    [i \in Ids |-> IF i \in S THEN NewTombstone ELSE PrunedTombstones[i]]

Bury(S) ==
    /\ requests' = RequestsWithout(S)
    /\ tombstones' = TombstonesWith(S)

(* The overdue bindings an operation buries while it is at it: the memory  *)
(* repository sweeps them all, the database one leaves them in their rows. *)
Swept == IF Backend = "memory" THEN Overdue ELSE {}

-----------------------------------------------------------------------------
(* Operations *)

Remember(id, type, identity) ==
    LET expiry == now + RequestTTL
        binding == [interrupt_type |-> type, identity |-> identity,
                    expires_at |-> expiry]
    IN  /\ requests' = [RequestsWithout(Swept) EXCEPT ![id] = binding]
        /\ tombstones' = [TombstonesWith(Swept) EXCEPT ![id] = None]
        /\ due' = [due EXCEPT ![id] = expiry]

(* What resolve answers for an id. *)
Answer(id) ==
    IF requests[id] # None
      THEN IF id \in Overdue THEN "expired" ELSE "active"
      ELSE IF PrunedTombstones[id] # None THEN "expired" ELSE "missing"

(* What resolve does to the registry on the way: an id without a binding   *)
(* costs no sweep; an overdue one is buried by either backend.             *)
Resolve(id) ==
    /\ Bury(IF requests[id] = None THEN {}
                                   ELSE Swept \cup (Overdue \cap {id}))
    /\ UNCHANGED due

Discard(id) ==
    /\ requests' = [requests EXCEPT ![id] = None]
    /\ tombstones' = [tombstones EXCEPT ![id] = None]
    /\ due' = [due EXCEPT ![id] = None]

ListPending ==
    /\ Bury(Swept)
    /\ UNCHANGED due

(* A restart of the process empties the memory repository. *)
ReloadEmpty ==                    \* mutant: the rows do not survive either
    /\ requests' = [i \in Ids |-> None]
    /\ tombstones' = [i \in Ids |-> None]
    /\ due' = [i \in Ids |-> None]
Reload ==
    IF Backend = "database"
      THEN UNCHANGED storeVars
      ELSE /\ requests' = [i \in Ids |-> None]
           /\ tombstones' = [i \in Ids |-> None]
           /\ due' = [i \in Ids |-> None]

-----------------------------------------------------------------------------
(***************************************************************************)
(* A binding that was remembered and not discarded answers "active" up to  *)
(* its expiry and "expired" for at least the tombstone window after it,    *)
(* whichever operations on whichever ids pruned the registry in between    *)
(* (docs/guide.md:1169).                                                   *)
(***************************************************************************)
TombstoneWindow ==
    \A i \in Ids : due[i] # None =>
        /\ now < due[i] => Answer(i) = "active"
        /\ due[i] <= now /\ now < due[i] + TombstoneTTL => Answer(i) = "expired"

(* The inductive form of TombstoneWindow: the row of an id is the binding  *)
(* as promised, or nothing but a tombstone that outlives the window.       *)
RowKept(i) ==
    \/ due[i] = None /\ requests[i] = None /\ tombstones[i] = None
    \/ /\ due[i] # None /\ requests[i] # None /\ tombstones[i] = None
       /\ requests[i].expires_at = due[i]
    \/ /\ due[i] # None /\ due[i] <= now
       /\ requests[i] = None
       /\ IF tombstones[i] = None
            THEN due[i] + TombstoneTTL <= now
            ELSE due[i] + TombstoneTTL <= tombstones[i]

RowKeepsPromise == \A i \in Ids : RowKept(i)
=============================================================================
