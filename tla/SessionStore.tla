----------------------------- MODULE SessionStore -----------------------------
(***************************************************************************)
(* The session state repository (server/state_store.py): which upstream    *)
(* session a conversation is bound to, which identity owns a session, and  *)
(* who holds the short pending claim on a session that has no owner yet.   *)
(* Two implementations stand behind one interface.  The memory repository  *)
(* keeps bindings and owners in caches that evict by age and by size; the  *)
(* database repository never loses a row but each call may fail or be      *)
(* cancelled at its await.  Claims expire in both.                         *)
(*                                                                         *)
(* The operations below are read and update fragments: the session manager *)
(* and the executor combine them into actions.  `orphaned' is a ghost: the *)
(* sessions whose owner row was lost (evicted, or never written because    *)
(* the write before it was the last one to succeed).                       *)
(***************************************************************************)
EXTENDS Naturals, FiniteSets

CONSTANTS Identities,   \* authenticated callers
          Contexts,     \* binding contexts: a context id, plain or scoped
          Sessions,     \* upstream session ids
          None,         \* absence of a row, a task or an answer
          Backend       \* "memory" or "database"

ASSUME BackendAssumption == Backend \in {"memory", "database"}
ASSUME NoneAssumption == None \notin Identities \cup Contexts \cup Sessions

VARIABLES binding,   \* conversation (identity, context) -> session
          owner,     \* session -> identity
          claim,     \* session -> identity with an unexpired pending claim
          orphaned   \* ghost: sessions whose owner row was lost

storeVars == <<binding, owner, claim, orphaned>>

Pairs == Identities \X Contexts

StoreTypeOK ==
    /\ binding \in [Pairs -> Sessions \cup {None}]
    /\ owner \in [Sessions -> Identities \cup {None}]
    /\ claim \in [Sessions -> Identities \cup {None}]
    /\ orphaned \subseteq Sessions

StoreInit ==
    /\ binding = [p \in Pairs |-> None]
    /\ owner = [s \in Sessions |-> None]
    /\ claim = [s \in Sessions |-> None]
    /\ orphaned = {}

-------------------------------------------------------------------------------
SetSession(p, s) == binding' = [binding EXCEPT ![p] = s]
PopSession(p)    == binding' = [binding EXCEPT ![p] = None]
SetOwner(s, i)   == owner' = [owner EXCEPT ![s] = i]
SetPendingClaim(s, i) == claim' = [claim EXCEPT ![s] = i]

(* The delete is keyed by session and identity: another caller's claim     *)
(* stays, an earlier or a later claim of the same identity goes.           *)
ClearPendingClaim(s, i) ==
    claim' = [claim EXCEPT ![s] = IF @ = i THEN None ELSE @]

-------------------------------------------------------------------------------
(* A claim's lease runs out (a lease of no length runs out at once).       *)
ExpireClaim(s) ==
    /\ claim[s] # None
    /\ claim' = [claim EXCEPT ![s] = None]
    /\ UNCHANGED <<binding, owner, orphaned>>

(* The memory repository's caches drop an entry by age or by size.         *)
ForgetBinding(p) ==
    /\ Backend = "memory"
    /\ binding[p] # None
    /\ PopSession(p)
    /\ UNCHANGED <<owner, claim, orphaned>>

ForgetOwner(s) ==
    /\ Backend = "memory"
    /\ owner[s] # None
    /\ SetOwner(s, None)
    /\ orphaned' = orphaned \cup {s}
    /\ UNCHANGED <<binding, claim>>
===============================================================================
