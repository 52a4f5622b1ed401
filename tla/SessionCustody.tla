---------------------------- MODULE SessionCustody ----------------------------
(***************************************************************************)
(* What session ownership promises, without claims, bindings, locks or     *)
(* registries: a session is granted to one identity at a time and never    *)
(* handed over, and only users of the identity that has it may enter it.   *)
(* The promise has one gap, `lost': a session whose grant was not, or no   *)
(* longer is, on record may be granted anew while earlier users are in it. *)
(***************************************************************************)
CONSTANTS Identities, Sessions, Users, IdentityOf, None,
          Volatile   \* grants may be forgotten

VARIABLES owner,     \* session -> identity it is granted to
          lost,      \* sessions whose grant went unrecorded or was forgotten
          using      \* user -> session it is in

custodyVars == <<owner, lost, using>>

CustodyInit ==
    /\ owner = [s \in Sessions |-> None]
    /\ lost = {}
    /\ using = [u \in Users |-> None]

Grant(s, i) ==
    /\ owner[s] = None
    /\ owner' = [owner EXCEPT ![s] = i]
    /\ UNCHANGED <<lost, using>>

LeaveUnrecorded(s) ==
    /\ owner[s] = None
    /\ lost' = lost \cup {s}
    /\ UNCHANGED <<owner, using>>

ForgetGrant(s) ==
    /\ Volatile
    /\ owner' = [owner EXCEPT ![s] = None]
    /\ lost' = lost \cup {s}
    /\ UNCHANGED using

Enter(u, s) ==
    /\ using[u] = None
    /\ owner[s] = IdentityOf[u] \/ s \in lost
    /\ using' = [using EXCEPT ![u] = s]
    /\ UNCHANGED <<owner, lost>>

Leave(u) ==
    /\ using' = [using EXCEPT ![u] = None]
    /\ UNCHANGED <<owner, lost>>

CustodyNext ==
    \/ \E s \in Sessions : \/ \E i \in Identities : Grant(s, i)
                           \/ LeaveUnrecorded(s)
                           \/ ForgetGrant(s)
    \/ \E u \in Users : Leave(u) \/ \E s \in Sessions : Enter(u, s)

CustodySpec == CustodyInit /\ [][CustodyNext]_custodyVars
===============================================================================
