-------------------------- MODULE ExecutionInvariants --------------------------
(***************************************************************************)
(* The inductive invariants behind the safety properties of Execution.     *)
(* Each says what holds between the awaits of every request; together with *)
(* the type invariant they are preserved by every step.                    *)
(***************************************************************************)
EXTENDS Execution

(* Where a request with a session, and an execution, can be.               *)
HasSession == {"claim", "rebind", "getlock", "queued", "op", "adopt", "release"}
              \cup Driving
Bound      == {"rebind", "getlock", "queued"} \cup Driving
AfterLock  == Driving \cup {"release", "unlock", "done"}

(* Control: the program counter fits the kind of the request, and what the *)
(* next step reads is there.                                               *)
ControlInv ==
    \A r \in Requests :
        /\ KindOf[r] = "send" => pc[r] \notin {"op", "adopt"}
        /\ KindOf[r] # "send" => pc[r] \in {"idle", "claim", "op", "finalize",
                                            "adopt", "release", "done"}
        /\ pc[r] \in HasSession => sid[r] \in Sessions
        /\ pc[r] \in {"creating", "record"} => awaiting[r] \in Requests
        /\ pc[r] = "record" => create[awaiting[r]] \in Sessions
        /\ pc[r] = "adopt" => create[r] \in Sessions
        /\ KindOf[r] = "fork" /\ pc[r] = "finalize" => create[r] \in Sessions
        /\ pc[r] \in {"idle", "claim", "lookup", "op"} => create[r] = "none"
        /\ awaiting[r] # None => create[awaiting[r]] # "none"
        /\ pending[r] => sid[r] \in Sessions
        /\ r \in lockRef => /\ KindOf[r] = "send" /\ sid[r] \in Sessions
                            /\ pc[r] \in {"queued"} \cup AfterLock

CreateInv ==
    \A p \in Pairs : inflight[p] # None => create[inflight[p]] # "none"

CancelInv ==
    \A k \in Keys :
        cancel[k].phase \in {"read", "popped"} => cancel[k].pair \in Pairs

(* Claims: which steps owe the settling of a claim, and which do not.      *)
ClaimInv ==
    \A r \in Requests :
        /\ pc[r] \in {"idle", "lookup", "creating", "record", "rebind"}
           => ~pending[r]
        /\ KindOf[r] = "send" /\ pc[r] \in {"finalize", "finalbind"}
           => pending[r]

(* Ownership: whoever is bound to a session without owing a claim, or is   *)
(* about to be, is entitled to it.                                         *)
UsersEntitled ==
    \A r \in Requests :
        /\ KindOf[r] = "send" /\ pc[r] \in Bound /\ ~pending[r]
           => Entitled(IdentityOf[r], sid[r])
        /\ pc[r] = "finalbind" => Entitled(IdentityOf[r], sid[r])

OwnershipInv == BindingsAreOwned /\ UsersEntitled

(* What a step may do to the owners: set one that is absent, keep one, or  *)
(* (memory repository) forget one and remember that it did.                *)
OwnerSteps ==
    /\ orphaned \subseteq orphaned'
    /\ \A s \in Sessions :
          \/ owner'[s] = owner[s]
          \/ owner[s] = None
          \/ Backend = "memory" /\ owner'[s] = None /\ s \in orphaned'

(* Locks: an execution drives only while it holds the lock, and a session  *)
(* that was never robbed has one holder and a locked lock.                 *)
LockInv ==
    /\ \A r \in Requests : pc[r] = "queued" => r \in lockRef
    /\ \A r \in held : r \in lockRef /\ pc[r] \in AfterLock
    /\ \A r \in Executions : pc[r] \in Driving => r \in held
    /\ \A r \in held : locked[sid[r]] \/ sid[r] \in robbed
    /\ \A q, r \in held : q # r /\ sid[q] = sid[r] => sid[r] \in robbed

(* Holders (memory repository): a holder is alive, and a locked lock has   *)
(* one.                                                                    *)
HolderInv ==
    Backend = "memory" =>
        /\ \A r \in held : pc[r] # "done"
        /\ \A s \in Sessions : locked[s] => \E r \in held : sid[r] = s

(* What an execution has registered (memory repository): its key and its   *)
(* stream task are there from admission, or the lock, to its cleanup.      *)
RegistryInv ==
    Backend = "memory" =>
        /\ \A r \in consuming : pc[r] \in AfterLock \ {"done"}
        /\ \A k \in Keys :
              /\ running[k] # None => /\ KindOf[running[k]] = "send"
                                     /\ KeyOf[running[k]] = k
                                     /\ Live(running[k])
              /\ boundTo[k] # None => /\ KindOf[boundTo[k]] = "send"
                                     /\ KeyOf[boundTo[k]] = k
                                     /\ pc[boundTo[k]] \in AfterLock \ {"done"}

(* Who made the claim on a session: a request that still has to settle it. *)
(* Once it has set the owner (finalbind) a new claim is another request's. *)
Claimant(r, s) ==
    /\ pending[r] /\ sid[r] = s /\ IdentityOf[r] = claim[s]
    /\ pc[r] \notin {"idle", "finalbind", "done"}

ClaimantInv ==
    /\ \A r \in Requests : pc[r] \in {"claim", "adopt", "unlock"} => ~pending[r]
    /\ Backend = "memory" =>
          \A s \in Sessions :
              claim[s] # None => \E r \in Requests : Claimant(r, s)

(* A step that grants a session, or leaves a grant unrecorded, at most.    *)
GrantsAtMost ==
    \/ UNCHANGED <<owner, orphaned>>
    \/ \E s \in Sessions :
          /\ owner[s] = None
          /\ \/ \E i \in Identities : SetOwner(s, i) /\ UNCHANGED orphaned
             \/ orphaned' = orphaned \cup {s} /\ UNCHANGED owner

(* A step that moves no request but r.                                     *)
OnlyMoves(r) ==
    \A q \in Requests \ {r} :
        pc'[q] = pc[q] /\ sid'[q] = sid[q] /\ pending'[q] = pending[q]

(* A step of the custody, or none.                                         *)
CustodyMove == [Custody!CustodyNext]_(Custody!custodyVars)

StateInv == TypeOK /\ ControlInv /\ CreateInv /\ CancelInv /\ ClaimInv
===============================================================================
