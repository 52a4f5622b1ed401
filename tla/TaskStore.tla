------------------------------- MODULE TaskStore -------------------------------
(***************************************************************************)
(* The guarded task store: coroutines of one or several server instances   *)
(* save snapshots of tasks.  With the memory store, and with a database    *)
(* whose dialect has no guarded upsert, a save reads, decides and writes   *)
(* under the lock of its instance; with SQLite and PostgreSQL the decision *)
(* is part of one INSERT ... ON CONFLICT ... WHERE statement, and a save   *)
(* that was skipped reads the row to learn why.  The stores of the SDK are *)
(* external: get and save of one row are atomic, may fail, and a failed    *)
(* write may have happened.                                                *)
(***************************************************************************)
EXTENDS TaskRegister
CONSTANTS Writers,      \* coroutines that save
          Instances     \* server instances: processes, each with its lock

ASSUME NoneIsNoWriter == None \notin Writers

VARIABLES guard,        \* "atomic": guarded upsert; "locked": read, then write
          home,         \* writer -> instance; both are fixed at deployment
          at,           \* writer -> where its save is
          target,       \* writer -> task it saves
          incoming,     \* writer -> snapshot it saves
          saveLock      \* instance -> writer that holds its save lock, or None

deployment == <<guard, home>>
callVars == <<target, incoming, guard, home>>
storeVars == <<row, at, target, incoming, saveLock, guard, home>>

(* Without a guarded upsert the lock of one instance is all there is: such *)
(* a store is not shared between instances.                                *)
Deployable ==
    /\ guard \in {"atomic", "locked"}
    /\ home \in [Writers -> Instances]
    /\ guard = "locked" => \A v, w \in Writers : home[v] = home[w]

Steps == {"idle", "lock", "read", "write", "upsert", "load", "error"}

TypeOK ==
    /\ RegisterTypeOK
    /\ Deployable
    /\ at \in [Writers -> Steps]
    /\ target \in [Writers -> Tasks]
    /\ incoming \in [Writers -> Snapshots]
    /\ saveLock \in [Instances -> Writers \cup {None}]

Init ==
    /\ RegisterInit
    /\ Deployable
    /\ at = [w \in Writers |-> "idle"]
    /\ target \in [Writers -> Tasks]
    /\ incoming \in [Writers -> Snapshots]
    /\ saveLock = [i \in Instances |-> None]

-------------------------------------------------------------------------------
Goto(w, step) == at' = [at EXCEPT ![w] = step]
Stored(w) == row[target[w]]

Put(w) == row' = [row EXCEPT ![target[w]] = incoming[w]]
Leaves(w) == saveLock' = [saveLock EXCEPT ![home[w]] = None]

(* A caller saves: once more after it saved, or after a save that failed.  *)
Save(w, t, snapshot) ==
    /\ at[w] \in {"idle", "error"}
    /\ target' = [target EXCEPT ![w] = t]
    /\ incoming' = [incoming EXCEPT ![w] = snapshot]
    /\ Goto(w, IF guard = "atomic" THEN "upsert" ELSE "lock")
    /\ UNCHANGED <<row, saveLock, deployment>>

(* mutant: the save does not wait for the lock *)
AcquireNothing(w) ==
    /\ at[w] = "lock"
    /\ Goto(w, "read")
    /\ UNCHANGED <<row, saveLock, callVars>>

AcquireSaveLock(w) ==
    /\ at[w] = "lock"
    /\ saveLock[home[w]] = None
    /\ saveLock' = [saveLock EXCEPT ![home[w]] = w]
    /\ Goto(w, "read")
    /\ UNCHANGED <<row, callVars>>

(* The row is read and the policy decides in one go; the write is another  *)
(* round trip.                                                             *)
ReadAndDecide(w) ==
    /\ at[w] = "read"
    /\ \/ /\ Persist(Stored(w), incoming[w])
          /\ Goto(w, "write")
          /\ UNCHANGED saveLock
       \/ /\ ~Persist(Stored(w), incoming[w])
          /\ Goto(w, "idle")
          /\ Leaves(w)
    /\ UNCHANGED <<row, callVars>>

Write(w) ==
    /\ at[w] = "write"
    /\ Put(w)
    /\ Goto(w, "idle")
    /\ Leaves(w)
    /\ UNCHANGED callVars

(* mutant: the guard of the statement leaves out the rejected state *)
MayOverwriteRejected(existing) ==
    existing # None => existing.state \notin {"completed", "canceled", "failed"}

(* The condition of the upsert: no row, or a row that is not terminal.     *)
MayOverwrite(existing) ==
    existing # None => existing.state \notin TerminalStates

Upsert(w) ==
    /\ at[w] = "upsert"
    /\ \/ /\ MayOverwrite(Stored(w))
          /\ Put(w)
          /\ Goto(w, "idle")
       \/ /\ ~MayOverwrite(Stored(w))
          /\ Goto(w, "load")
          /\ UNCHANGED row
    /\ UNCHANGED <<saveLock, callVars>>

(* A skipped save is refused by the policy, or repeats the terminal        *)
(* snapshot; anything else is the RuntimeError of the code.                *)
LoadAndExplain(w) ==
    /\ at[w] = "load"
    /\ Goto(w, IF IsTerminal(Stored(w)) THEN "idle" ELSE "error")
    /\ UNCHANGED <<row, saveLock, callVars>>

(* The backend fails, or the coroutine is cancelled, in a round trip: the  *)
(* lock is left, the caller gets the error, and what was written last may  *)
(* have reached the row or not.                                            *)
Fails(w) ==
    /\ at[w] \in {"read", "write", "upsert", "load"}
    /\ \/ UNCHANGED row
       \/ at[w] = "write" /\ Put(w)
       \/ at[w] = "upsert" /\ MayOverwrite(Stored(w)) /\ Put(w)
    /\ Goto(w, "error")
    /\ IF at[w] \in {"read", "write"} THEN Leaves(w) ELSE UNCHANGED saveLock
    /\ UNCHANGED callVars

GivesUp(w) ==
    /\ at[w] = "lock"
    /\ Goto(w, "error")
    /\ UNCHANGED <<row, saveLock, callVars>>

(* An instance goes down and comes up again: its coroutines and its lock   *)
(* are gone, the rows of the database stay (a write the crash overtook is  *)
(* a Fails before it).  A memory store starts anew instead.                *)
Restart(i) ==
    /\ at' = [w \in Writers |-> IF home[w] = i THEN "error" ELSE at[w]]
    /\ saveLock' = [saveLock EXCEPT ![i] = None]
    /\ UNCHANGED <<row, callVars>>

Next ==
    \/ \E w \in Writers :
          \/ \E t \in Tasks, snapshot \in Snapshots : Save(w, t, snapshot)
          \/ AcquireSaveLock(w) \/ ReadAndDecide(w) \/ Write(w)
          \/ Upsert(w) \/ LoadAndExplain(w) \/ Fails(w) \/ GivesUp(w)
    \/ \E i \in Instances : Restart(i)

Spec == Init /\ [][Next]_storeVars

-------------------------------------------------------------------------------
(* A save that was decided is still right when it is written: nobody made  *)
(* the task terminal between the read and the write.                       *)
DecisionsHold ==
    \A w \in Writers : at[w] = "write" => Persist(Stored(w), incoming[w])

(* The statement is skipped for a terminal row only, and the row is still  *)
(* terminal when the save reads it back: the RuntimeError "skipped without *)
(* an authoritative terminal task" is never raised.                        *)
SkippedForTerminal ==
    \A w \in Writers : at[w] = "load" => IsTerminal(Stored(w))

(* Who works with which guard, and who holds the lock.                     *)
LockInv ==
    \A w \in Writers :
       /\ at[w] = "lock" => guard = "locked"
       /\ at[w] \in {"read", "write"} =>
             guard = "locked" /\ saveLock[home[w]] = w
       /\ at[w] \in {"upsert", "load"} => guard = "atomic"

(* Types, locks, decisions: the inductive invariant of the store.          *)
StoreInv == TypeOK /\ LockInv /\ DecisionsHold /\ SkippedForTerminal

(* A save that returns without an error leaves its own snapshot on record, *)
(* or a terminal one that came first; and only a backend failure, a        *)
(* cancellation or a restart makes it fail.                                *)
SavesSettle ==
    [][\A w \in Writers :
          at[w] \in {"read", "write", "upsert", "load"} /\ at'[w] = "idle"
          => row'[target[w]] = incoming[w] \/ IsTerminal(row'[target[w]])]_storeVars

(* The store, with its locks, statements and failures, implements the      *)
(* register (INSTANCE without renaming: row is the register).              *)
ImplementsRegister == RegisterSpec
===============================================================================
