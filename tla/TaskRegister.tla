----------------------------- MODULE TaskRegister -----------------------------
(***************************************************************************)
(* What the task store promises to everybody who writes tasks, without     *)
(* locks, statements, backends or failures: each task is a register that   *)
(* takes every write until it holds a terminal state, and none after.      *)
(***************************************************************************)
EXTENDS FiniteSets
CONSTANTS Tasks,
          Bodies,    \* what else than its state a task says: artifacts, history
          States,    \* the task states in use
          None

VARIABLE row         \* task -> snapshot on record, or None

TerminalStates == {"completed", "canceled", "failed", "rejected"}
Snapshots == [state : States, body : Bodies]

ASSUME NoneIsNoSnapshot == None \notin Snapshots

IsTerminal(snapshot) == snapshot # None /\ snapshot.state \in TerminalStates

(* mutant: a snapshot that repeats the state on record is dropped *)
PersistChanges(existing, incoming) ==
    existing # None => ~IsTerminal(existing) /\ incoming.state # existing.state

(* The first terminal state wins: after it only the very same snapshot is  *)
(* taken, which changes nothing.                                           *)
Persist(existing, incoming) == IsTerminal(existing) => incoming = existing
Accept(existing, incoming) ==
    IF Persist(existing, incoming) THEN incoming ELSE existing

RegisterTypeOK == row \in [Tasks -> Snapshots \cup {None}]

RegisterInit == row = [t \in Tasks |-> None]

RegisterWrite(t, snapshot) ==
    row' = [row EXCEPT ![t] = Accept(row[t], snapshot)]

RegisterNext ==
    \E t \in Tasks, snapshot \in Snapshots : RegisterWrite(t, snapshot)

RegisterSpec == RegisterInit /\ [][RegisterNext]_row

(* A task that is on record as completed, canceled, failed or rejected     *)
(* stays exactly as it is.                                                 *)
TerminalStands ==
    [][\A t \in Tasks : IsTerminal(row[t]) => row'[t] = row[t]]_row
===============================================================================
