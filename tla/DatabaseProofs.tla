---------------------------- MODULE DatabaseProofs ----------------------------
(***************************************************************************)
(* Proofs about what the service keeps in its database, one part each:     *)
(*  - TaskStore, for any tasks, writers and instances: under a lock or by  *)
(*    guarded upserts the store is a register whose first terminal state   *)
(*    wins;                                                                *)
(*  - Migrations, for any number of processes and faults: the recorded     *)
(*    version never promises more than the schema holds;                   *)
(*  - TaskListing, for any tasks, filters and page sizes: a task nobody    *)
(*    saves while a client turns the pages is listed once.                 *)
(***************************************************************************)
EXTENDS TaskStore, Migrations, TaskListing,
        FiniteSetTheorems, WellFoundedInduction, TLAPS

(***************************************************************************)
(*                            The task store                               *)
(***************************************************************************)
LEMMA StoreInit == Init => StoreInv
BY DEF Init, StoreInv, TypeOK, LockInv, DecisionsHold, SkippedForTerminal,
       RegisterInit, RegisterTypeOK, Deployable, Steps

-------------------------------------------------------------------------------
(* Types and locks.                                                        *)
LEMMA TypeStep == TypeOK /\ [Next]_storeVars => TypeOK'
<1> SUFFICES ASSUME TypeOK, [Next]_storeVars PROVE TypeOK'
  OBVIOUS
<1> USE DEF TypeOK, RegisterTypeOK, Deployable, Steps, Goto, Put, Leaves,
            Stored, callVars, deployment
<1>1. ASSUME NEW w \in Writers, NEW t \in Tasks, NEW s \in Snapshots,
             Save(w, t, s)
      PROVE  TypeOK'
  BY <1>1 DEF Save
<1>2. ASSUME NEW w \in Writers, AcquireSaveLock(w) PROVE TypeOK'
  BY <1>2 DEF AcquireSaveLock
<1>3. ASSUME NEW w \in Writers, ReadAndDecide(w) PROVE TypeOK'
  BY <1>3 DEF ReadAndDecide
<1>4. ASSUME NEW w \in Writers, Write(w) PROVE TypeOK'
  BY <1>4 DEF Write
<1>5. ASSUME NEW w \in Writers, Upsert(w) PROVE TypeOK'
  BY <1>5 DEF Upsert
<1>6. ASSUME NEW w \in Writers, LoadAndExplain(w) PROVE TypeOK'
  BY <1>6 DEF LoadAndExplain
<1>7. ASSUME NEW w \in Writers, Fails(w) PROVE TypeOK'
  BY <1>7 DEF Fails
<1>8. ASSUME NEW w \in Writers, GivesUp(w) PROVE TypeOK'
  BY <1>8 DEF GivesUp
<1>9. ASSUME NEW i \in Instances, Restart(i) PROVE TypeOK'
  BY <1>9 DEF Restart
<1>10. CASE UNCHANGED storeVars
  BY <1>10 DEF storeVars
<1> QED
  BY <1>1, <1>2, <1>3, <1>4, <1>5, <1>6, <1>7, <1>8, <1>9, <1>10 DEF Next

LEMMA LockStep == TypeOK /\ LockInv /\ [Next]_storeVars => LockInv'
<1> SUFFICES ASSUME TypeOK, LockInv, [Next]_storeVars PROVE LockInv'
  OBVIOUS
<1> USE NoneIsNoWriter
    DEF TypeOK, LockInv, Deployable, Steps, Goto, Leaves, callVars, deployment
<1>1. ASSUME NEW w \in Writers, NEW t \in Tasks, NEW s \in Snapshots,
             Save(w, t, s)
      PROVE  LockInv'
  BY <1>1 DEF Save
<1>2. ASSUME NEW w \in Writers, AcquireSaveLock(w) PROVE LockInv'
  BY <1>2 DEF AcquireSaveLock
<1>3. ASSUME NEW w \in Writers, ReadAndDecide(w) PROVE LockInv'
  BY <1>3 DEF ReadAndDecide
<1>4. ASSUME NEW w \in Writers, Write(w) PROVE LockInv'
  BY <1>4 DEF Write
<1>5. ASSUME NEW w \in Writers, Upsert(w) PROVE LockInv'
  BY <1>5 DEF Upsert
<1>6. ASSUME NEW w \in Writers, LoadAndExplain(w) PROVE LockInv'
  BY <1>6 DEF LoadAndExplain
<1>7. ASSUME NEW w \in Writers, Fails(w) PROVE LockInv'
  BY <1>7 DEF Fails
<1>8. ASSUME NEW w \in Writers, GivesUp(w) PROVE LockInv'
  BY <1>8 DEF GivesUp
<1>9. ASSUME NEW i \in Instances, Restart(i) PROVE LockInv'
  BY <1>9 DEF Restart
<1>10. CASE UNCHANGED storeVars
  BY <1>10 DEF storeVars
<1> QED
  BY <1>1, <1>2, <1>3, <1>4, <1>5, <1>6, <1>7, <1>8, <1>9, <1>10 DEF Next

-------------------------------------------------------------------------------
(* What a step does to the rows: nothing, or it puts the snapshot of one   *)
(* writer where the policy lets it.                                        *)
LEMMA RowStep ==
    ASSUME StoreInv, [Next]_storeVars
    PROVE  \/ UNCHANGED row
           \/ \E w \in Writers :
                /\ at[w] \in {"write", "upsert"} /\ at'[w] \in {"idle", "error"}
                /\ Persist(Stored(w), incoming[w])
                /\ row' = [row EXCEPT ![target[w]] = incoming[w]]
<1> USE DEF StoreInv, TypeOK, Deployable, Put, Goto, Stored
<1>1. ASSUME NEW w \in Writers, Write(w)
      PROVE  Persist(Stored(w), incoming[w])
  BY <1>1 DEF Write, DecisionsHold
<1>2. ASSUME NEW w \in Writers, MayOverwrite(Stored(w))
      PROVE  Persist(Stored(w), incoming[w])
  BY <1>2 DEF MayOverwrite, Persist, IsTerminal
<1>3. ASSUME NEW w \in Writers, Fails(w), row' # row
      PROVE  /\ at[w] \in {"write", "upsert"} /\ at'[w] = "error"
             /\ Persist(Stored(w), incoming[w])
             /\ row' = [row EXCEPT ![target[w]] = incoming[w]]
  BY <1>2, <1>3 DEF Fails, DecisionsHold
<1>4. ASSUME NEW w \in Writers, Upsert(w), row' # row
      PROVE  /\ at[w] = "upsert" /\ at'[w] = "idle"
             /\ Persist(Stored(w), incoming[w])
             /\ row' = [row EXCEPT ![target[w]] = incoming[w]]
  BY <1>2, <1>4 DEF Upsert
<1>5. ASSUME NEW w \in Writers, Write(w)
      PROVE  /\ at[w] = "write" /\ at'[w] = "idle"
             /\ row' = [row EXCEPT ![target[w]] = incoming[w]]
  BY <1>5 DEF Write
<1> SUFFICES ASSUME row' # row
             PROVE  \E w \in Writers : Write(w) \/ Fails(w) \/ Upsert(w)
  BY <1>1, <1>3, <1>4, <1>5
<1> QED
  BY DEF Next, Save, AcquireSaveLock, ReadAndDecide, LoadAndExplain, GivesUp,
         Restart, storeVars

(* A terminal row is not changed by any step.                              *)
LEMMA TerminalStep ==
    ASSUME StoreInv, [Next]_storeVars, NEW t \in Tasks, IsTerminal(row[t])
    PROVE  row'[t] = row[t]
<1>1. CASE UNCHANGED row
  BY <1>1
<1>2. ASSUME NEW w \in Writers, Persist(Stored(w), incoming[w]),
             row' = [row EXCEPT ![target[w]] = incoming[w]]
      PROVE  row'[t] = row[t]
  BY <1>2 DEF StoreInv, TypeOK, RegisterTypeOK, Persist, Stored
<1> QED
  BY <1>1, <1>2, RowStep

(* Only the holder of the lock writes a row while a decision is pending.   *)
LEMMA DecisionStep ==
    StoreInv /\ [Next]_storeVars => DecisionsHold'
<1> SUFFICES ASSUME StoreInv, [Next]_storeVars,
                    NEW w \in Writers, (at[w] = "write")'
             PROVE  Persist(Stored(w), incoming[w])'
  BY DEF DecisionsHold
<1> USE DEF StoreInv, TypeOK, Deployable
<1>1. CASE at[w] = "write"
  <2>1. /\ target'[w] = target[w] /\ incoming'[w] = incoming[w]
        /\ guard = "locked" /\ saveLock[home[w]] = w
    BY <1>1 DEF LockInv, Next, Save, AcquireSaveLock, ReadAndDecide, Write,
                Upsert, LoadAndExplain, Fails, GivesUp, Restart, storeVars,
                callVars, deployment
  <2>2. UNCHANGED row
    <3>1. ASSUME NEW v \in Writers, at[v] \in {"write", "upsert"},
                 at'[v] \in {"idle", "error"}
          PROVE  FALSE
      <4>1. v # w
        BY <1>1, <3>1
      <4>2. at[v] = "write" /\ saveLock[home[v]] = v
        BY <2>1, <3>1 DEF LockInv
      <4> QED
        BY <2>1, <4>1, <4>2
    <3> QED
      BY <3>1, RowStep
  <2> QED
    BY <1>1, <2>1, <2>2 DEF DecisionsHold, Stored
<1>2. CASE at[w] # "write"
  <2>1. ReadAndDecide(w) /\ Persist(Stored(w), incoming[w])
    BY <1>2 DEF Next, Save, AcquireSaveLock, ReadAndDecide, Write, Upsert,
                LoadAndExplain, Fails, GivesUp, Restart, storeVars, Goto
  <2> QED
    BY <2>1 DEF ReadAndDecide, Stored, callVars
<1> QED
  BY <1>1, <1>2

LEMMA SkipStep ==
    StoreInv /\ [Next]_storeVars => SkippedForTerminal'
<1> SUFFICES ASSUME StoreInv, [Next]_storeVars,
                    NEW w \in Writers, (at[w] = "load")'
             PROVE  IsTerminal(Stored(w))'
  BY DEF SkippedForTerminal
<1> USE DEF StoreInv, TypeOK
<1>1. CASE at[w] = "load"
  <2>1. target'[w] = target[w] /\ target[w] \in Tasks
    BY <1>1 DEF Next, Save, AcquireSaveLock, ReadAndDecide, Write, Upsert,
                LoadAndExplain, Fails, GivesUp, Restart, storeVars, callVars
  <2>2. IsTerminal(row[target[w]])
    BY <1>1 DEF SkippedForTerminal, Stored
  <2>3. row'[target[w]] = row[target[w]]
    BY <2>1, <2>2, TerminalStep
  <2> QED
    BY <2>1, <2>2, <2>3 DEF Stored, IsTerminal
<1>2. CASE at[w] # "load"
  <2>1. Upsert(w) /\ ~MayOverwrite(Stored(w)) /\ row' = row
    BY <1>2 DEF Next, Save, AcquireSaveLock, ReadAndDecide, Write, Upsert,
                LoadAndExplain, Fails, GivesUp, Restart, storeVars, Goto
  <2> QED
    BY <2>1 DEF Upsert, MayOverwrite, IsTerminal, Stored, callVars
<1> QED
  BY <1>1, <1>2

LEMMA StoreStep == StoreInv /\ [Next]_storeVars => StoreInv'
BY TypeStep, LockStep, DecisionStep, SkipStep DEF StoreInv

-------------------------------------------------------------------------------
(* Types, locks and decisions hold in every reachable state.               *)
THEOREM StoreSafety == Spec => []StoreInv
BY StoreInit, StoreStep, PTL DEF Spec

(* A decision taken under the lock holds until it is written.              *)
THEOREM DecisionSafety == Spec => []DecisionsHold
<1>1. StoreInv => DecisionsHold
  BY DEF StoreInv
<1> QED
  BY <1>1, StoreInit, StoreStep, PTL DEF Spec

(* A guarded upsert is skipped for a terminal row, which is still there    *)
(* when the save reads it back.                                            *)
THEOREM SkipSafety == Spec => []SkippedForTerminal
<1>1. StoreInv => SkippedForTerminal
  BY DEF StoreInv
<1> QED
  BY <1>1, StoreInit, StoreStep, PTL DEF Spec

(* Whatever the guard and whoever saves, a terminal task stays as it is.   *)
THEOREM FirstTerminalStateWins == Spec => TerminalStands
<1>1. StoreInv /\ [Next]_storeVars =>
        [\A t \in Tasks : IsTerminal(row[t]) => row'[t] = row[t]]_row
  BY TerminalStep
<1> QED
  BY <1>1, StoreInit, StoreStep, PTL DEF Spec, TerminalStands

(* A save that returns left its snapshot, or found a terminal one.         *)
THEOREM SavesAreSettled == Spec => SavesSettle
<1>1. ASSUME StoreInv, [Next]_storeVars, NEW w \in Writers,
             at[w] \in {"read", "write", "upsert", "load"}, at'[w] = "idle"
      PROVE  row'[target[w]] = incoming[w] \/ IsTerminal(row'[target[w]])
  <2> USE DEF StoreInv, TypeOK, RegisterTypeOK, Put, Goto, Stored
  <2>1. ReadAndDecide(w) \/ Write(w) \/ Upsert(w) \/ LoadAndExplain(w)
    BY <1>1 DEF Next, Save, AcquireSaveLock, ReadAndDecide, Write, Upsert,
                LoadAndExplain, Fails, GivesUp, Restart, storeVars
  <2>2. CASE ReadAndDecide(w)
    BY <1>1, <2>2 DEF ReadAndDecide, Persist
  <2>3. CASE Write(w)
    BY <1>1, <2>3 DEF Write
  <2>4. CASE Upsert(w)
    BY <1>1, <2>4 DEF Upsert
  <2>5. CASE LoadAndExplain(w)
    BY <1>1, <2>5 DEF LoadAndExplain
  <2> QED
    BY <2>1, <2>2, <2>3, <2>4, <2>5
<1>2. StoreInv /\ [Next]_storeVars =>
        [\A w \in Writers :
           at[w] \in {"read", "write", "upsert", "load"} /\ at'[w] = "idle"
           => row'[target[w]] = incoming[w] \/ IsTerminal(row'[target[w]])]_storeVars
  BY <1>1
<1> QED
  BY <1>2, StoreInit, StoreStep, PTL DEF Spec, SavesSettle

(* The store implements the register: every step is a write the register   *)
(* allows, or leaves the rows alone.                                       *)
THEOREM StoreIsARegister == Spec => ImplementsRegister
<1>1. Init => RegisterInit
  BY DEF Init
<1>2. StoreInv /\ [Next]_storeVars => [RegisterNext]_row
  <2> SUFFICES ASSUME StoreInv, NEW w \in Writers,
                      Persist(Stored(w), incoming[w]),
                      row' = [row EXCEPT ![target[w]] = incoming[w]]
               PROVE  RegisterNext
    BY RowStep
  <2>1. target[w] \in Tasks /\ incoming[w] \in Snapshots
    BY DEF StoreInv, TypeOK
  <2>2. RegisterWrite(target[w], incoming[w])
    BY DEF RegisterWrite, Accept, Stored
  <2> QED
    BY <2>1, <2>2 DEF RegisterNext
<1> QED
  BY <1>1, <1>2, StoreInit, StoreStep, PTL
     DEF Spec, ImplementsRegister, RegisterSpec

(***************************************************************************)
(*                            The migrations                               *)
(***************************************************************************)
(* Only the writer has a draft, and it is ahead of what is committed.      *)
DraftInv ==
    /\ writer = "none" => draft = stored
    /\ \A p \in Servers : writer = p =>
          /\ phase[p] \in {"inspect", "add", "write", "commit"}
          /\ stored.version <= CURRENT
          /\ stored.items \subseteq draft.items
          /\ draft.version = done[p]

(* The schema of a later release: nobody gets past its version.            *)
LaterInv ==
    stored.version > CURRENT =>
       /\ SchemaOf(CURRENT) \cup {VersionTable} \subseteq stored.items
       /\ \A p \in Servers : phase[p] \in {"down", "look", "create", "refused"}

(* What a process has behind it, and has left, at each stage of its start. *)
StartInv(p) ==
    /\ phase[p] \notin {"down", "ready"} => inited[p] <= 1
    /\ phase[p] = "create" =>
          ToSet(StateTables) \subseteq View(p).items \cup ToSet(plan[p])
    /\ phase[p] \in {"inspect", "add", "write"} =>
          /\ done[p] < CURRENT
          /\ SchemaOf(done[p]) \subseteq View(p).items
          /\ ToSet(Migration[done[p] + 1]) \subseteq View(p).items \cup ToSet(todo[p])
    /\ phase[p] = "add" => todo[p] # <<>>
    /\ phase[p] = "write" => todo[p] = <<>>
    /\ phase[p] = "commit" =>
          /\ done[p] = CURRENT
          /\ SchemaOf(CURRENT) \subseteq View(p).items
          /\ writer # p => stored.version = CURRENT

MigrationInv ==
    SchemaInv /\ DraftInv /\ LaterInv /\ \A p \in Servers : StartInv(p)

-------------------------------------------------------------------------------
(* Sequences as lists of things to do.                                     *)
LEMMA ListFacts ==
    /\ ToSet(<<>>) = {}
    /\ \A S : \A s \in Seq(S) :
          /\ ToSet(s) \subseteq S
          /\ s # <<>> =>
                /\ Head(s) \in ToSet(s) /\ Head(s) \in S /\ Tail(s) \in Seq(S)
                /\ ToSet(s) = {Head(s)} \cup ToSet(Tail(s))
          /\ \A t \in Seq(S) : ToSet(s \o t) = ToSet(s) \cup ToSet(t)
<1>1. ToSet(<<>>) = {}
  BY DEF ToSet
<1>2. ASSUME NEW S, NEW s \in Seq(S) PROVE ToSet(s) \subseteq S
  BY DEF ToSet
<1>3. ASSUME NEW S, NEW s \in Seq(S), s # <<>>
      PROVE  /\ Head(s) \in ToSet(s) /\ Head(s) \in S /\ Tail(s) \in Seq(S)
             /\ ToSet(s) = {Head(s)} \cup ToSet(Tail(s))
  <2>1. Len(s) \in Nat /\ Len(s) > 0 /\ DOMAIN s = 1..Len(s)
    BY <1>3
  <2>2. /\ Tail(s) \in Seq(S) /\ DOMAIN Tail(s) = 1..(Len(s) - 1)
        /\ \A i \in 1..(Len(s) - 1) : Tail(s)[i] = s[i + 1]
    BY <1>3
  <2>3. Head(s) = s[1] /\ s[1] \in S
    BY <2>1
  <2>4. ASSUME NEW i \in DOMAIN s PROVE s[i] \in {Head(s)} \cup ToSet(Tail(s))
    <3>1. CASE i = 1
      BY <2>3, <3>1
    <3>2. CASE i # 1
      <4>1. i - 1 \in DOMAIN Tail(s) /\ Tail(s)[i - 1] = s[i]
        BY <2>1, <2>2, <2>4, <3>2
      <4> QED
        BY <4>1 DEF ToSet
    <3> QED
      BY <3>1, <3>2
  <2>5. ASSUME NEW i \in DOMAIN Tail(s) PROVE Tail(s)[i] \in ToSet(s)
    <3>1. i + 1 \in DOMAIN s /\ Tail(s)[i] = s[i + 1]
      BY <2>1, <2>2, <2>5
    <3> QED
      BY <3>1 DEF ToSet
  <2>6. s[1] \in ToSet(s)
    BY <2>1 DEF ToSet
  <2>7. ToSet(s) \subseteq {Head(s)} \cup ToSet(Tail(s))
    BY <2>4 DEF ToSet
  <2>8. ToSet(Tail(s)) \subseteq ToSet(s)
    BY <2>5 DEF ToSet
  <2> QED
    BY <2>2, <2>3, <2>6, <2>7, <2>8
<1>4. ASSUME NEW S, NEW s \in Seq(S), NEW t \in Seq(S)
      PROVE  ToSet(s \o t) = ToSet(s) \cup ToSet(t)
  <2> DEFINE m == Len(s)
             n == Len(t)
             u == s \o t
  <2>1. /\ m \in Nat /\ n \in Nat
        /\ DOMAIN s = 1..m /\ DOMAIN t = 1..n /\ DOMAIN u = 1..(m + n)
        /\ \A i \in 1..(m + n) : u[i] = IF i <= m THEN s[i] ELSE t[i - m]
    OBVIOUS
  <2> HIDE DEF m, n, u
  <2>2. ASSUME NEW i \in DOMAIN u PROVE u[i] \in ToSet(s) \cup ToSet(t)
    <3>1. \/ i \in DOMAIN s /\ u[i] = s[i]
          \/ i - m \in DOMAIN t /\ u[i] = t[i - m]
      BY <2>1, <2>2
    <3> QED
      BY <3>1 DEF ToSet
  <2>3. ASSUME NEW i \in DOMAIN s PROVE s[i] \in ToSet(u)
    <3>1. i \in DOMAIN u /\ u[i] = s[i]
      BY <2>1, <2>3
    <3> QED
      BY <3>1 DEF ToSet
  <2>4. ASSUME NEW i \in DOMAIN t PROVE t[i] \in ToSet(u)
    <3>1. i + m \in DOMAIN u /\ u[i + m] = t[i]
      BY <2>1, <2>4
    <3> QED
      BY <3>1 DEF ToSet
  <2>5. ToSet(u) \subseteq ToSet(s) \cup ToSet(t)
    BY <2>2 DEF ToSet
  <2>6. ToSet(s) \subseteq ToSet(u) /\ ToSet(t) \subseteq ToSet(u)
    BY <2>3, <2>4 DEF ToSet
  <2> QED
    BY <2>5, <2>6 DEF u
<1> QED
  BY <1>1, <1>2, <1>3, <1>4

-------------------------------------------------------------------------------
(* What the migrations add up to.                                          *)
LEMMA FourMigrations ==
    /\ CURRENT = 4
    /\ Migration[1] = <<"details_json">> /\ Migration[2] = <<"expires_at">>
    /\ Migration[3] = <<"ix_identity", "ix_identity_type", "ix_tombstone", "ix_claims">>
    /\ Migration[4] = <<"credential_id">>
BY DEF CURRENT, Migration

LEMMA EveryItemIsAdded ==
    {"details_json", "expires_at", "ix_identity", "ix_identity_type",
     "ix_tombstone", "ix_claims", "credential_id"} \subseteq AddedBy(CURRENT)
<1>1. \A v \in 1..CURRENT : ToSet(Migration[v]) \subseteq AddedBy(CURRENT)
  BY DEF AddedBy
<1>2. /\ "details_json" \in ToSet(Migration[1])
      /\ "expires_at" \in ToSet(Migration[2])
      /\ "ix_identity" \in ToSet(Migration[3])
      /\ "ix_identity_type" \in ToSet(Migration[3])
      /\ "ix_tombstone" \in ToSet(Migration[3])
      /\ "ix_claims" \in ToSet(Migration[3])
      /\ "credential_id" \in ToSet(Migration[4])
  BY FourMigrations DEF ToSet
<1> QED
  BY <1>1, <1>2, FourMigrations

LEMMA Adding ==
    /\ AddedBy(0) = {}
    /\ \A v \in 0..CURRENT - 1 :
          AddedBy(v + 1) = AddedBy(v) \cup ToSet(Migration[v + 1])
    /\ \A v \in 0..CURRENT : AddedBy(v) \subseteq AddedBy(CURRENT)
    /\ \A v \in 1..CURRENT : Migration[v] \in Seq(AddedBy(CURRENT))
<1>1. AddedBy(0) = {}
  BY DEF AddedBy
<1>2. ASSUME NEW v \in 0..CURRENT - 1
      PROVE  AddedBy(v + 1) = AddedBy(v) \cup ToSet(Migration[v + 1])
  <2>1. 1..(v + 1) = (1..v) \cup {v + 1}
    BY <1>2, FourMigrations
  <2> QED
    BY <2>1 DEF AddedBy
<1>3. ASSUME NEW v \in 0..CURRENT PROVE AddedBy(v) \subseteq AddedBy(CURRENT)
  <2>1. 1..v \subseteq 1..CURRENT
    BY FourMigrations
  <2> QED
    BY <2>1 DEF AddedBy
<1>4. ASSUME NEW v \in 1..CURRENT PROVE Migration[v] \in Seq(AddedBy(CURRENT))
  <2> DEFINE Added == AddedBy(CURRENT)
  <2>1. v \in {1, 2, 3, 4}
    BY FourMigrations
  <2>2. {"details_json", "expires_at", "ix_identity", "ix_identity_type",
         "ix_tombstone", "ix_claims", "credential_id"} \subseteq Added
    BY EveryItemIsAdded
  <2> HIDE DEF Added
  <2>3. /\ <<"details_json">> \in Seq(Added) /\ <<"expires_at">> \in Seq(Added)
        /\ <<"ix_identity", "ix_identity_type", "ix_tombstone", "ix_claims">> \in Seq(Added)
        /\ <<"credential_id">> \in Seq(Added)
    BY <2>2
  <2> QED
    BY <2>1, <2>3, FourMigrations DEF Added
<1> QED
  BY <1>1, <1>2, <1>3, <1>4

LEMMA TableFacts ==
    /\ ToSet(StateTables) = {Claims, InterruptRequests}
    /\ \A t \in {Claims, InterruptRequests} :
          /\ Columns[t] \subseteq AddedBy(CURRENT)
          /\ Indexes[t] \in Seq(AddedBy(CURRENT))
    /\ DOMAIN Columns = {Claims, InterruptRequests}
<1> DEFINE Added == AddedBy(CURRENT)
<1>1. ToSet(StateTables) = {Claims, InterruptRequests}
  BY DEF ToSet, StateTables
<1>2. /\ DOMAIN Columns = {Claims, InterruptRequests}
      /\ Columns[Claims] = {"expires_at"}
      /\ Columns[InterruptRequests] = {"details_json", "credential_id"}
      /\ Indexes[Claims] = <<"ix_claims">>
      /\ Indexes[InterruptRequests] = <<"ix_identity", "ix_identity_type", "ix_tombstone">>
  BY <1>1 DEF Columns, Indexes, Claims, InterruptRequests
<1>3. {"details_json", "expires_at", "ix_identity", "ix_identity_type",
       "ix_tombstone", "ix_claims", "credential_id"} \subseteq Added
  BY EveryItemIsAdded
<1> HIDE DEF Added
<1>4. /\ <<"ix_claims">> \in Seq(Added)
      /\ <<"ix_identity", "ix_identity_type", "ix_tombstone">> \in Seq(Added)
      /\ {"expires_at"} \subseteq Added /\ {"details_json", "credential_id"} \subseteq Added
  BY <1>3
<1> QED
  BY <1>1, <1>2, <1>4 DEF Added

LEMMA Schemas ==
    /\ CURRENT \in Nat /\ CURRENT > 0
    /\ SchemaOf(0) = ToSet(StateTables)
    /\ \A v \in 0..CURRENT - 1 :
          SchemaOf(v + 1) = SchemaOf(v) \cup ToSet(Migration[v + 1])
    /\ \A v \in 0..CURRENT : SchemaOf(v) \subseteq SchemaOf(CURRENT)
    /\ AddedBy(CURRENT) \subseteq SchemaOf(CURRENT)
    /\ \A v \in 1..CURRENT : Min({v, CURRENT}) = v
    /\ \A v \in Nat : v > CURRENT => Min({v, CURRENT}) = CURRENT
<1>1. /\ \A v \in 1..CURRENT : Min({v, CURRENT}) = v
      /\ \A v \in Nat : v > CURRENT => Min({v, CURRENT}) = CURRENT
  BY FourMigrations DEF Min
<1>2. CURRENT \in Nat /\ CURRENT > 0
  BY FourMigrations
<1> QED
  BY <1>1, <1>2, Adding DEF SchemaOf

-------------------------------------------------------------------------------
(* The database.                                                           *)
Everything == SchemaOf(CURRENT) \cup {VersionTable}

(* What a process takes for granted while another one moves.               *)
LeftAlone(q) ==
    /\ phase'[q] = phase[q] /\ plan'[q] = plan[q] /\ todo'[q] = todo[q]
    /\ done'[q] = done[q] /\ inited'[q] = inited[q]
    /\ (writer' = q <=> writer = q)
    /\ View(q).items \subseteq View(q)'.items
    /\ writer = q => draft' = draft /\ stored' = stored

(* What a step may do to what is committed: add to it, or raise it to this *)
(* release.                                                                *)
Raises ==
    /\ stored.items \subseteq stored'.items
    /\ \/ stored'.version = stored.version
       \/ /\ stored.version <= CURRENT /\ stored'.version = CURRENT
          /\ SchemaOf(CURRENT) \subseteq stored'.items
    /\ stored.version > CURRENT => stored' = stored

OthersAlone(p) == \A q \in Servers \ {p} : LeftAlone(q)

(* The types, as the proofs below use them.                                *)
LEMMA SchemaTypes ==
    ASSUME SchemaTypeOK, NEW p \in Servers
    PROVE  /\ stored = [items |-> stored.items, version |-> stored.version]
           /\ draft = [items |-> draft.items, version |-> draft.version]
           /\ stored.items \subseteq Everything /\ draft.items \subseteq Everything
           /\ stored.version \in 0..CURRENT + 1 /\ draft.version \in 0..CURRENT + 1
           /\ View(p) \in Database
           /\ plan[p] \in Seq(Everything) /\ todo[p] \in Seq(AddedBy(CURRENT))
           /\ done[p] \in 0..CURRENT /\ inited[p] \in 0..2
           /\ phase[p] \in Stages
BY DEF SchemaTypeOK, Database, Everything, View

LEMMA ExitStep ==
    ASSUME MigrationInv, NEW p \in Servers, Exits(p)
    PROVE  /\ stored' = stored /\ draft' \in Database /\ DraftInv'
           /\ writer' \in Servers \cup {"none"}
           /\ Raises /\ OthersAlone(p)
<1> USE ServersAssumption DEF MigrationInv, SchemaInv, SchemaTypeOK, DraftInv,
        LeftAlone, View, To
<1>1. /\ stored' = stored
      /\ writer' = IF writer = p THEN "none" ELSE writer
      /\ draft' = IF writer = p THEN stored ELSE draft
      /\ phase' = [phase EXCEPT ![p] = "down"]
      /\ UNCHANGED <<plan, done, todo, inited>>
  BY DEF Exits
<1>2. OthersAlone(p)
  BY <1>1 DEF OthersAlone
<1>3. DraftInv'
  BY <1>1
<1>4. Raises
  BY <1>1 DEF Raises
<1> QED
  BY <1>1, <1>2, <1>3, <1>4

LEMMA AddStep ==
    ASSUME MigrationInv, NEW p \in Servers, MayWrite(p),
           NEW items \in SUBSET Everything, Adds(p, items), UNCHANGED <<writer, done>>,
           phase'[p] = phase[p] \/ phase'[p] = "inspect",
           \A q \in Servers \ {p} : /\ phase'[q] = phase[q] /\ plan'[q] = plan[q]
                                    /\ todo'[q] = todo[q] /\ inited'[q] = inited[q]
    PROVE  /\ stored' \in Database /\ draft' \in Database
           /\ View(p)'.items = View(p).items \cup items
           /\ DraftInv' /\ Raises /\ OthersAlone(p)
<1> USE ServersAssumption
    DEF MigrationInv, SchemaInv, SchemaTypeOK, DraftInv, LeftAlone, View, MayWrite
<1>1. CASE writer = p
  <2>1. /\ draft' = [draft EXCEPT !.items = draft.items \cup items] /\ stored' = stored
    BY <1>1 DEF Adds
  <2>2. /\ draft' \in Database /\ draft'.items = draft.items \cup items
        /\ draft'.version = draft.version
    BY <2>1 DEF Database, Everything
  <2> QED
    BY <1>1, <2>1, <2>2 DEF Raises, OthersAlone
<1>2. CASE writer # p
  <2>1. /\ stored' = [stored EXCEPT !.items = stored.items \cup items] /\ draft' = stored'
        /\ writer = "none"
    BY <1>2 DEF Adds
  <2>2. /\ stored' \in Database /\ stored'.items = stored.items \cup items
        /\ stored'.version = stored.version
    BY <2>1 DEF Database, Everything
  <2>3. stored.version > CURRENT => stored' = stored
    <3>1. ASSUME stored.version > CURRENT PROVE items \subseteq stored.items
      BY <3>1 DEF LaterInv, Everything
    <3> QED
      BY <2>1, <3>1, SchemaTypes
  <2> QED
    BY <1>2, <2>1, <2>2, <2>3 DEF Raises, OthersAlone
<1> QED
  BY <1>1, <1>2

LEMMA WriteStep ==
    ASSUME MigrationInv, NEW p \in Servers, WriteVersion(p)
    PROVE  /\ stored' = stored /\ draft' \in Database /\ writer' = p
           /\ View(p)'.items = View(p).items
           /\ DraftInv' /\ Raises /\ OthersAlone(p)
<1> USE ServersAssumption
    DEF MigrationInv, SchemaInv, SchemaTypeOK, DraftInv, LeftAlone, View, MayWrite
<1>1. /\ phase[p] = "write" /\ writer' = p /\ stored' = stored
      /\ draft' = [View(p) EXCEPT !.version = done[p] + 1]
      /\ done' = [done EXCEPT ![p] = done[p] + 1]
      /\ UNCHANGED <<plan, inited>> /\ writer \in {"none", p}
      /\ \/ phase' = [phase EXCEPT ![p] = "commit"] /\ todo' = todo
         \/ /\ phase' = [phase EXCEPT ![p] = "inspect"]
            /\ todo' = [todo EXCEPT ![p] = Migration[done[p] + 2]]
  <2>1. done[p] + 1 + 1 = done[p] + 2
    BY SchemaTypes
  <2> QED
    BY <2>1 DEF WriteVersion, Migrates, To
<1>2. /\ done[p] < CURRENT /\ done[p] \in 0..CURRENT /\ View(p) \in Database
      /\ stored.version <= CURRENT /\ CURRENT \in Nat
  <2>1. done[p] < CURRENT
    BY <1>1 DEF StartInv
  <2>2. done[p] \in 0..CURRENT /\ View(p) \in Database /\ stored.version \in 0..CURRENT + 1
    BY SchemaTypes
  <2>3. ~(stored.version > CURRENT)
    BY <1>1 DEF LaterInv
  <2> QED
    BY <2>1, <2>2, <2>3, Schemas
<1>3. /\ draft' \in Database /\ draft'.items = View(p).items
      /\ draft'.version = done[p] + 1
  <2>1. done[p] + 1 \in 0..CURRENT + 1
    BY <1>2
  <2> QED
    BY <1>1, <1>2, <2>1 DEF Database
<1>4. OthersAlone(p)
  BY <1>1 DEF OthersAlone
<1>5. stored.items \subseteq View(p).items
  OBVIOUS
<1>6. DraftInv'
  <2>1. phase'[p] \in {"inspect", "commit"} /\ done'[p] = done[p] + 1
    BY <1>1
  <2> QED
    BY <1>1, <1>2, <1>3, <1>5, <2>1
<1>7. Raises
  BY <1>1 DEF Raises
<1> QED
  BY <1>1, <1>3, <1>4, <1>6, <1>7

LEMMA CommitStep ==
    ASSUME MigrationInv, NEW p \in Servers, Commit(p)
    PROVE  /\ stored' \in Database /\ draft' \in Database
           /\ writer' \in Servers \cup {"none"}
           /\ stored'.version = CURRENT /\ SchemaOf(CURRENT) \subseteq stored'.items
           /\ DraftInv' /\ Raises /\ OthersAlone(p)
<1> USE ServersAssumption
    DEF MigrationInv, SchemaInv, SchemaTypeOK, DraftInv, LeftAlone, View
<1>1. /\ phase[p] = "commit" /\ stored' = View(p) /\ draft' = draft
      /\ writer' = IF writer = p THEN "none" ELSE writer
      /\ phase' = [phase EXCEPT ![p] = IF inited[p] = 0 THEN "look" ELSE "ready"]
      /\ inited' = [inited EXCEPT ![p] = inited[p] + 1]
      /\ UNCHANGED <<plan, done, todo>>
  BY DEF Commit, To
<1>2. /\ done[p] = CURRENT /\ SchemaOf(CURRENT) \subseteq View(p).items
      /\ writer # p => stored.version = CURRENT
      /\ stored.version <= CURRENT /\ CURRENT \in Nat /\ stored.version \in Nat
  BY <1>1, SchemaTypes, Schemas, FourMigrations DEF StartInv, LaterInv
<1>3. CASE writer = p
  <2>1. stored' = draft /\ writer' = "none" /\ stored'.version = CURRENT
    BY <1>1, <1>2, <1>3
  <2>2. OthersAlone(p)
    BY <1>1, <1>3, <2>1 DEF OthersAlone
  <2>3. SchemaOf(CURRENT) \subseteq stored'.items /\ stored.items \subseteq stored'.items
    BY <1>2, <1>3, <2>1
  <2>4. Raises
    BY <1>2, <2>1, <2>3 DEF Raises
  <2>5. DraftInv'
    BY <1>1, <2>1
  <2> QED
    BY <1>1, <2>1, <2>2, <2>3, <2>4, <2>5
<1>4. CASE writer # p
  <2>1. stored' = stored /\ writer' = writer /\ stored'.version = CURRENT
    BY <1>1, <1>2, <1>4
  <2>2. OthersAlone(p)
    BY <1>1, <1>4, <2>1 DEF OthersAlone
  <2> QED
    BY <1>1, <1>2, <1>4, <2>1, <2>2 DEF Raises
<1> QED
  BY <1>3, <1>4

(* The steps that only read the database.                                  *)
Reads(p) == Start(p) \/ LookForTables(p) \/ ReadVersion(p) \/ InspectNext(p)

LEMMA ReadStep ==
    ASSUME MigrationInv, NEW p \in Servers, Reads(p)
    PROVE  /\ UNCHANGED <<stored, draft, writer>>
           /\ DraftInv' /\ Raises /\ OthersAlone(p)
<1> USE DEF MigrationInv, SchemaInv, SchemaTypeOK, DraftInv, LeftAlone, View, To
<1>1. UNCHANGED <<stored, draft, writer>>
  BY DEF Reads, Start, LookForTables, ReadVersion, InspectNext
<1>2. OthersAlone(p)
  BY <1>1 DEF OthersAlone, Reads, Start, LookForTables, ReadVersion, InspectNext,
               Migrates
<1>3. DraftInv'
  <2>1. writer = p => phase'[p] \in {"inspect", "add", "write", "commit"}
                      /\ done'[p] = done[p]
    <3>1. CASE InspectNext(p)
      <4>1. phase \in [Servers -> Stages] /\ phase[p] = "inspect" /\ done' = done
        BY <3>1 DEF InspectNext
      <4>2. phase' \in {phase, [phase EXCEPT ![p] = "write"], [phase EXCEPT ![p] = "add"]}
        BY <3>1 DEF InspectNext
      <4> QED
        BY ONLY <4>1, <4>2, p \in Servers
    <3>2. CASE Start(p) \/ LookForTables(p) \/ ReadVersion(p)
      BY <3>2 DEF Start, LookForTables, ReadVersion
    <3> QED
      BY <3>1, <3>2 DEF Reads
  <2> QED
    BY <1>1, <1>2, <2>1 DEF OthersAlone
<1>4. Raises
  BY <1>1 DEF Raises
<1> QED
  BY <1>1, <1>2, <1>3, <1>4

-------------------------------------------------------------------------------
(* The processes.                                                          *)

(* Whoever stood by can rely on what it relied on.                         *)
LEMMA StandingBy ==
    ASSUME MigrationInv, NEW q \in Servers, LeftAlone(q), Raises
    PROVE  StartInv(q)'
<1>1. StartInv(q) /\ stored.version \in 0..CURRENT + 1 /\ CURRENT \in Nat
  BY SchemaTypes, Schemas DEF MigrationInv, SchemaInv
<1>2. /\ View(q).items \subseteq View(q)'.items
      /\ phase[q] = "commit" /\ writer' # q => stored'.version = CURRENT
  BY <1>1 DEF LeftAlone, Raises, StartInv
<1> QED
  BY <1>1, <1>2 DEF StartInv, LeftAlone

(* The types of what a process keeps.                                      *)
ProcessTypeOK ==
    /\ phase \in [Servers -> Stages]
    /\ plan \in [Servers -> Seq(Everything)]
    /\ todo \in [Servers -> Seq(AddedBy(CURRENT))]
    /\ done \in [Servers -> 0..CURRENT] /\ inited \in [Servers -> 0..2]

(* A process that moves: each step leaves behind what the next relies on.  *)
LEMMA Looking ==
    ASSUME MigrationInv, NEW p \in Servers, Start(p) \/ LookForTables(p)
    PROVE  StartInv(p)' /\ ProcessTypeOK'
<1>1. /\ StartInv(p) /\ phase[p] \in Stages /\ inited[p] \in 0..2
      /\ ProcessTypeOK /\ UNCHANGED <<stored, draft, writer>>
  BY SchemaTypes
  DEF MigrationInv, SchemaInv, SchemaTypeOK, ProcessTypeOK, Everything, Start,
      LookForTables
<1>2. View(p)' = View(p)
  BY <1>1 DEF View
<1>3. CASE Start(p)
  <2>1. phase'[p] = "look" /\ inited'[p] = 0 /\ ProcessTypeOK'
    BY <1>1, <1>3 DEF Start, To, ProcessTypeOK, Stages
  <2> QED
    BY <2>1 DEF StartInv
<1>4. \A s, t \in Seq(Everything) :
         s \o t \in Seq(Everything) /\ ToSet(s \o t) = ToSet(s) \cup ToSet(t)
  BY ListFacts
<1>5. CASE LookForTables(p)
  <2> DEFINE Unless(t, items) == IF Has(p, {t}) THEN <<>> ELSE items
             c == Unless(Claims, <<Claims>> \o Indexes[Claims])
             i == Unless(InterruptRequests,
                         <<InterruptRequests>> \o Indexes[InterruptRequests])
             v == Unless(VersionTable, <<VersionTable>>)
  <2>1. /\ phase[p] = "look" /\ phase' = [phase EXCEPT ![p] = "create"]
        /\ plan' = [plan EXCEPT ![p] = v \o c \o i]
        /\ UNCHANGED <<done, todo, inited>>
    BY <1>5 DEF LookForTables, To
  <2>2. /\ <<Claims>> \in Seq(Everything) /\ <<InterruptRequests>> \in Seq(Everything)
        /\ <<VersionTable>> \in Seq(Everything)
        /\ Indexes[Claims] \in Seq(Everything)
        /\ Indexes[InterruptRequests] \in Seq(Everything)
    BY TableFacts DEF Everything, SchemaOf
  <2>3. /\ <<Claims>> \o Indexes[Claims] \in Seq(Everything)
        /\ Claims \in ToSet(<<Claims>> \o Indexes[Claims])
        /\ <<InterruptRequests>> \o Indexes[InterruptRequests] \in Seq(Everything)
        /\ InterruptRequests \in ToSet(<<InterruptRequests>> \o Indexes[InterruptRequests])
    <3>1. Claims \in ToSet(<<Claims>>) /\ InterruptRequests \in ToSet(<<InterruptRequests>>)
      BY DEF ToSet
    <3>2. \A s, t \in Seq(Everything) :
             s \o t \in Seq(Everything) /\ \A x \in ToSet(s) : x \in ToSet(s \o t)
      BY <1>4
    <3> QED
      BY <2>2, <3>1, <3>2
  <2>4. /\ v \in Seq(Everything)
        /\ c \in Seq(Everything) /\ i \in Seq(Everything)
        /\ Has(p, {Claims}) \/ Claims \in ToSet(c)
        /\ Has(p, {InterruptRequests}) \/ InterruptRequests \in ToSet(i)
    BY <2>2, <2>3
  <2> HIDE DEF v, c, i
  <2>5. /\ v \o c \in Seq(Everything) /\ v \o c \o i \in Seq(Everything)
        /\ ToSet(v \o c \o i) = ToSet(v) \cup ToSet(c) \cup ToSet(i)
    <3>1. v \o c \in Seq(Everything) /\ ToSet(v \o c) = ToSet(v) \cup ToSet(c)
      BY <2>4, <1>4
    <3> QED
      BY <2>4, <3>1, <1>4
  <2>6. ToSet(StateTables) \subseteq View(p).items \cup ToSet(v \o c \o i)
    BY <2>4, <2>5, TableFacts DEF Has
  <2>7. ProcessTypeOK'
    BY <1>1, <2>1, <2>5 DEF ProcessTypeOK, Stages
  <2>8. /\ phase'[p] = "create" /\ inited'[p] <= 1
        /\ ToSet(StateTables) \subseteq View(p)'.items \cup ToSet(plan'[p])
    BY <1>1, <1>2, <2>1, <2>6 DEF ProcessTypeOK, StartInv
  <2> QED
    BY <2>7, <2>8 DEF StartInv
<1> QED
  BY <1>3, <1>5

LEMMA Leaving ==
    ASSUME MigrationInv, NEW p \in Servers, Exits(p)
    PROVE  StartInv(p)' /\ ProcessTypeOK'
<1>1. /\ phase' = [phase EXCEPT ![p] = "down"] /\ UNCHANGED <<plan, done, todo, inited>>
      /\ ProcessTypeOK
  BY DEF Exits, To, MigrationInv, SchemaInv, SchemaTypeOK, ProcessTypeOK, Everything
<1>2. phase'[p] = "down" /\ ProcessTypeOK'
  BY <1>1 DEF ProcessTypeOK, Stages
<1> QED
  BY <1>2 DEF StartInv

LEMMA Creating ==
    ASSUME MigrationInv, NEW p \in Servers, CreateNext(p), ~Exits(p)
    PROVE  /\ StartInv(p)' /\ ProcessTypeOK' /\ stored' \in Database /\ draft' \in Database
           /\ writer' = writer /\ DraftInv' /\ Raises /\ OthersAlone(p)
<1> DEFINE item == Head(plan[p])
           new == {item} \cup IF item \in DOMAIN Columns THEN Columns[item] ELSE {}
<1>1. /\ phase[p] = "create" /\ plan[p] # <<>> /\ MayWrite(p) /\ Adds(p, new)
      /\ plan' = [plan EXCEPT ![p] = Tail(plan[p])]
      /\ UNCHANGED <<writer, phase, done, todo, inited>>
  BY DEF CreateNext
<1>2. /\ ProcessTypeOK /\ StartInv(p) /\ plan[p] \in Seq(Everything)
      /\ SchemaInv
  BY SchemaTypes
  DEF MigrationInv, SchemaInv, SchemaTypeOK, ProcessTypeOK, Everything
<1>3. /\ item \in Everything /\ Tail(plan[p]) \in Seq(Everything)
      /\ ToSet(plan[p]) = {item} \cup ToSet(Tail(plan[p]))
  BY <1>1, <1>2, ListFacts
<1> HIDE DEF item
<1>4. new \in SUBSET Everything /\ item \in new
  BY <1>3, TableFacts, Schemas DEF Everything
<1> HIDE DEF new
<1>5. plan'[p] = Tail(plan[p]) /\ ProcessTypeOK'
  BY <1>1, <1>2, <1>3 DEF ProcessTypeOK
<1>6. \A q \in Servers \ {p} : /\ phase'[q] = phase[q] /\ plan'[q] = plan[q]
                               /\ todo'[q] = todo[q] /\ inited'[q] = inited[q]
  BY <1>1, <1>2 DEF ProcessTypeOK
<1>7. /\ stored' \in Database /\ draft' \in Database
      /\ View(p)'.items = View(p).items \cup new
      /\ DraftInv' /\ Raises /\ OthersAlone(p)
  BY <1>1, <1>4, <1>6, AddStep
<1>8. StartInv(p)'
  BY <1>1, <1>2, <1>3, <1>4, <1>5, <1>7 DEF StartInv
<1> QED
  BY <1>1, <1>5, <1>7, <1>8

LEMMA AddingAnItem ==
    ASSUME MigrationInv, NEW p \in Servers, AddItem(p), ~Exits(p)
    PROVE  /\ StartInv(p)' /\ ProcessTypeOK' /\ stored' \in Database /\ draft' \in Database
           /\ writer' = writer /\ DraftInv' /\ Raises /\ OthersAlone(p)
<1> DEFINE item == Head(todo[p])
<1>1. /\ phase[p] = "add" /\ MayWrite(p) /\ Adds(p, {item})
      /\ todo' = [todo EXCEPT ![p] = Tail(todo[p])]
      /\ phase' = [phase EXCEPT ![p] = "inspect"]
      /\ UNCHANGED <<writer, plan, done, inited>>
  BY DEF AddItem, To
<1>2. /\ ProcessTypeOK /\ StartInv(p) /\ todo[p] \in Seq(AddedBy(CURRENT))
      /\ SchemaInv
  BY SchemaTypes
  DEF MigrationInv, SchemaInv, SchemaTypeOK, ProcessTypeOK, Everything
<1>3. /\ item \in AddedBy(CURRENT) /\ Tail(todo[p]) \in Seq(AddedBy(CURRENT))
      /\ ToSet(todo[p]) = {item} \cup ToSet(Tail(todo[p]))
  BY <1>1, <1>2, ListFacts DEF StartInv
<1> HIDE DEF item
<1>4. {item} \in SUBSET Everything
  BY <1>3, Schemas DEF Everything
<1>5. todo'[p] = Tail(todo[p]) /\ phase'[p] = "inspect" /\ ProcessTypeOK'
  BY <1>1, <1>2, <1>3 DEF ProcessTypeOK, Stages
<1>6. \A q \in Servers \ {p} : /\ phase'[q] = phase[q] /\ plan'[q] = plan[q]
                               /\ todo'[q] = todo[q] /\ inited'[q] = inited[q]
  BY <1>1, <1>2 DEF ProcessTypeOK
<1>7. /\ stored' \in Database /\ draft' \in Database
      /\ View(p)'.items = View(p).items \cup {item}
      /\ DraftInv' /\ Raises /\ OthersAlone(p)
  BY <1>1, <1>4, <1>5, <1>6, AddStep
<1>8. StartInv(p)'
  BY <1>1, <1>2, <1>3, <1>5, <1>7 DEF StartInv
<1> QED
  BY <1>1, <1>5, <1>7, <1>8

(* The plan of the next migration, as a process that has reached a version *)
(* takes it up.                                                            *)
LEMMA TakingUp ==
    ASSUME ProcessTypeOK, NEW p \in Servers, NEW v \in 0..CURRENT, Migrates(p, v),
           done' = [done EXCEPT ![p] = v], UNCHANGED <<plan, inited>>,
           inited[p] <= 1, SchemaOf(v) \subseteq View(p)'.items,
           v = CURRENT /\ writer' # p => stored'.version = CURRENT
    PROVE  StartInv(p)' /\ ProcessTypeOK'
<1>1. CASE v = CURRENT
  <2>1. phase'[p] = "commit" /\ done'[p] = CURRENT /\ ProcessTypeOK'
    BY <1>1 DEF Migrates, To, ProcessTypeOK, Stages
  <2> QED
    BY <1>1, <2>1 DEF StartInv
<1>2. CASE v # CURRENT
  <2>1. v < CURRENT /\ v + 1 \in 1..CURRENT
    BY <1>2, Schemas
  <2>2. Migration[v + 1] \in Seq(AddedBy(CURRENT))
    BY <2>1, Adding
  <2>3. /\ phase'[p] = "inspect" /\ done'[p] = v /\ todo'[p] = Migration[v + 1]
        /\ ProcessTypeOK'
    BY <1>2, <2>2 DEF Migrates, To, ProcessTypeOK, Stages
  <2> QED
    BY <2>1, <2>3 DEF StartInv
<1> QED
  BY <1>1, <1>2

LEMMA Reading ==
    ASSUME MigrationInv, NEW p \in Servers, ReadVersion(p)
    PROVE  StartInv(p)' /\ ProcessTypeOK'
<1>1. /\ phase[p] = "create" /\ plan[p] = <<>> /\ ProcessTypeOK /\ StartInv(p)
      /\ stored.version \in 0..CURRENT + 1 /\ VersionImpliesSchema
      /\ UNCHANGED <<stored, draft, writer, plan, inited>>
  BY SchemaTypes
  DEF MigrationInv, SchemaInv, SchemaTypeOK, ProcessTypeOK, Everything, ReadVersion
<1>2. writer # p /\ View(p) = stored /\ View(p)' = View(p)
  BY <1>1 DEF MigrationInv, DraftInv, View
<1>3. ToSet(StateTables) \subseteq stored.items /\ inited[p] <= 1
  BY <1>1, <1>2, ListFacts DEF StartInv
<1>4. CASE View(p).version > CURRENT
  <2>1. phase' = [phase EXCEPT ![p] = "refused"] /\ UNCHANGED <<done, todo>>
    BY <1>4, <1>1, <1>2, Schemas DEF ReadVersion, To
  <2>2. phase'[p] = "refused" /\ ProcessTypeOK'
    BY <1>1, <2>1 DEF ProcessTypeOK, Stages
  <2> QED
    BY <1>1, <1>3, <2>1, <2>2 DEF StartInv
<1>5. CASE ~(View(p).version > CURRENT)
  <2> DEFINE v == stored.version
  <2>1. /\ v \in 0..CURRENT /\ done' = [done EXCEPT ![p] = v] /\ Migrates(p, v)
    BY <1>5, <1>1, <1>2, Schemas DEF ReadVersion, StartingVersion
  <2>2. SchemaOf(v) \subseteq stored.items
    <3>1. CASE v = 0
      BY <1>3, <3>1, Schemas
    <3>2. CASE v # 0
      BY <1>1, <2>1, <3>2, Schemas DEF VersionImpliesSchema
    <3> QED
      BY <3>1, <3>2
  <2> QED
    BY <1>1, <1>2, <1>3, <2>1, <2>2, TakingUp
<1> QED
  BY <1>4, <1>5

LEMMA Inspecting ==
    ASSUME MigrationInv, NEW p \in Servers, InspectNext(p)
    PROVE  StartInv(p)' /\ ProcessTypeOK'
<1>1. /\ phase[p] = "inspect" /\ ProcessTypeOK /\ StartInv(p)
      /\ todo[p] \in Seq(AddedBy(CURRENT))
      /\ UNCHANGED <<stored, draft, writer, plan, done, inited>>
  BY SchemaTypes
  DEF MigrationInv, SchemaInv, SchemaTypeOK, ProcessTypeOK, Everything, InspectNext
<1>2. View(p)' = View(p)
  BY <1>1 DEF View
<1>3. CASE todo[p] = <<>>
  <2>1. phase' = [phase EXCEPT ![p] = "write"] /\ todo' = todo
    BY <1>3 DEF InspectNext, To
  <2>2. phase'[p] = "write" /\ ProcessTypeOK'
    BY <1>1, <2>1 DEF ProcessTypeOK, Stages
  <2> QED
    BY <1>1, <1>2, <1>3, <2>1, <2>2 DEF StartInv
<1>4. CASE todo[p] # <<>>
  <2>1. /\ Tail(todo[p]) \in Seq(AddedBy(CURRENT))
        /\ ToSet(todo[p]) = {Head(todo[p])} \cup ToSet(Tail(todo[p]))
    BY <1>1, <1>4, ListFacts
  <2>2. CASE Has(p, {Head(todo[p])})
    <3>1. todo' = [todo EXCEPT ![p] = Tail(todo[p])] /\ phase' = phase
      BY <1>4, <2>2 DEF InspectNext
    <3>2. todo'[p] = Tail(todo[p]) /\ ProcessTypeOK'
      BY <1>1, <2>1, <3>1 DEF ProcessTypeOK
    <3> QED
      BY <1>1, <1>2, <2>1, <2>2, <3>1, <3>2 DEF StartInv, Has
  <2>3. CASE ~Has(p, {Head(todo[p])})
    <3>1. phase' = [phase EXCEPT ![p] = "add"] /\ todo' = todo
      BY <1>4, <2>3 DEF InspectNext, To
    <3>2. phase'[p] = "add" /\ ProcessTypeOK'
      BY <1>1, <3>1 DEF ProcessTypeOK, Stages
    <3> QED
      BY <1>1, <1>2, <1>4, <3>1, <3>2 DEF StartInv
  <2> QED
    BY <2>2, <2>3
<1> QED
  BY <1>3, <1>4

LEMMA Writing ==
    ASSUME MigrationInv, NEW p \in Servers, WriteVersion(p)
    PROVE  StartInv(p)' /\ ProcessTypeOK'
<1>1. /\ phase[p] = "write" /\ ProcessTypeOK /\ StartInv(p) /\ done[p] \in 0..CURRENT
      /\ done' = [done EXCEPT ![p] = done[p] + 1] /\ Migrates(p, done[p] + 1)
      /\ UNCHANGED <<plan, inited>>
  BY SchemaTypes
  DEF MigrationInv, SchemaInv, SchemaTypeOK, ProcessTypeOK, Everything, WriteVersion
<1>2. /\ done[p] < CURRENT /\ inited[p] <= 1
      /\ SchemaOf(done[p]) \subseteq View(p).items
      /\ ToSet(Migration[done[p] + 1]) \subseteq View(p).items
  BY <1>1, ListFacts DEF StartInv
<1>3. done[p] + 1 \in 0..CURRENT /\ done[p] \in 0..CURRENT - 1
  BY <1>1, <1>2, Schemas
<1>4. SchemaOf(done[p] + 1) \subseteq View(p)'.items /\ writer' = p
  BY <1>2, <1>3, Schemas, WriteStep
<1> QED
  BY <1>1, <1>2, <1>3, <1>4, TakingUp

LEMMA Committing ==
    ASSUME MigrationInv, NEW p \in Servers, Commit(p)
    PROVE  StartInv(p)' /\ ProcessTypeOK'
<1>1. /\ phase[p] = "commit" /\ ProcessTypeOK /\ StartInv(p) /\ inited[p] \in 0..2
      /\ phase' = [phase EXCEPT ![p] = IF inited[p] = 0 THEN "look" ELSE "ready"]
      /\ inited' = [inited EXCEPT ![p] = inited[p] + 1]
      /\ UNCHANGED <<plan, done, todo>>
  BY SchemaTypes
  DEF MigrationInv, SchemaInv, SchemaTypeOK, ProcessTypeOK, Everything, Commit, To
<1>2. inited[p] <= 1
  BY <1>1 DEF StartInv
<1>3. /\ phase'[p] = IF inited[p] = 0 THEN "look" ELSE "ready"
      /\ inited'[p] = inited[p] + 1 /\ ProcessTypeOK'
  BY <1>1, <1>2 DEF ProcessTypeOK, Stages
<1> QED
  BY <1>1, <1>2, <1>3 DEF StartInv

-------------------------------------------------------------------------------
(* Putting the steps together.                                             *)

LEMMA FaultsCount ==
    ASSUME SchemaTypeOK, SchemaNext PROVE faults' \in 0..MaxFaults
<1> USE FaultsAssumption DEF SchemaTypeOK
<1>1. ASSUME NEW p \in Servers, Starts(p) PROVE faults' = faults
  BY <1>1 DEF Starts, Start, LookForTables, CreateNext, ReadVersion, InspectNext,
              AddItem, WriteVersion, Commit
<1>2. ASSUME NEW p \in Servers, LockTimesOut(p) \/ Crash(p)
      PROVE  faults < MaxFaults /\ faults' = faults + 1
  BY <1>2 DEF LockTimesOut, Crash
<1> QED
  BY <1>1, <1>2 DEF SchemaNext

(* What a step of one process amounts to.                                  *)
LEMMA OneMoves ==
    ASSUME MigrationInv, NEW p \in Servers, Starts(p) \/ LockTimesOut(p) \/ Crash(p)
    PROVE  /\ StartInv(p)' /\ ProcessTypeOK' /\ DraftInv' /\ Raises /\ OthersAlone(p)
           /\ stored' \in Database /\ draft' \in Database
           /\ writer' \in Servers \cup {"none"}
           /\ phase'[p] = "ready" => phase[p] = "commit" /\ Commit(p)
<1>1. /\ stored \in Database /\ draft \in Database /\ ProcessTypeOK
      /\ writer \in Servers \cup {"none"}
  BY DEF MigrationInv, SchemaInv, SchemaTypeOK, ProcessTypeOK, Everything
<1>2. CASE Exits(p)
  BY <1>1, <1>2, ExitStep, Leaving DEF Exits, To, ProcessTypeOK
<1>3. CASE CreateNext(p) /\ ~Exits(p)
  BY <1>1, <1>3, Creating DEF CreateNext
<1>4. CASE AddItem(p) /\ ~Exits(p)
  BY <1>1, <1>4, AddingAnItem DEF AddItem, To, ProcessTypeOK
<1>5. CASE Start(p) \/ LookForTables(p)
  BY <1>1, <1>5, ReadStep, Looking DEF Reads, Start, LookForTables, To, ProcessTypeOK
<1>6. CASE ReadVersion(p)
  BY <1>1, <1>6, ReadStep, Reading DEF Reads, ReadVersion, Migrates, To, ProcessTypeOK
<1>7. CASE InspectNext(p)
  BY <1>1, <1>7, ReadStep, Inspecting DEF Reads, InspectNext, To, ProcessTypeOK
<1>8. CASE WriteVersion(p)
  BY <1>1, <1>8, WriteStep, Writing DEF WriteVersion, Migrates, To, ProcessTypeOK
<1>9. CASE Commit(p)
  BY <1>1, <1>9, CommitStep, Committing DEF Commit
<1> QED
  BY <1>2, <1>3, <1>4, <1>5, <1>6, <1>7, <1>8, <1>9
  DEF Starts, LockTimesOut, Crash

LEMMA LaterStep ==
    ASSUME MigrationInv, NEW p \in Servers, Starts(p) \/ LockTimesOut(p) \/ Crash(p)
    PROVE  LaterInv'
<1> SUFFICES ASSUME stored'.version > CURRENT PROVE LaterInv'
  BY DEF LaterInv
<1>1. stored'.version = stored.version /\ stored' = stored
  BY OneMoves, Schemas DEF Raises
<1>2. /\ SchemaOf(CURRENT) \cup {VersionTable} \subseteq stored.items
      /\ \A q \in Servers : phase[q] \in {"down", "look", "create", "refused"}
  BY <1>1 DEF MigrationInv, LaterInv
<1>3. \A q \in Servers \ {p} : phase'[q] = phase[q]
  BY OneMoves DEF OthersAlone, LeftAlone
<1>4. phase \in [Servers -> Stages] /\ phase[p] \in {"down", "look", "create", "refused"}
  BY <1>2 DEF MigrationInv, SchemaInv, SchemaTypeOK
<1>5. CASE Exits(p)
  BY <1>1, <1>2, <1>3, <1>4, <1>5 DEF Exits, To, LaterInv
<1>6. CASE ~Exits(p)
  <2>1. \/ Start(p) \/ LookForTables(p) \/ ReadVersion(p)
        \/ CreateNext(p) /\ phase' = phase
    BY <1>4, <1>6
    DEF Starts, LockTimesOut, Crash, InspectNext, AddItem, WriteVersion, Commit,
        CreateNext
  <2>2. CASE ReadVersion(p)
    <3>1. View(p) = stored /\ stored.version \in Nat
      BY <1>4, SchemaTypes DEF MigrationInv, SchemaInv, DraftInv, View
    <3>2. phase' = [phase EXCEPT ![p] = "refused"]
      BY <1>1, <2>2, <3>1, Schemas DEF ReadVersion, To
    <3> QED
      BY <1>1, <1>2, <1>3, <1>4, <3>2 DEF LaterInv
  <2>3. CASE Start(p) \/ LookForTables(p)
    BY <1>1, <1>2, <1>3, <1>4, <2>3 DEF Start, LookForTables, To, LaterInv
  <2> QED
    BY <1>1, <1>2, <1>3, <2>1, <2>2, <2>3 DEF LaterInv
<1> QED
  BY <1>5, <1>6

(* What is recorded and what is ready stays behind what is raised.         *)
LEMMA PromiseStep ==
    ASSUME MigrationInv, NEW p \in Servers, Starts(p) \/ LockTimesOut(p) \/ Crash(p)
    PROVE  VersionImpliesSchema' /\ ReadyImpliesComplete'
<1>1. Raises /\ OthersAlone(p) /\ stored.version \in 0..CURRENT + 1 /\ CURRENT \in Nat
      /\ stored'.version \in 0..CURRENT + 1
  BY OneMoves, SchemaTypes, Schemas DEF MigrationInv, SchemaInv, Database
<1>2. VersionImpliesSchema'
  <2>1. CASE stored'.version = stored.version
    BY <1>1, <2>1 DEF Raises, VersionImpliesSchema, MigrationInv, SchemaInv
  <2>2. CASE stored'.version = CURRENT /\ SchemaOf(CURRENT) \subseteq stored'.items
    <3>1. Min({CURRENT, CURRENT}) = CURRENT
      BY Schemas
    <3> QED
      BY <2>2, <3>1 DEF VersionImpliesSchema
  <2> QED
    BY <1>1, <2>1, <2>2 DEF Raises
<1>3. ASSUME NEW q \in Servers, phase'[q] = "ready"
      PROVE  stored'.version = CURRENT /\ SchemaOf(CURRENT) \subseteq stored'.items
  <2>1. CASE q = p
    BY <1>3, <2>1, OneMoves, CommitStep
  <2>2. CASE q # p
    <3>1. phase[q] = "ready"
      BY <1>1, <1>3, <2>2 DEF OthersAlone, LeftAlone
    <3>2. stored.version = CURRENT /\ SchemaOf(CURRENT) \subseteq stored.items
      BY <3>1 DEF MigrationInv, SchemaInv, ReadyImpliesComplete
    <3> QED
      BY <1>1, <3>2 DEF Raises
  <2> QED
    BY <2>1, <2>2
<1> QED
  BY <1>2, <1>3 DEF ReadyImpliesComplete

LEMMA MigrationStep == MigrationInv /\ [SchemaNext]_schemaVars => MigrationInv'
<1> SUFFICES ASSUME MigrationInv, [SchemaNext]_schemaVars PROVE MigrationInv'
  OBVIOUS
<1>1. CASE UNCHANGED schemaVars
  BY <1>1
  DEF schemaVars, MigrationInv, SchemaInv, SchemaTypeOK, VersionImpliesSchema,
      ReadyImpliesComplete, DraftInv, LaterInv, StartInv, View
<1>2. ASSUME NEW p \in Servers, Starts(p) \/ LockTimesOut(p) \/ Crash(p)
      PROVE  MigrationInv'
  <2>1. /\ StartInv(p)' /\ ProcessTypeOK' /\ DraftInv' /\ Raises /\ OthersAlone(p)
        /\ stored' \in Database /\ draft' \in Database
        /\ writer' \in Servers \cup {"none"}
    BY <1>2, OneMoves
  <2>2. faults' \in 0..MaxFaults
    BY <1>2, FaultsCount DEF MigrationInv, SchemaInv, SchemaNext
  <2>3. SchemaTypeOK'
    BY <2>1, <2>2 DEF SchemaTypeOK, ProcessTypeOK, Everything
  <2>4. ASSUME NEW q \in Servers PROVE StartInv(q)'
    <3>1. CASE q = p
      BY <2>1, <3>1
    <3>2. CASE q # p
      BY <2>1, <3>2, StandingBy DEF OthersAlone
    <3> QED
      BY <3>1, <3>2
  <2> QED
    BY <1>2, <2>1, <2>3, <2>4, LaterStep, PromiseStep DEF MigrationInv, SchemaInv
<1> QED
  BY <1>1, <1>2 DEF SchemaNext

LEMMA MigrationInit == SchemaInit => MigrationInv
<1> SUFFICES ASSUME SchemaInit PROVE MigrationInv
  OBVIOUS
<1>1. stored \in Left /\ draft = stored /\ writer = "none" /\ faults = 0
  BY DEF SchemaInit
<1>2. \A p \in Servers : /\ phase[p] = "down" /\ plan[p] = <<>> /\ todo[p] = <<>>
                         /\ done[p] = 0 /\ inited[p] = 0
  BY DEF SchemaInit
<1>3. /\ stored \in Database
      /\ stored.version # 0 =>
            SchemaOf(Min({stored.version, CURRENT})) \subseteq stored.items
      /\ stored.version > CURRENT => Everything \subseteq stored.items
  <2>1. CASE stored = [items |-> {}, version |-> 0]
    BY <2>1, Schemas DEF Database
  <2>2. CASE stored = [items |-> SchemaOf(0), version |-> 0]
    BY <2>2, Schemas DEF Database
  <2>3. ASSUME NEW v \in 1..CURRENT,
               stored = [items |-> SchemaOf(v) \cup {VersionTable}, version |-> v]
        PROVE  /\ stored \in Database /\ Min({stored.version, CURRENT}) = v
               /\ SchemaOf(v) \subseteq stored.items /\ ~(stored.version > CURRENT)
    BY <2>3, Schemas DEF Database
  <2>4. CASE stored = [items |-> Everything, version |-> CURRENT + 1]
    <3>1. Min({CURRENT + 1, CURRENT}) = CURRENT /\ CURRENT + 1 \in 0..CURRENT + 1
      BY Schemas
    <3> QED
      BY <2>4, <3>1 DEF Database, Everything
  <2> QED
    BY <1>1, <2>1, <2>2, <2>3, <2>4 DEF Left, Everything
<1>4. SchemaTypeOK
  <2>1. /\ phase \in [Servers -> Stages]
        /\ plan \in [Servers -> Seq(SchemaOf(CURRENT) \cup {VersionTable})]
        /\ todo \in [Servers -> Seq(AddedBy(CURRENT))]
    BY DEF SchemaInit, Stages
  <2>2. /\ done \in [Servers -> 0..CURRENT] /\ inited \in [Servers -> 0..2]
        /\ faults \in 0..MaxFaults
    BY Schemas, FaultsAssumption DEF SchemaInit
  <2> QED
    BY <1>1, <1>3, <2>1, <2>2 DEF SchemaTypeOK
<1>5. VersionImpliesSchema /\ ReadyImpliesComplete
  BY <1>2, <1>3 DEF VersionImpliesSchema, ReadyImpliesComplete
<1>6. DraftInv /\ LaterInv
  BY <1>1, <1>2, <1>3, ServersAssumption DEF DraftInv, LaterInv, Everything
<1>7. \A p \in Servers : StartInv(p)
  BY <1>2 DEF StartInv
<1> QED
  BY <1>4, <1>5, <1>6, <1>7 DEF MigrationInv, SchemaInv

(* However many processes start at once, crash or wait in vain for another *)
(* on whatever database a release left, the recorded version never         *)
(* promises more than the schema holds, and a process that is ready has    *)
(* the schema of this release under it.                                    *)
THEOREM SchemaIsAsRecorded == SchemaSpec => []SchemaInv
<1>1. MigrationInv => SchemaInv
  BY DEF MigrationInv
<1> QED
  BY MigrationInit, MigrationStep, <1>1, PTL DEF SchemaSpec

(* The recorded version never falls, and a database of a later release is  *)
(* never changed.                                                          *)
THEOREM VersionOnlyRises == SchemaSpec => VersionNeverFalls
<1>1. MigrationInv /\ [SchemaNext]_schemaVars =>
        [/\ stored'.version >= stored.version
         /\ stored.version > CURRENT => UNCHANGED stored]_schemaVars
  <2> SUFFICES ASSUME MigrationInv, NEW p \in Servers,
                      Starts(p) \/ LockTimesOut(p) \/ Crash(p)
               PROVE  /\ stored'.version >= stored.version
                      /\ stored.version > CURRENT => UNCHANGED stored
    BY DEF SchemaNext
  <2>1. Raises /\ stored.version \in Nat /\ CURRENT \in Nat
    BY OneMoves, SchemaTypes, Schemas DEF MigrationInv, SchemaInv
  <2> QED
    BY <2>1 DEF Raises
<1> QED
  BY MigrationInit, MigrationStep, <1>1, PTL DEF SchemaSpec, VersionNeverFalls

(***************************************************************************)
(*                         The list of the tasks                           *)
(***************************************************************************)
(* How often a task nobody saved meanwhile has been listed: once if it     *)
(* matches and the pages have come as far as it, else not at all.          *)
Passed(t) ==
    \/ listing = "done"
    \/ listing = "open" /\ ~KeyLess(SortKey(t), cursor)
ListingInv ==
    /\ ListTypeOK
    /\ listing = "idle" => cursor = <<>>
    /\ listing = "open" => cursor \in (0..MaxTime) \X TaskIds
    /\ \A t \in TaskIds \ touched :
          listed[t] = IF Matches(t) /\ Passed(t) THEN 1 ELSE 0

-------------------------------------------------------------------------------
(* Least elements.                                                         *)

(* Every set of natural numbers that is not empty has a least one.         *)
LEMMA LeastNumber ==
    ASSUME NEW T \in SUBSET Nat, T # {}
    PROVE  \E m \in T : \A n \in T : m <= n
<1> DEFINE R == {ss \in Nat \X Nat : ss[1] < ss[2]}
<1>1. IsWellFoundedOn(R, Nat)
  BY NatLessThanWellFounded DEF OpToRel
<1>2. PICK m \in T : \A n \in T : ~(<<n, m>> \in R)
  <2> HIDE DEF R
  <2> QED
    BY <1>1, WFMin
<1>3. \A n \in T : ~(n < m)
  BY <1>2
<1> QED
  BY <1>3

(* A finite set has a minimal element for every strict order R: one with   *)
(* the fewest elements below it.                                           *)
LEMMA MinimalElement ==
    ASSUME NEW S, IsFiniteSet(S), S # {}, NEW R,
           \A x \in S : <<x, x>> \notin R,
           \A x, y, z \in S : <<x, y>> \in R /\ <<y, z>> \in R => <<x, z>> \in R
    PROVE  \E m \in S : \A u \in S : <<u, m>> \notin R
<1> DEFINE Below(x) == {u \in S : <<u, x>> \in R}
           T == {Cardinality(Below(x)) : x \in S}
<1>1. \A x \in S : Cardinality(Below(x)) \in Nat /\ IsFiniteSet(Below(x))
  <2>1. \A x \in S : Below(x) \in SUBSET S
    OBVIOUS
  <2> HIDE DEF Below
  <2> QED
    BY <2>1, FS_Subset, FS_CardinalityType
<1>2. PICK m \in S : \A x \in S : Cardinality(Below(m)) <= Cardinality(Below(x))
  <2> HIDE DEF Below
  <2>1. T \in SUBSET Nat /\ T # {}
    BY <1>1
  <2>2. PICK n \in T : \A k \in T : n <= k
    <3> HIDE DEF T
    <3> QED
      BY <2>1, LeastNumber
  <2>3. PICK m \in S : n = Cardinality(Below(m))
    OBVIOUS
  <2>4. ASSUME NEW x \in S PROVE n <= Cardinality(Below(x))
    <3>1. Cardinality(Below(x)) \in T
      OBVIOUS
    <3> QED
      BY <2>2, <3>1
  <2> QED
    BY <2>3, <2>4
<1>3. ASSUME NEW u \in S, <<u, m>> \in R PROVE FALSE
  <2>1. Below(u) \in SUBSET Below(m) /\ u \in Below(m) /\ u \notin Below(u)
    BY <1>3
  <2> HIDE DEF Below
  <2>2. Cardinality(Below(u)) <= Cardinality(Below(m))
        /\ Cardinality(Below(u)) # Cardinality(Below(m))
    BY <2>1, <1>1, FS_Subset
  <2> QED
    BY <2>2, <1>1, <1>2
<1> QED
  BY <1>3

-------------------------------------------------------------------------------
(* The order of the list.                                                  *)
Keys == Nat \X TaskIds

LEMMA KeysAreOrdered ==
    /\ \A k \in Keys : ~KeyLess(k, k)
    /\ \A k, l, m \in Keys : KeyLess(k, l) /\ KeyLess(l, m) => KeyLess(k, m)
    /\ \A k, l \in Keys : KeyLess(k, l) \/ KeyLess(l, k) \/ k = l
<1>1. \A k \in Keys : k = <<k[1], k[2]>> /\ k[1] \in Nat /\ k[2] \in Nat
  <2>1. \A t \in TaskIds : t \in Nat
    BY TaskIdsAssumption, Zenon
  <2> QED
    BY <2>1 DEF Keys
<1>2. \A k, l \in Keys : k[1] = l[1] /\ k[2] = l[2] => k = l
  BY <1>1
<1>3. ASSUME NEW k \in Keys PROVE ~KeyLess(k, k)
  BY <1>1 DEF KeyLess
<1>4. ASSUME NEW k \in Keys, NEW l \in Keys, NEW m \in Keys, KeyLess(k, l), KeyLess(l, m)
      PROVE  KeyLess(k, m)
  <2>1. /\ k[1] \in Nat /\ k[2] \in Nat /\ l[1] \in Nat /\ l[2] \in Nat
        /\ m[1] \in Nat /\ m[2] \in Nat
    BY <1>1
  <2> QED
    BY <2>1, <1>4 DEF KeyLess
<1>5. ASSUME NEW k \in Keys, NEW l \in Keys
      PROVE  KeyLess(k, l) \/ KeyLess(l, k) \/ k = l
  <2>1. /\ k[1] \in Nat /\ k[2] \in Nat /\ l[1] \in Nat /\ l[2] \in Nat
    BY <1>1
  <2> QED
    BY <2>1, <1>2 DEF KeyLess
<1> QED
  BY <1>3, <1>4, <1>5

LEMMA KeyOfTask ==
    ASSUME ListTypeOK, NEW t \in TaskIds, tasks[t] # NoTask
    PROVE  /\ tasks[t] \in Task /\ SortKey(t) \in (0..MaxTime) \X TaskIds
           /\ SortKey(t) \in Keys
<1>1. tasks[t] \in Task
  BY DEF ListTypeOK
<1>2. tasks[t].stamp \in 0..MaxTime
  BY <1>1 DEF Task
<1> QED
  BY <1>1, <1>2, ListBoundsAssumption DEF SortKey, Keys

(* The same, for a set of tasks.                                           *)
LEMMA TasksAreOrdered ==
    ASSUME ListTypeOK, NEW S \in SUBSET {t \in TaskIds : tasks[t] # NoTask}
    PROVE  /\ IsFiniteSet(S)
           /\ \A t \in S : ~KeyLess(SortKey(t), SortKey(t))
           /\ \A t, u, v \in S : KeyLess(SortKey(t), SortKey(u))
                                 /\ KeyLess(SortKey(u), SortKey(v))
                                 => KeyLess(SortKey(t), SortKey(v))
           /\ \A t, u \in S : \/ KeyLess(SortKey(t), SortKey(u))
                              \/ KeyLess(SortKey(u), SortKey(t))
                              \/ t = u
<1>1. S \in SUBSET TaskIds
  OBVIOUS
<1>2. IsFiniteSet(S)
  BY <1>1, TaskIdsAssumption, FS_Subset
<1>3. \A t \in S : SortKey(t) \in Keys
  BY KeyOfTask
<1>4. \A t, u \in S : SortKey(t) = SortKey(u) => t = u
  BY DEF SortKey
<1> HIDE DEF SortKey
<1> QED
  BY <1>2, <1>3, <1>4, KeysAreOrdered

-------------------------------------------------------------------------------
(* A page.                                                                 *)
Newer(S, t) == {u \in S : KeyLess(SortKey(t), SortKey(u))}
PageOf(S) == {t \in S : Cardinality(Newer(S, t)) < query.size}
LastOf(P) == CHOOSE t \in P : \A u \in P : ~KeyLess(SortKey(u), SortKey(t))

(* The page is cut from the front of the list: with a task it holds every  *)
(* newer one, it is never empty while there is something to list, and its  *)
(* last task separates it from the rest.                                   *)
LEMMA PageIsCutOff ==
    ASSUME ListTypeOK, NEW S \in SUBSET {t \in TaskIds : tasks[t] # NoTask}, S # {}
    PROVE  /\ LastOf(PageOf(S)) \in PageOf(S)
           /\ \A t \in S : t \in PageOf(S)
                           <=> ~KeyLess(SortKey(t), SortKey(LastOf(PageOf(S))))
<1> DEFINE R == {tu \in TaskIds \X TaskIds : KeyLess(SortKey(tu[1]), SortKey(tu[2]))}
           Q == {tu \in TaskIds \X TaskIds : KeyLess(SortKey(tu[2]), SortKey(tu[1]))}
           P == PageOf(S)
           last == LastOf(P)
<1>1. query.size \in Nat /\ query.size > 0
  <2>1. query \in Queries
    BY DEF ListTypeOK
  <2>2. query.size \in PageSizes
    BY <2>1 DEF Queries
  <2>3. query.size \in Nat \ {0}
    BY <2>2, PageAssumption, Zenon
  <2> QED
    BY <2>3
<1>2. /\ \A t, u \in TaskIds : <<t, u>> \in R <=> KeyLess(SortKey(t), SortKey(u))
      /\ \A t, u \in TaskIds : <<t, u>> \in Q <=> KeyLess(SortKey(u), SortKey(t))
  OBVIOUS
<1> HIDE DEF R, Q
<1>3. \A t \in S : Newer(S, t) \in SUBSET S /\ Cardinality(Newer(S, t)) \in Nat
                   /\ IsFiniteSet(Newer(S, t))
  <2>1. \A t \in S : Newer(S, t) \in SUBSET S
    BY DEF Newer
  <2> QED
    BY <2>1, TasksAreOrdered, FS_Subset, FS_CardinalityType
<1>4. ASSUME NEW t \in P, NEW u \in S, KeyLess(SortKey(t), SortKey(u)) PROVE u \in P
  <2>1. t \in S
    BY DEF PageOf
  <2>2. Newer(S, u) \in SUBSET Newer(S, t)
    BY <1>4, <2>1, TasksAreOrdered DEF Newer
  <2>3. Cardinality(Newer(S, u)) <= Cardinality(Newer(S, t))
    BY <1>3, <2>1, <2>2, FS_Subset
  <2> QED
    BY <1>1, <1>3, <2>1, <2>3 DEF PageOf
<1>5. P # {}
  <2>1. PICK t \in S : \A u \in S : <<u, t>> \notin Q
    <3>1. S \subseteq TaskIds
      OBVIOUS
    <3>2. \A x \in S : <<x, x>> \notin Q
      BY <1>2, <3>1, TasksAreOrdered
    <3>3. \A x, y, z \in S : <<x, y>> \in Q /\ <<y, z>> \in Q => <<x, z>> \in Q
      BY <1>2, <3>1, TasksAreOrdered
    <3> QED
      BY <3>2, <3>3, TasksAreOrdered, MinimalElement
  <2>2. Newer(S, t) = {}
    BY <1>2, <2>1 DEF Newer
  <2> QED
    BY <1>1, <2>2, FS_EmptySet DEF PageOf
<1>6. P \in SUBSET S
  BY DEF PageOf
<1> HIDE DEF P
<1>7. last \in P /\ \A u \in P : ~KeyLess(SortKey(u), SortKey(last))
  <2>1. P \in SUBSET {t \in TaskIds : tasks[t] # NoTask}
    BY <1>6
  <2>2. \A x \in P : <<x, x>> \notin R
    BY <1>2, <2>1, TasksAreOrdered
  <2>3. \A x, y, z \in P : <<x, y>> \in R /\ <<y, z>> \in R => <<x, z>> \in R
    BY <1>2, <2>1, TasksAreOrdered
  <2>4. \E m \in P : \A u \in P : <<u, m>> \notin R
    BY <1>5, <2>1, <2>2, <2>3, TasksAreOrdered, MinimalElement
  <2>5. \E m \in P : \A u \in P : ~KeyLess(SortKey(u), SortKey(m))
    BY <1>2, <2>1, <2>4
  <2> QED
    BY <2>5 DEF LastOf
<1> HIDE DEF last
<1>8. ASSUME NEW t \in S, ~KeyLess(SortKey(t), SortKey(last)) PROVE t \in P
  <2>1. KeyLess(SortKey(last), SortKey(t)) \/ t = last
    BY <1>6, <1>7, <1>8, TasksAreOrdered
  <2> QED
    BY <1>4, <1>7, <2>1
<1> QED
  BY <1>7, <1>8 DEF last, P

-------------------------------------------------------------------------------
(* The steps.                                                              *)
LEMMA ListingInit == ListInit => ListingInv
<1> SUFFICES ASSUME ListInit PROVE ListingInv
  OBVIOUS
<1>1. tasks \in [TaskIds -> Task \cup {NoTask}]
  <2>1. \A x \in {NoStamp, 1} : x \in 0..MaxTime
    BY ListBoundsAssumption DEF NoStamp
  <2>2. [state : TaskStates, context : Contexts, stamp : {NoStamp, 1}] \subseteq Task
    BY <2>1 DEF Task
  <2> QED
    BY <2>2 DEF ListInit
<1>2. /\ query \in Queries /\ cursor = <<>> /\ listing = "idle" /\ touched = {}
      /\ listed = [t \in TaskIds |-> 0] /\ now = 1 /\ saves = 0
  BY DEF ListInit
<1>3. now \in 1..MaxTime /\ saves \in 0..MaxSaves
  BY <1>2, ListBoundsAssumption
<1>4. ListTypeOK
  BY <1>1, <1>2, <1>3 DEF ListTypeOK
<1> QED
  BY <1>2, <1>4 DEF ListingInv, Passed

(* A page lists what it shows and moves the cursor to its end: what has    *)
(* been passed is what was, and the page.                                  *)
LEMMA PageStep ==
    ASSUME ListingInv, ListPage PROVE ListingInv'
<1> DEFINE after == AfterCursor
           page == PageOf(after)
           last == LastOf(page)
<1>1. /\ listing # "done"
      /\ listed' = [t \in TaskIds |-> listed[t] + IF t \in page THEN 1 ELSE 0]
      /\ \/ after # page /\ cursor' = SortKey(last) /\ listing' = "open"
         \/ after = page /\ cursor' = <<>> /\ listing' = "done"
      /\ UNCHANGED <<now, tasks, saves, query, touched>>
  BY DEF ListPage, PageOf, LastOf, Newer
<1>2. ListTypeOK /\ listed \in [TaskIds -> Nat]
  BY DEF ListingInv, ListTypeOK
<1>3. /\ after \in SUBSET {t \in TaskIds : tasks[t] # NoTask}
      /\ \A t \in TaskIds : t \in after <=>
            Matches(t) /\ (cursor = <<>> \/ KeyLess(SortKey(t), cursor))
  BY DEF AfterCursor, FilteredTasks, Matches
<1>4. \A t \in TaskIds : (Matches(t) <=> Matches(t)') /\ SortKey(t)' = SortKey(t)
  BY <1>1 DEF Matches, SortKey
<1> HIDE DEF after
<1>5. page \in SUBSET after
  BY DEF PageOf
<1>6. after # page => after # {}
  BY <1>5
<1>7. after # page =>
         /\ last \in page /\ SortKey(last) \in (0..MaxTime) \X TaskIds
         /\ \A t \in after : t \in page <=> ~KeyLess(SortKey(t), SortKey(last))
  <2> SUFFICES ASSUME after # page
               PROVE  /\ last \in page /\ SortKey(last) \in (0..MaxTime) \X TaskIds
                      /\ \A t \in after :
                            t \in page <=> ~KeyLess(SortKey(t), SortKey(last))
    OBVIOUS
  <2>1. /\ last \in page
        /\ \A t \in after : t \in page <=> ~KeyLess(SortKey(t), SortKey(last))
    BY <1>2, <1>3, <1>6, PageIsCutOff
  <2>2. last \in TaskIds /\ tasks[last] # NoTask
    BY <2>1, <1>3, <1>5
  <2> QED
    BY <2>1, <2>2, <1>2, KeyOfTask
<1> HIDE DEF page
<1>8. ListTypeOK'
  <2>1. listed' \in [TaskIds -> Nat]
    BY <1>1, <1>2
  <2>2. cursor' = <<>> \/ cursor' \in (0..MaxTime) \X TaskIds
    BY <1>1, <1>7
  <2>3. listing' \in {"idle", "open", "done"}
    BY <1>1
  <2> QED
    BY <1>1, <1>2, <2>1, <2>2, <2>3 DEF ListTypeOK
<1>9. ASSUME NEW t \in TaskIds \ touched
      PROVE  listed'[t] = IF Matches(t)' /\ Passed(t)' THEN 1 ELSE 0
  <2>1. listed'[t] = listed[t] + IF t \in page THEN 1 ELSE 0
    BY <1>1
  <2>2. listed[t] = IF Matches(t) /\ Passed(t) THEN 1 ELSE 0
    BY DEF ListingInv
  <2>3. listing \in {"idle", "open"}
    BY <1>1, <1>2 DEF ListTypeOK
  <2>4. Matches(t) => (Passed(t) <=> t \notin after)
    <3>1. listing = "open" => cursor # <<>> /\ cursor \in Keys
      <4>1. listing = "open" => cursor \in (0..MaxTime) \X TaskIds
        BY DEF ListingInv
      <4> QED
        BY <4>1, ListBoundsAssumption DEF Keys
    <3>2. listing = "idle" => cursor = <<>>
      BY DEF ListingInv
    <3> QED
      BY <1>3, <2>3, <3>1, <3>2 DEF Passed
  <2>5. Matches(t)' /\ Passed(t)' <=> Matches(t) /\ (Passed(t) \/ t \in page)
    <3>1. CASE listing' = "done"
      BY <1>1, <1>4, <2>4, <3>1 DEF Passed
    <3>2. CASE listing' = "open"
      <4>1. /\ after # page /\ cursor' = SortKey(last) /\ last \in page
            /\ \A u \in after : u \in page <=> ~KeyLess(SortKey(u), SortKey(last))
        BY <1>1, <1>7, <3>2
      <4>2. Passed(t)' <=> ~KeyLess(SortKey(t), SortKey(last))
        BY <1>4, <3>2, <4>1 DEF Passed
      <4>3. ASSUME Matches(t), Passed(t) PROVE Passed(t)'
        <5>1. listing = "open" /\ ~KeyLess(SortKey(t), cursor) /\ cursor \in Keys
              /\ cursor # <<>>
          <6>1. listing = "open" /\ cursor \in (0..MaxTime) \X TaskIds
                /\ ~KeyLess(SortKey(t), cursor)
            BY <2>3, <4>3, <1>1 DEF Passed, ListingInv
          <6> QED
            BY <6>1, ListBoundsAssumption DEF Keys
        <5>2. last \in TaskIds /\ tasks[last] # NoTask /\ KeyLess(SortKey(last), cursor)
          BY <1>3, <1>5, <4>1, <5>1
        <5>3. tasks[t] # NoTask
          BY <4>3 DEF Matches
        <5>4. SortKey(last) \in Keys /\ SortKey(t) \in Keys
          BY <1>2, <5>2, <5>3, KeyOfTask
        <5>5. ~KeyLess(SortKey(t), SortKey(last))
          BY <5>1, <5>2, <5>4, KeysAreOrdered
        <5> QED
          BY <4>2, <5>5
      <4>4. t \in page => Matches(t) /\ Passed(t)'
        BY <1>3, <1>5, <4>1, <4>2
      <4>5. ASSUME Matches(t), ~Passed(t), Passed(t)' PROVE t \in page
        BY <2>4, <4>1, <4>2, <4>5
      <4> QED
        BY <1>4, <4>3, <4>4, <4>5
    <3> QED
      BY <1>1, <3>1, <3>2
  <2>6. t \in page => Matches(t) /\ ~Passed(t)
    BY <1>3, <1>5, <2>4
  <2> QED
    BY <2>1, <2>2, <2>5, <2>6
<1>10. /\ listing' = "idle" => cursor' = <<>>
       /\ listing' = "open" => cursor' \in (0..MaxTime) \X TaskIds
  BY <1>1, <1>7
<1> QED
  BY <1>1, <1>8, <1>9, <1>10 DEF ListingInv

(* A save touches its task and leaves the others where they were.          *)
LEMMA SaveStep ==
    ASSUME ListingInv, NEW t \in TaskIds, SaveTask(t) PROVE ListingInv'
<1>1. /\ UNCHANGED <<now, query, cursor, listed, listing>>
      /\ saves < MaxSaves /\ saves' = saves + 1
      /\ touched' = touched \cup {t}
  BY DEF SaveTask
<1>2. ListTypeOK /\ now \in 1..MaxTime /\ tasks \in [TaskIds -> Task \cup {NoTask}]
  BY DEF ListingInv, ListTypeOK
<1>3. \A stamp \in {NoStamp, now} : stamp \in 0..MaxTime
  BY <1>2, ListBoundsAssumption DEF NoStamp
<1>4. PICK saved \in Task : tasks' = [tasks EXCEPT ![t] = saved]
  <2>1. PICK s \in TaskStates, stamp \in {NoStamp, now} :
          \/ /\ tasks[t] = NoTask
             /\ \E c \in Contexts :
                   tasks' = [tasks EXCEPT ![t] = [state |-> s, context |-> c, stamp |-> stamp]]
          \/ /\ tasks[t] # NoTask
             /\ tasks' = [tasks EXCEPT ![t].state = s, ![t].stamp = stamp]
    BY DEF SaveTask
  <2>2. stamp \in 0..MaxTime
    BY <1>3
  <2>3. ASSUME NEW c \in Contexts
        PROVE  [state |-> s, context |-> c, stamp |-> stamp] \in Task
    BY <2>2 DEF Task
  <2>4. CASE tasks[t] # NoTask
    <3> DEFINE saved == [tasks[t] EXCEPT !.state = s, !.stamp = stamp]
    <3>1. tasks' = [tasks EXCEPT ![t] = saved]
      BY <1>2, <2>1, <2>4
    <3>2. saved \in Task
      BY <1>2, <2>2, <2>4 DEF Task
    <3> QED
      BY <3>1, <3>2
  <2> QED
    BY <2>1, <2>3, <2>4
<1>5. ListTypeOK'
  <2>1. saves' \in 0..MaxSaves
    BY <1>1, ListBoundsAssumption DEF ListingInv, ListTypeOK
  <2>2. tasks' \in [TaskIds -> Task \cup {NoTask}]
    BY <1>2, <1>4
  <2> QED
    BY <1>1, <1>2, <2>1, <2>2 DEF ListTypeOK
<1>6. ASSUME NEW u \in TaskIds \ touched'
      PROVE  listed'[u] = IF Matches(u)' /\ Passed(u)' THEN 1 ELSE 0
  <2>1. u \in TaskIds \ touched /\ u # t
    BY <1>1, <1>6
  <2>2. tasks'[u] = tasks[u]
    BY <1>2, <1>4, <2>1
  <2>3. (Matches(u)' <=> Matches(u)) /\ (Passed(u)' <=> Passed(u))
    BY <1>1, <2>2 DEF Matches, Passed, SortKey
  <2> QED
    BY <1>1, <2>1, <2>3 DEF ListingInv
<1> QED
  BY <1>1, <1>5, <1>6 DEF ListingInv

LEMMA ListingStep == ListingInv /\ [ListNext]_listVars => ListingInv'
<1> SUFFICES ASSUME ListingInv, [ListNext]_listVars PROVE ListingInv'
  OBVIOUS
<1>1. ASSUME UNCHANGED <<tasks, query, cursor, listed, listing, touched, saves>>,
             now' \in 1..MaxTime
      PROVE  ListingInv'
  BY <1>1 DEF ListingInv, ListTypeOK, Passed, Matches, SortKey
<1>2. CASE Tick
  <2>1. now' \in 1..MaxTime
    BY <1>2, ListBoundsAssumption DEF Tick, ListingInv, ListTypeOK
  <2> QED
    BY <1>1, <1>2, <2>1 DEF Tick
<1>3. CASE UNCHANGED listVars
  BY <1>1, <1>3 DEF listVars, ListingInv, ListTypeOK
<1> QED
  BY <1>2, <1>3, PageStep, SaveStep DEF ListNext

(* Whatever the filters and the size of a page, however many tasks there   *)
(* are, have equal time stamps or none, appear or move while a client      *)
(* turns the pages: a task nobody saved meanwhile is listed once if it     *)
(* matches, and not at all if it does not.                                 *)
THEOREM ListsAreComplete == ListSpec => []ListInv
<1>1. ListingInv => ListInv
  BY DEF ListingInv, ListInv, UntouchedListedOnce, Passed
<1> QED
  BY ListingInit, ListingStep, <1>1, PTL DEF ListSpec
===============================================================================
