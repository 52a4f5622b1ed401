------------------------------ MODULE Migrations ------------------------------
(***************************************************************************)
(* The schema of the state store and the processes that bring it up to     *)
(* date when they start: both repositories of a process create what tables *)
(* are missing, then run the migrations the recorded version lacks.        *)
(*                                                                         *)
(* The database is SQLite.  A statement that changes the schema takes      *)
(* effect at once, until the transaction has written a row: from then on   *)
(* the process is the only writer and its changes are a draft, visible to  *)
(* itself, until it commits.  An exception ends the process; a supervisor  *)
(* starts it again.                                                        *)
(***************************************************************************)
EXTENDS Integers, SequencesExt
CONSTANTS Servers,      \* the processes that share the database
          MaxFaults     \* bound: crashes and lock timeouts

ASSUME ServersAssumption == "none" \notin Servers
ASSUME FaultsAssumption == MaxFaults \in Nat

VersionTable == "a2a_schema_version"
Claims == "a2a_pending_session_claims"
InterruptRequests == "a2a_interrupt_requests"
StateTables == <<Claims, InterruptRequests>>

(* What each migration adds, and to which table.                           *)
Migration == <<<<"details_json">>, <<"expires_at">>,
               <<"ix_identity", "ix_identity_type", "ix_tombstone", "ix_claims">>,
               <<"credential_id">>>>
Columns == [t \in ToSet(StateTables) |->
              IF t = Claims THEN {"expires_at"} ELSE {"details_json", "credential_id"}]
Indexes == [t \in ToSet(StateTables) |->
              IF t = Claims THEN <<"ix_claims">>
              ELSE <<"ix_identity", "ix_identity_type", "ix_tombstone">>]
CURRENT == Len(Migration)    \* CURRENT_STATE_STORE_SCHEMA_VERSION

AddedBy(version) == UNION {ToSet(Migration[v]) : v \in 1..version}
SchemaOf(version) == ToSet(StateTables) \cup AddedBy(version)

VARIABLES stored,   \* the committed database: its items and its version, 0 for none
          draft,    \* the same with the changes of the writer
          writer,   \* the process whose transaction has written, or "none"
          phase,       \* process -> where it is in start-up
          plan,     \* process -> tables and indexes create_all still creates
          done,     \* process -> version up to which it has migrated
          todo,     \* process -> items of the migration it runs
          inited,   \* process -> repositories it has initialized
          faults

schemaVars == <<stored, draft, writer, phase, plan, done, todo, inited, faults>>

Stages == {"down", "look", "create", "read", "inspect", "add", "write", "commit",
           "ready", "refused"}

(* Databases a release left behind: none, one from before versions were    *)
(* recorded, one of each version, and one of a later release.              *)
Left == {[items |-> {}, version |-> 0],
         [items |-> SchemaOf(0), version |-> 0]}
        \cup {[items |-> SchemaOf(v) \cup {VersionTable}, version |-> v] : v \in 1..CURRENT}
        \cup {[items |-> SchemaOf(CURRENT) \cup {VersionTable}, version |-> CURRENT + 1]}

SchemaInit ==
    /\ stored \in Left /\ draft = stored /\ writer = "none"
    /\ phase = [p \in Servers |-> "down"]
    /\ plan = [p \in Servers |-> <<>>] /\ todo = [p \in Servers |-> <<>>]
    /\ done = [p \in Servers |-> 0] /\ inited = [p \in Servers |-> 0]
    /\ faults = 0

-------------------------------------------------------------------------------
View(p) == IF writer = p THEN draft ELSE stored

(* A transaction without rows writes what it changes at once.              *)
Has(p, items) == items \subseteq View(p).items
Adds(p, items) ==
    IF writer = p
    THEN draft' = [draft EXCEPT !.items = @ \cup items] /\ UNCHANGED stored
    ELSE /\ stored' = [stored EXCEPT !.items = @ \cup items]
         /\ draft' = stored'

MayWrite(p) == writer \in {"none", p}
To(p, stage) == phase' = [phase EXCEPT ![p] = stage]

(* The process is gone and with it what it has not committed.              *)
Exits(p) ==
    /\ To(p, "down")
    /\ writer' = IF writer = p THEN "none" ELSE writer
    /\ draft' = IF writer = p THEN stored ELSE draft
    /\ UNCHANGED <<stored, plan, done, todo, inited>>

Start(p) ==
    /\ phase[p] = "down"
    /\ To(p, "look") /\ inited' = [inited EXCEPT ![p] = 0]
    /\ UNCHANGED <<stored, draft, writer, plan, done, todo, faults>>

(* create_all looks for missing tables, then creates them.                 *)
LookForTables(p) ==
    LET Unless(t, items) == IF Has(p, {t}) THEN <<>> ELSE items
        WithIndexes(t) == Unless(t, <<t>> \o Indexes[t])
    IN  /\ phase[p] = "look"
        /\ plan' = [plan EXCEPT ![p] =
                      Unless(VersionTable, <<VersionTable>>)
                      \o WithIndexes(Claims) \o WithIndexes(InterruptRequests)]
        /\ To(p, "create")
        /\ UNCHANGED <<stored, draft, writer, done, todo, inited, faults>>

(* A new table has all its columns.  What exists by now is an error.       *)
CreateNext(p) ==
    LET item == Head(plan[p])
    IN  /\ phase[p] = "create" /\ plan[p] # <<>> /\ MayWrite(p)
        /\ \/ Has(p, {item}) /\ Exits(p)
           \/ /\ ~Has(p, {item})
              /\ Adds(p, {item} \cup IF item \in DOMAIN Columns THEN Columns[item] ELSE {})
              /\ plan' = [plan EXCEPT ![p] = Tail(@)]
              /\ UNCHANGED <<writer, phase, done, todo, inited>>
        /\ UNCHANGED faults

(* mutant: a database without a version is taken to be new *)
StartingAtCurrent(version) == IF version = 0 THEN CURRENT - 1 ELSE version

StartingVersion(version) == version

Migrates(p, version) ==
    IF version = CURRENT
    THEN To(p, "commit") /\ UNCHANGED todo
    ELSE To(p, "inspect") /\ todo' = [todo EXCEPT ![p] = Migration[version + 1]]

(* The schema of a later release is left alone.                            *)
ReadVersion(p) ==
    /\ phase[p] = "create" /\ plan[p] = <<>>
    /\ \/ View(p).version > CURRENT /\ To(p, "refused") /\ UNCHANGED <<done, todo>>
       \/ /\ View(p).version <= CURRENT
          /\ done' = [done EXCEPT ![p] = StartingVersion(View(p).version)]
          /\ Migrates(p, StartingVersion(View(p).version))
    /\ UNCHANGED <<stored, draft, writer, plan, inited, faults>>

(* mutant: an item is added without looking for it *)
InspectNothing(p) ==
    /\ phase[p] = "inspect"
    /\ \/ todo[p] = <<>> /\ To(p, "write")
       \/ todo[p] # <<>> /\ To(p, "add")
    /\ UNCHANGED <<stored, draft, writer, plan, done, todo, inited, faults>>

(* A migration looks for a column or an index and adds it if it is missing. *)
InspectNext(p) ==
    /\ phase[p] = "inspect"
    /\ \/ todo[p] = <<>> /\ To(p, "write") /\ UNCHANGED todo
       \/ /\ todo[p] # <<>> /\ Has(p, {Head(todo[p])})
          /\ todo' = [todo EXCEPT ![p] = Tail(@)] /\ UNCHANGED phase
       \/ todo[p] # <<>> /\ ~Has(p, {Head(todo[p])}) /\ To(p, "add") /\ UNCHANGED todo
    /\ UNCHANGED <<stored, draft, writer, plan, done, inited, faults>>

AddItem(p) ==
    LET item == Head(todo[p])
    IN  /\ phase[p] = "add" /\ MayWrite(p)
        /\ \/ Has(p, {item}) /\ Exits(p)
           \/ /\ ~Has(p, {item})
              /\ Adds(p, {item}) /\ To(p, "inspect")
              /\ todo' = [todo EXCEPT ![p] = Tail(@)]
              /\ UNCHANGED <<writer, plan, done, inited>>
        /\ UNCHANGED faults

(* mutant: every migration is a transaction of its own *)
WriteAndCommit(p) ==
    /\ phase[p] = "write" /\ MayWrite(p)
    /\ writer' = "none"
    /\ stored' = [View(p) EXCEPT !.version = done[p] + 1] /\ draft' = stored'
    /\ done' = [done EXCEPT ![p] = @ + 1]
    /\ Migrates(p, done[p] + 1)
    /\ UNCHANGED <<plan, inited, faults>>

(* The version is recorded after its migration, be it by an update or by   *)
(* an insert that turns into an update: the row is written, whatever it    *)
(* held, and the transaction is the writer from here on.                   *)
WriteVersion(p) ==
    /\ phase[p] = "write" /\ MayWrite(p)
    /\ writer' = p
    /\ draft' = [View(p) EXCEPT !.version = done[p] + 1]
    /\ done' = [done EXCEPT ![p] = @ + 1]
    /\ Migrates(p, done[p] + 1)
    /\ UNCHANGED <<stored, plan, inited, faults>>

(* The repository is initialized; the next one starts over.                *)
Commit(p) ==
    /\ phase[p] = "commit"
    /\ stored' = View(p) /\ UNCHANGED draft
    /\ writer' = IF writer = p THEN "none" ELSE writer
    /\ inited' = [inited EXCEPT ![p] = @ + 1]
    /\ To(p, IF inited[p] = 0 THEN "look" ELSE "ready")
    /\ UNCHANGED <<plan, done, todo, faults>>

(* A statement that finds another writer waits, for a while.               *)
LockTimesOut(p) ==
    /\ phase[p] \in {"create", "add", "write"} /\ ~MayWrite(p)
    /\ faults < MaxFaults /\ faults' = faults + 1
    /\ Exits(p)

Crash(p) ==
    /\ phase[p] \notin {"down", "refused"}
    /\ faults < MaxFaults /\ faults' = faults + 1
    /\ Exits(p)

Starts(p) == \/ Start(p) \/ LookForTables(p) \/ CreateNext(p) \/ ReadVersion(p)
             \/ InspectNext(p) \/ AddItem(p) \/ WriteVersion(p) \/ Commit(p)
SchemaNext == \E p \in Servers : Starts(p) \/ LockTimesOut(p) \/ Crash(p)

SchemaFairness == \A p \in Servers : WF_schemaVars(Starts(p))
SchemaSpec == SchemaInit /\ [][SchemaNext]_schemaVars /\ SchemaFairness

-------------------------------------------------------------------------------
Database == [items : SUBSET (SchemaOf(CURRENT) \cup {VersionTable}), version : 0..CURRENT + 1]

SchemaTypeOK ==
    /\ stored \in Database /\ draft \in Database
    /\ writer \in Servers \cup {"none"}
    /\ phase \in [Servers -> Stages]
    /\ plan \in [Servers -> Seq(SchemaOf(CURRENT) \cup {VersionTable})]
    /\ todo \in [Servers -> Seq(AddedBy(CURRENT))]
    /\ done \in [Servers -> 0..CURRENT] /\ inited \in [Servers -> 0..2]
    /\ faults \in 0..MaxFaults

(* The committed version never promises more than the schema holds,        *)
(* whichever processes started at once, failed or crashed on the way.      *)
VersionImpliesSchema ==
    stored.version # 0 =>
       SchemaOf(Min({stored.version, CURRENT})) \subseteq stored.items

(* A process that serves has the schema of this release under it.          *)
ReadyImpliesComplete ==
    \A p \in Servers : phase[p] = "ready" =>
       /\ stored.version = CURRENT
       /\ SchemaOf(CURRENT) \subseteq stored.items

(* Types, and a schema that is as declared at every moment of a start.     *)
SchemaInv == SchemaTypeOK /\ VersionImpliesSchema /\ ReadyImpliesComplete

(* A process that read the version too early writes the old ones again, in *)
(* one transaction: nobody sees the recorded version fall, and that of a   *)
(* later release is never written over.                                    *)
VersionNeverFalls ==
    [][/\ stored'.version >= stored.version
       /\ stored.version > CURRENT => UNCHANGED stored]_schemaVars

(* However the starts of the processes collide, with an error of one each  *)
(* time, restarting gets every process ready, unless the database is that  *)
(* of a later release.                                                     *)
EveryServerStarts == \A p \in Servers : <>(phase[p] \in {"ready", "refused"})
===============================================================================
