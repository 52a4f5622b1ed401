------------------------------ MODULE MCDatabase ------------------------------
(* What the service keeps in its database, checked in one run: the saves of  *)
(* a task (TaskStore), the schema they need (Migrations) and the list of     *)
(* tasks a client pages through (TaskListing).  The three share nothing, so  *)
(* a behaviour is one of one of them, while the others stand still.          *)
EXTENDS TaskStore, Migrations, TaskListing

CONSTANTS w1, w2, w3, i1, i2, b1, b2, t1
VARIABLE part

Unsaved ==
    /\ guard = "locked"
    /\ home = [w \in Writers |-> i1]
    /\ target = [w \in Writers |-> t1]
    /\ incoming = [w \in Writers |-> CHOOSE s \in Snapshots : TRUE]
Empty == stored = [items |-> {}, version |-> 0]
Unlisted ==
    /\ query = CHOOSE q \in Queries : TRUE
    /\ tasks = [t \in TaskIds |-> NoTask]

DatabaseInit ==
    /\ \/ part = "store" /\ Empty /\ Unlisted
       \/ part = "schema" /\ Unsaved /\ Unlisted
       \/ part = "list" /\ Unsaved /\ Empty
    /\ Init /\ SchemaInit /\ ListInit

DatabaseNext ==
    \/ part = "store" /\ Next /\ UNCHANGED <<part, schemaVars, listVars>>
    \/ part = "schema" /\ SchemaNext /\ UNCHANGED <<part, storeVars, listVars>>
    \/ part = "list" /\ ListNext /\ UNCHANGED <<part, storeVars, schemaVars>>

DatabaseSpec ==
    /\ DatabaseInit
    /\ [][DatabaseNext]_<<part, storeVars, schemaVars, listVars>>
    /\ \A p \in Servers : WF_schemaVars(part = "schema" /\ Starts(p))

SchemaGetsReady == part = "schema" => EveryServerStarts
===============================================================================
