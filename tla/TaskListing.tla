------------------------------ MODULE TaskListing ------------------------------
(***************************************************************************)
(* GET /v1/tasks: a client reads the list of tasks page by page while      *)
(* executions create tasks and change their states.  The list is sorted by *)
(* the time stamp of the status, the newest first, and then by id; a page  *)
(* token names the last task of the page by these two.  Parsing of the     *)
(* query and serialization of a task are left out.                         *)
(***************************************************************************)
EXTENDS Integers, FiniteSets
CONSTANTS TaskIds,      \* natural numbers: ids are compared
          TaskStates, Contexts,
          StateFilters, ContextFilters, PageSizes,   \* what a query asks for
          MaxTime,      \* bound of the clock
          MaxSaves,     \* bound: tasks saved while the client lists
          NoTask, AnyValue

ASSUME TaskIdsAssumption == TaskIds \subseteq Nat /\ IsFiniteSet(TaskIds)
ASSUME PageAssumption == PageSizes \subseteq Nat \ {0}
ASSUME ListBoundsAssumption == MaxTime \in Nat \ {0} /\ MaxSaves \in Nat

NoStamp == 0   \* datetime.min, of a status without a time stamp or a bad one

VARIABLES now, tasks,    \* the clock; id -> task or NoTask
          saves,
          query,         \* what the client asked for on the first page
          cursor,        \* the page token: a sort key; <<>>: none yet
          listed,        \* id -> how often the client received it
          listing,       \* "idle", "open" or "done"
          touched        \* tasks saved since the listing was opened

listVars == <<now, tasks, saves, query, cursor, listed, listing, touched>>

Task == [state : TaskStates, context : Contexts, stamp : 0..MaxTime]
Queries == [state : StateFilters, context : ContextFilters, after : {NoStamp, 1},
            size : PageSizes]

ListInit ==
    /\ now = 1
    /\ tasks \in [TaskIds -> {NoTask} \cup [state : TaskStates, context : Contexts,
                                            stamp : {NoStamp, 1}]]
    /\ saves = 0
    /\ query \in Queries
    /\ cursor = <<>> /\ listed = [t \in TaskIds |-> 0] /\ listing = "idle" /\ touched = {}

-------------------------------------------------------------------------------
SortKey(t) == <<tasks[t].stamp, t>>

KeyLess(k, l) == k[1] < l[1] \/ (k[1] = l[1] /\ k[2] < l[2])

Matches(t) ==
    /\ tasks[t] # NoTask
    /\ query.context \in {AnyValue, tasks[t].context}
    /\ query.state \in {AnyValue, tasks[t].state}
    /\ tasks[t].stamp >= query.after

FilteredTasks == {t \in TaskIds : Matches(t)}

(* mutant: the page begins with the last task of the one before *)
FromCursor == {t \in FilteredTasks : cursor = <<>> \/ ~KeyLess(cursor, SortKey(t))}

(* _apply_cursor                                                           *)
AfterCursor == {t \in FilteredTasks : cursor = <<>> \/ KeyLess(SortKey(t), cursor)}

(* One request: it reads the store and answers with the newest tasks after *)
(* the cursor, as many as a page holds.  The token is empty when nothing   *)
(* is left.                                                                *)
ListPage ==
    LET after == AfterCursor
        page  == {t \in after :
                    Cardinality({u \in after : KeyLess(SortKey(t), SortKey(u))}) < query.size}
        last  == CHOOSE t \in page : \A u \in page : ~KeyLess(SortKey(u), SortKey(t))
    IN  /\ listing # "done"
        /\ listed' = [t \in TaskIds |-> listed[t] + IF t \in page THEN 1 ELSE 0]
        /\ \/ after # page /\ cursor' = SortKey(last) /\ listing' = "open"
           \/ after = page /\ cursor' = <<>> /\ listing' = "done"
        /\ UNCHANGED <<now, tasks, saves, query, touched>>

(* An execution saves a task: it creates it, gives it a new state, or      *)
(* changes something else.  A status may have no time stamp.  (What is saved *)
(* before the first page is in ListInit.)                                  *)
SaveTask(t) ==
    /\ listing = "open"
    /\ saves < MaxSaves /\ saves' = saves + 1
    /\ \E s \in TaskStates, stamp \in {NoStamp, now} :
          \/ /\ tasks[t] = NoTask
             /\ \E c \in Contexts :
                   tasks' = [tasks EXCEPT ![t] = [state |-> s, context |-> c, stamp |-> stamp]]
          \/ /\ tasks[t] # NoTask
             /\ tasks' = [tasks EXCEPT ![t].state = s, ![t].stamp = stamp]
    /\ touched' = touched \cup {t}
    /\ UNCHANGED <<now, query, cursor, listed, listing>>

Tick == /\ now < MaxTime /\ now' = now + 1
        /\ UNCHANGED <<tasks, saves, query, cursor, listed, listing, touched>>

ListNext == ListPage \/ Tick \/ \E t \in TaskIds : SaveTask(t)

ListSpec == ListInit /\ [][ListNext]_listVars

-------------------------------------------------------------------------------
ListTypeOK ==
    /\ now \in 1..MaxTime /\ saves \in 0..MaxSaves
    /\ tasks \in [TaskIds -> Task \cup {NoTask}]
    /\ query \in Queries
    /\ cursor = <<>> \/ cursor \in (0..MaxTime) \X TaskIds
    /\ listed \in [TaskIds -> Nat] /\ touched \subseteq TaskIds
    /\ listing \in {"idle", "open", "done"}

(* Whatever other tasks appear or move while a client turns the pages, a   *)
(* task nobody saved meanwhile is listed once, if it matches, and not at   *)
(* all if it does not.                                                     *)
UntouchedListedOnce ==
    \A t \in TaskIds \ touched :
       /\ listed[t] <= 1
       /\ listed[t] = 1 => Matches(t)
       /\ listing = "done" /\ Matches(t) => listed[t] = 1

(* Types, and a list that is complete and without repetition.              *)
ListInv == ListTypeOK /\ UntouchedListedOnce
===============================================================================
