\* Three coroutines save one task, under a lock or by guarded upserts of two
\* instances; or two processes start at once on any database, with two faults;
\* or a client lists three tasks while two are saved.
CONSTANTS
    w1 = w1
    w2 = w2
    w3 = w3
    i1 = i1
    i2 = i2
    b1 = b1
    b2 = b2
    t1 = t1
    None = None
    Tasks = {t1}
    Bodies = {b1, b2}
    States = {"working", "completed", "rejected"}
    Writers = {w1, w2, w3}
    Instances = {i1, i2}
    Servers = {p, q}
    MaxFaults = 2
    TaskIds = {1, 2, 3}
    TaskStates = {working, completed}
    Contexts = {c, d}
    StateFilters = {AnyValue, completed}
    ContextFilters = {AnyValue, c}
    PageSizes = {1, 2}
    MaxTime = 2
    MaxSaves = 2
    NoTask = NoTask
    AnyValue = AnyValue
SPECIFICATION DatabaseSpec
INVARIANTS StoreInv SchemaInv ListInv
PROPERTIES SavesSettle ImplementsRegister VersionNeverFalls SchemaGetsReady
CHECK_DEADLOCK FALSE
