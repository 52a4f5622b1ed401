\* One task: its message request, two cancels and a subscriber; two events, one fault.
CONSTANTS
    t1 = t1
    b1 = b1
    run = run
    c1 = c1
    c2 = c2
    s1 = s1
    None = None
    Tasks = {t1}
    Bodies = {b1}
    States = {"submitted", "working", "auth_required", "completed", "canceled", "failed", "rejected"}
    Task = t1
    Body = b1
    Runner = run
    Cancels = {c1, c2}
    Subscribers = {s1}
    MaxEvents = 2
    MaxFaults = 1
SPECIFICATION FairSpec
INVARIANTS ServiceInv UndisturbedTasksSettle
PROPERTIES EveryCallEnds
CHECK_DEADLOCK FALSE
