\* The registry in the database: failing writes, restarts that keep it, two
\* callbacks for the same question.
SPECIFICATION Spec
CONSTANTS
    p1 = p1
    q1 = q1
    alice = alice
    bob = bob
    None = None
    Ids <- MCOneId
    Identities <- MCIdentities
    TypeOf <- MCOneType
    AskerOf <- MCOneAsker
    Callers = {c1, c2}
    Copies = {1, 2}
    Backend = "database"
    RequestTTL = 1
    TombstoneTTL = 2
    MaxTime = 4
INVARIANTS
    AnnouncedAreAnswerable
    CallbacksMatchTheAsk
CHECK_DEADLOCK FALSE
