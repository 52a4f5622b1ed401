\* The registry in memory: two questions, one of them from a caller without
\* identity, and the sweeps that bury one question while serving the other.
SPECIFICATION Spec
CONSTANTS
    p1 = p1
    q1 = q1
    alice = alice
    bob = bob
    None = None
    Ids <- MCIds
    Identities <- MCIdentities
    TypeOf <- MCTypeOf
    AskerOf <- MCAskerOf
    Callers = {c1}
    Copies = {1, 2}
    Backend = "memory"
    RequestTTL = 1
    TombstoneTTL = 1
    MaxTime = 3
INVARIANTS
    TombstoneWindow
    AnsweredStayForgotten
PROPERTY
    ResolvedFollowsAsked
CHECK_DEADLOCK FALSE
