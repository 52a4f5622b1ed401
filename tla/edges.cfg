\* Requests of every kind made of several deployments; or two executions, one
\* of them streaming, that call two peers through a cache of one client.
CONSTANTS
    e1 = e1
    e2 = e2
    Callers = {e1, e2}
    Urls = {u1, u2}
    MaxSize = 1
    Ttl = 1
    MaxTime = 1
    MaxBorrows = 3
    NoEntry = NoEntry
    Limit <- MCLimit
    Streamers = {e1}
    MaxTurns = 2
    MaxBreaks = 1
    Cases <- MCCases
SPECIFICATION EdgesSpec
INVARIANTS CacheInv InUseIsOpen LoopInv EffectsAreAllowed BodyInv PrivacyInv VersionInv ContractCallsAreServed DocumentsTellTheTruth ClaimsFollowTheCall
CHECK_DEADLOCK FALSE
