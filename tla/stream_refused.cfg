\* Two executions and a stream budget of one: the second stream is refused.
CONSTANTS
    e1 = e1
    e2 = e2
    Callers = {e1, e2}
    Urls = {u1}
    MaxSize = 1
    Ttl = 1
    MaxTime = 0
    MaxBorrows = 1
    NoEntry = NoEntry
    Limit <- MCLimit
    Streamers = {e1, e2}
    MaxTurns = 1
    MaxBreaks = 0
SPECIFICATION LoopSpec
PROPERTIES RefusedStreamsEnd
CHECK_DEADLOCK FALSE
