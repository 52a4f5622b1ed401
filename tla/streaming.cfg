\* Parts of every kind in two turns, in every style, with a break of the stream.
CONSTANTS
    None = None
    Order <- MCOrder
    Echoes <- MCEchoes
    BlockOf <- MCBlockOf
    RoleOf <- MCRoleOf
    TurnOf <- MCTurnOf
    Casts <- MCCasts
    ChunksOf <- MCChunksOf
    LateParts = {"why"}
    UserText <- MCUserText
    MaxBreaks = 1
SPECIFICATION StreamSpec
INVARIANTS OutputInv CompletedIsWhole NoNeedlessSnapshot SignalIsToCome
PROPERTIES CompletedIsLast
CHECK_DEADLOCK FALSE
