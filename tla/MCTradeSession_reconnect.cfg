CONSTANTS
    Symbols = {a}
    MaxConns = 2
    MaxLosses = 1
    MaxCalls = 2
    MaxTrades = 1
SPECIFICATION FairSpec
INVARIANTS
    ReadyAfterReconnect
    PositionsCurrent
PROPERTIES
    BecomesReady
CHECK_DEADLOCK FALSE
