CONSTANTS
    App = app
    Overflow = overflow
    Reconnectors = {r1, r2}
    Senders = {}
    Critical = {}
    QueueMax = 1
    MaxTimes = 9
    MaxDials = 2
    MaxLosses = 2
    MaxCalls = 1
SPECIFICATION Spec
SYMMETRY Symmetric
INVARIANTS
    AutoReconnect
CHECK_DEADLOCK FALSE
