CONSTANTS
    App = app
    Overflow = overflow
    Reconnectors = {r1, r2}
    Senders = {m, k}
    Critical = {k}
    QueueMax = 1
    MaxTimes = 2
    MaxDials = 2
    MaxLosses = 1
    MaxCalls = 3
SPECIFICATION Spec
CONSTRAINT Budget
SYMMETRY Symmetric
INVARIANTS
    LossIsAttended
    CriticalNeverQueued
    AcceptedIsAccounted
    OpenMeansUp
    OneDial
CHECK_DEADLOCK FALSE
