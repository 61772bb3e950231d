SPECIFICATION Spec
CONSTANTS
    h1 = h1
    h2 = h2
    c1 = c1
    c2 = c2
    Handles = {h1, h2}
    Callers = {c1, c2}
    Direct = {h1}
    Targets <- MCTargets
    Schedule <- MCSchedule
    Positions <- MCPositions
    Priority <- MCPriority
    ShfeRules = FALSE
    MaxSplit = 1
    MaxCalls = 2
    MaxMishaps = 1
    MaxOrders = 6

INVARIANTS
    NoOvershoot
    PlanFits
    AllReported
CHECK_DEADLOCK FALSE
PROPERTIES
    FlushCompletes
