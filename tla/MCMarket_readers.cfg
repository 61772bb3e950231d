CONSTANTS
    none = none
    handler = handler
    trade = trade
    status = status
    w1 = w1
    w2 = w2
    u1 = u1
    u2 = u2
    u3 = u3
    Handler = handler
    Others = {trade, status}
    Loads <- SomeLoads
    Watchers = {w1, w2}
    WatchOf <- Watches
    BoxSize = 1
    MaxFulls = 2
    Users = {u1, u2, u3}
    On <- WaitsOn
    Retained = 2
SPECIFICATION Spec
INVARIANTS
    SeriesCurrent
    WatchersTold
    NewsArrives
CHECK_DEADLOCK FALSE
