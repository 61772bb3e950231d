CONSTANTS
    a = a
    b = b
    None = None
    Users <- MCUsers
    Process <- MCProcess
    Time <- MCTime
    Dur = 2
    PageWidth = 2
    Loads <- MCLoads
SPECIFICATION Spec
INVARIANTS
    CacheIsHonest
    WindowIsWhole
CHECK_DEADLOCK FALSE
