CONSTANTS
    a = a
    b = b
    None = None
    Users <- MCUsers
    Process <- MCProcess
    Time <- MCTime
    Dur = 2
    PageWidth = 2
    Loads <- OneBarLoads
SPECIFICATION LiveSpec
PROPERTIES
    RequestEnds
CHECK_DEADLOCK FALSE
