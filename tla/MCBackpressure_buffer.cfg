CONSTANTS
    Drainers = {d1, d2}
    Capacity = 2
    BacklogMax = 2
    BatchMax = 2
    MaxItems = 5
    MaxConns = 2
SPECIFICATION FairSpec
INVARIANTS
    NothingStuck
    OneDrainer
    Conserved
    TwoLanes
    FirstLossAnnounced
PROPERTIES
    NeverForgotten
CHECK_DEADLOCK FALSE
