\* Calls of callers that interleave, connections that break, resends beside the
\* queue.
SPECIFICATION ResyncSpec
CONSTANTS
    s1 = s1
    s2 = s2
    x1 = x1
    x2 = x2
    c1 = c1
    c2 = c2
    None = None
    Subs = {s1, s2}
    Symbols = {x1, x2}
    Callers = {c1, c2}
    Loads <- MCLoads
    QueueMax = 2
\* Every caller makes a bounded number of calls.
CHECK_DEADLOCK FALSE
SYMMETRY MCSymmetry
 
INVARIANT IntentRecorded
 
