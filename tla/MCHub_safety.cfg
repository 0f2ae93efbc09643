SPECIFICATION Spec
CONSTANTS
    Conns = {c1, c2}
    Projects = {}
    SendCap = 2
    BroadcastCap = 1
    MaxMsgs = 4
SYMMETRY ConnSymmetry
INVARIANTS TypeOK NoPanic ClosedIffRemoved DrainNeverBlocks
PROPERTY ImplementsFeed
CHECK_DEADLOCK FALSE
