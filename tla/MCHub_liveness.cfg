SPECIFICATION FairSpec
CONSTANTS
    Conns = {c1}
    Projects = {p1}
    SendCap = 1
    BroadcastCap = 1
    MaxMsgs = 3
PROPERTIES LostPeerIsReleased ClosedQueueEndsWriter QueuedIsWritten
CHECK_DEADLOCK FALSE
