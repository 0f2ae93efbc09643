SPECIFICATION Spec
CONSTANTS
    ChanCap = 1
    MaxChunks = 2
INVARIANTS StreamIsComplete
CHECK_DEADLOCK FALSE
