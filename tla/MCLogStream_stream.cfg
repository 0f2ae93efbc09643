SPECIFICATION FairSpec
CONSTANTS
    ChanCap = 2
    MaxChunks = 4
INVARIANTS TypeOK SentInOrder StderrIsComplete TTYIsComplete
PROPERTIES ChannelsAreClosed NobodyStaysBehind
CHECK_DEADLOCK FALSE
