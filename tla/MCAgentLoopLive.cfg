CONSTANTS
    Kinds <- MCAllWays
    Rounds <- MCSingle
    Backends = {b1}
    MaxIter = 4
    RepeatMax = 3
    LongIds <- MCLong
    MaxCalls = 2
    MaxMsgs = 1
    MaxStops = 1
SPECIFICATION FairSpec
CHECK_DEADLOCK FALSE
INVARIANTS
    NotStuck
PROPERTIES
    MessagesDone
