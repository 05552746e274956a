CONSTANTS
    Kinds <- MCKinds
    Rounds <- MCRounds
    Backends = {b1, b2}
    MaxIter = 2
    RepeatMax = 2
    LongIds <- MCLong
    MaxCalls = 2
    MaxMsgs = 2
    MaxStops = 0
SPECIFICATION Spec
CHECK_DEADLOCK FALSE
INVARIANTS
    OneReply
    CallsAnswered
    FreshOutput
    ResourcesKept
    TraceHonest
    CreditsRight
