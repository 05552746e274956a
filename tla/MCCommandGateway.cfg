SPECIFICATION Spec
INVARIANTS
    AtMostOnce
    DoneWasAttempted
PROPERTY
    StatusAdvances
SYMMETRY Interchangeable
CONSTANTS
    c1 = c1
    c2 = c2
    c3 = c3
    cloud = cloud
    local = local
    w1 = w1
    w2 = w2
    Commands = {c1, c2}
    Conns = {cloud, local}
    Workers = {w1, w2}
    SerialCmds = {c1}
    Unserved = {}
    Forbidden = {}
    MaxTtl = 1
    FutureSkew = 1
    MaxRecords = 1
    MinExpiry = 2
    SentTs = {1}
    SentTtl = {1}
    MaxTime = 3
    MaxRestarts = 1
    NoMsg = NoMsg
CHECK_DEADLOCK FALSE
