SPECIFICATION FairSpec
PROPERTY
    ClaimedIsAnswered
CONSTANTS
    c1 = c1
    c2 = c2
    c3 = c3
    cloud = cloud
    local = local
    w1 = w1
    w2 = w2
    Commands = {c1, c2, c3}
    Conns = {cloud, local}
    Workers = {w1, w2}
    SerialCmds = {c1, c2}
    Unserved = {c3}
    Forbidden = {}
    MaxTtl = 1
    FutureSkew = 0
    MaxRecords = 3
    MinExpiry = 1
    SentTs = {0}
    SentTtl = {1}
    MaxTime = 2
    MaxRestarts = 0
    NoMsg = NoMsg
CHECK_DEADLOCK FALSE
