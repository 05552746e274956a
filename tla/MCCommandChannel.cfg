SPECIFICATION ChFairSpec
PROPERTIES
    KeepsPromise
    RowsSettle
CONSTANTS
    c1 = c1
    c2 = c2
    conn = conn
    w1 = w1
    Commands = {c1}
    Conns = {conn}
    Workers = {w1}
    SerialCmds = {c1}
    Unserved = {}
    Forbidden = {}
    MaxTtl = 1
    FutureSkew = 1
    MaxRecords = 2
    MinExpiry = 2
    ApiTtl = {1}
    MaxApiTtl = 1
    MaxTime = 4
    MaxRestarts = 1
    MaxApiRestarts = 1
    None = None
    NoMsg = NoMsg
CHECK_DEADLOCK FALSE
