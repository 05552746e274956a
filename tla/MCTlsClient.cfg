SPECIFICATION FairSpec
INVARIANTS
    Exclusive
    NothingLeaks
    WholeBody
    OwnAnswer
    DoubledByReuseOnly
PROPERTY
    RequestsEnd
CONSTANTS
    p1 = p1
    p2 = p2
    p3 = p3
    date1 = date1
    plain1 = plain1
    h1 = h1
    h2 = h2
    Pooled = {p1, p2, p3}
    Dates = {date1}
    Plains = {plain1}
    Calls <- MCCalls
    Hosts = {h1, h2}
    HostOf <- MCHostOf
    PoolSize = 1
    Cap = 2
    Responses <- MCResponses
    NoReq = NoReq
    NoHost = NoHost
    NoResp = NoResp
CHECK_DEADLOCK FALSE
