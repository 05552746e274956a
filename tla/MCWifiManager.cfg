SPECIFICATION FairSpec
INVARIANTS
    SavedWorked
PROPERTIES
    FailedStays
    RetryWaitEnds
    Recovers
CONSTANTS
    home = home
    Ssids = {home}
    NoSsid = NoSsid
    MaxRetries = 2
    BackoffInit = 1
    BackoffMax = 4
    AssocWait = 1
    DhcpWait = 2
    RenewEvery = 2
    MaxElapsed = 4
    MaxCalls = 2
    MaxRestarts = 1
CHECK_DEADLOCK FALSE
