SPECIFICATION FairSpec
INVARIANTS
    RepeatsAccounted
    AuditTrail
PROPERTY
    DueIsHandled
CONSTANTS
    t1 = t1
    t2 = t2
    t3 = t3
    Tasks = {t1, t2, t3}
    RemindAts = {1}
    Horizon = 0
    Limit = 2
    MaxTime = 1
    MaxFaults = 2
    MaxPatches = 1
CHECK_DEADLOCK FALSE
