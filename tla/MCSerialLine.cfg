SPECIFICATION FairSpec
INVARIANTS
    PunctualLedDone
    NothingLeftOver
    QuietLed
PROPERTY
    EveryWorkerReports
CONSTANTS
    on1 = on1
    off1 = off1
    info1 = info1
    OnCmds = {on1}
    OffCmds = {off1}
    InfoCmds = {info1}
    BusDepth = 1
    NoCmd = NoCmd
CHECK_DEADLOCK FALSE
