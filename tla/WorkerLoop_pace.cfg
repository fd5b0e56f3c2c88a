\* The worker may have ended.
CHECK_DEADLOCK FALSE
SPECIFICATION FairSpec
CONSTANTS
    Pid = {1, 2}
    Capacity = 1
    Changes = 3
    LowLatency = FALSE
    ScanBase = 1
    ScanLow = 2
    ScanAlive = 4
    AbsentAfter = 2
    AbsentScan = 2
    AbsentWait = 1
    Burst = 1
    BurstRounds = 1
    Poll = 1
    Idle = 2
    IdleMax = 3
    Rewind = 2
    ActiveWindow = 2
    QuietBefore = 2
    MostDoublings = 16
    RetryDoublings = 1
    PanicLimit = 2
    PanicPause = 4
    OffWait = 2
INVARIANTS TypeOK NoSleepOnNews SeenInTime FoundInTime
PROPERTIES HookReturns
