\* One popup whose handle two KakaoTalk processes own one after the other; three steps
\* of KakaoTalk, one tray command and the stop.  Recovery is not counted.
SPECIFICATION MCFairSpec
CONSTANTS
    Window = {1}
    Pid = {1, 2}
    Parent <- OneParent
    AdKind <- OneAdKind
    KakaoMoves = 3
    RestoreMissThreshold = 2
    RestoreMaxAttempts = 2
    RestoreGiveupCooldownTicks = 2
    TrayMoves = 1
INVARIANTS
    NothingOrphaned
    OffReportsTruth
PROPERTIES
    ImplementsLedger
    OffRestores
    VanishedAdRestored
    StopFinishes
