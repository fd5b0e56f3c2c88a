\* A popup with a banner inside it; two spontaneous steps of KakaoTalk, one tray command
\* besides the stop.  The retry constants are small so that the long pause is reached.
SPECIFICATION MCSpec
CONSTANTS
    Window = {1, 2}
    Pid = {1}
    Parent <- MCParent
    AdKind <- MCAdKind
    KakaoMoves = 2
    RestoreMissThreshold = 2
    RestoreMaxAttempts = 2
    RestoreGiveupCooldownTicks = 2
    TrayMoves = 1
INVARIANTS
    TypeOK
    NothingOrphaned
    LateSuppression
    NoFlicker
    HealthyFirst
    GaugeCoversStuck
PROPERTY ImplementsLedger
