\* A window that is closed and a banner beside it.
SPECIFICATION MCSpec
CONSTANTS
    Window = {1, 2}
    Pid = {1}
    Parent <- PairParent
    AdKind <- PairAdKind
    KakaoMoves = 3
    RestoreMissThreshold = 2
    RestoreMaxAttempts = 2
    RestoreGiveupCooldownTicks = 2
    TrayMoves = 0
INVARIANT GaugeCountsHeldWindows
