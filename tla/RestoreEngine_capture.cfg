\* One banner whose window hangs for a moment.
SPECIFICATION MCSpec
CONSTANTS
    Window = {1}
    Pid = {1}
    Parent <- OneParent
    AdKind <- BannerOnly
    KakaoMoves = 1
    RestoreMissThreshold = 2
    RestoreMaxAttempts = 2
    RestoreGiveupCooldownTicks = 2
    TrayMoves = 0
INVARIANT HideNeedsSnapshot
