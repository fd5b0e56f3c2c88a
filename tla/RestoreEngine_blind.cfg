\* One banner that KakaoTalk hides and shows itself.
SPECIFICATION MCSpec
CONSTANTS
    Window = {1}
    Pid = {1}
    Parent <- OneParent
    AdKind <- BannerOnly
    KakaoMoves = 2
    RestoreMissThreshold = 2
    RestoreMaxAttempts = 2
    RestoreGiveupCooldownTicks = 2
    TrayMoves = 1
INVARIANT OffBringsBack
