SPECIFICATION Spec
CONSTANTS
    Window = {1, 2, 3, 4, 5, 6, 7, 8, 9, 10}
    Class <- MCClass
    Parent <- MCParent
    Owner <- MCOwner
    LookDepth = 2
    PopupDepth = 1
    ConfirmTicks = 2
    TokenlessBanner = FALSE
    CloseNeedsSignal = TRUE
    HostNeedsEmptyText = TRUE
    CanSay <- MCCanSay
    CanLie <- MCCanLie
    FirstText <- MCFirstText
    FirstPlace <- MCFirstPlace
    Changes = 2
INVARIANTS
    TypeOK
    PreviewAgrees
PROPERTIES
    ConfirmedExactly
    HiddenStaysMatched
    MainUntouched
