SPECIFICATION HostSpec
CONSTANTS
    KeysTotal = 4
    LayerCount = 3
    LayerLookup <- MCNested
    MaxActiveLayers = 2
    MaxActiveModifiers = 1
    TapTime = 2
    ModifierFlags <- MCModifierFlags
    Keycodes <- MCKeycodes
    SpecialActions <- MCSpecialActions
    ReportSlots = 2
    NotifyQueue = 2
    ErrOvf = "ERR_OVF"
INVARIANTS
    HoldKeysMasked
    MasksConsistent
    PendingTapUnique
    StackChained
    StacksHeld
    AllReleasedResets
    OneLayerPerPress
    SilencedStaySilent
    HostHoldsPressed
    HostLags
PROPERTIES
    LockedUntilReleased
    TapReported
CHECK_DEADLOCK FALSE
