SPECIFICATION HostSpec
CONSTANTS
    KeysTotal = 4
    LayerCount = 3
    LayerLookup <- MCButterboard
    MaxActiveLayers = 1
    MaxActiveModifiers = 1
    TapTime = 2
    ModifierFlags <- MCModifierFlags
    Keycodes <- MCKeycodes
    SpecialActions <- MCSpecialActions
    ReportSlots = 1
    NotifyQueue = 2
    ErrOvf = "ERR_OVF"
INVARIANTS
    TypeOK
    NoPanic
    TapFromItsLayer
    TapExecuted
    HostTypeOK
CHECK_DEADLOCK FALSE
