SPECIFICATION HostSpec
CONSTANTS
    KeysTotal = 4
    LayerCount = 2
    LayerLookup <- MCHostLookup
    MaxActiveLayers = 2
    MaxActiveModifiers = 2
    TapTime = 1
    ModifierFlags <- MCModifierFlags
    Keycodes <- MCKeycodes
    SpecialActions <- MCSpecialActions
    ReportSlots = 2
    NotifyQueue = 3
    ErrOvf = "ERR_OVF"
INVARIANTS
    HostCurrent
CHECK_DEADLOCK FALSE
