SPECIFICATION LoopSpec
CONSTANTS
    KeysTotal = 4
    LayerCount = 2
    LayerLookup <- MCLoopLookup
    MaxActiveLayers = 2
    MaxActiveModifiers = 2
    TapTime = 1
    ModifierFlags <- MCModifierFlags
    Keycodes <- MCKeycodes
    SpecialActions <- MCSpecialActions
PROPERTIES
    ImplementsMasterState
CHECK_DEADLOCK FALSE
