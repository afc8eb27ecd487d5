SPECIFICATION Spec
CONSTANTS
    Animations = {}
    Count = 2
    Slots <- MCSlots
    Peers = {"p1", "p2"}
    Size = 1
    First = {"left"}
    MaxActs = 6
    MaxEvents = 0
    MaxDrops = 1
    MaxBusy = 1
INVARIANTS
    TypeOK
    HalvesAgree
PROPERTIES
    BondsAreKept
CHECK_DEADLOCK FALSE
