SPECIFICATION Spec
CONSTANTS
    Animations = {}
    Count = 2
    Slots <- NoSlots
    Peers = {}
    Size = 1
    First = {"left"}
    MaxActs = 0
    MaxEvents = 2
    MaxDrops = 0
    MaxBusy = 0
INVARIANTS
    StoredIsInUse
    NobodyStuck
CHECK_DEADLOCK FALSE
