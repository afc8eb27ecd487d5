SPECIFICATION SSpec
CONSTANTS
    KeysPerSide = 2
    DebounceTicks = 2
INVARIANTS
    ChangesReturned
PROPERTIES
    ChangesAreStable
    Settles
