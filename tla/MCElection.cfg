SPECIFICATION Spec
CONSTANTS
    Numbers = {0, 1}
    AutoReset = TRUE
INVARIANTS
    OneMaster
    SamePhase
PROPERTIES
    Pairs
