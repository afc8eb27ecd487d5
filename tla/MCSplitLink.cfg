SPECIFICATION LinkSpec
CONSTANTS
    none = none
    one = one
    two = two
    KeyStates <- MCKeyStates
    NoKeys = none
    None = None
INVARIANTS
    AppliedLatest
    KnownUnlessLost
PROPERTIES
    SlaveHeard
