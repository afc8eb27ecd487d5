SPECIFICATION Spec
CONSTANTS
    Slots = {0}
    Bits = {1, 2}
    AddressBits = {1}
    ChannelSize = 1
INVARIANTS
    FlagsSuffice
    NoMixture
PROPERTIES
    QuietlySaved
