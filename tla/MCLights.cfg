SPECIFICATION Spec
CONSTANTS
    Static = {"off", "on"}
    Moving = {"pulsate"}
    Wave <- MCWave
    Speed <- MCSpeed
    Full = 7
    Elapsed = {1, 3, 8}
    QueueSize = 2
    MaxSets = 4
INVARIANTS
    TypeOK
    EndsInAnimation
    Ws2812bFrames
PROPERTIES
    Smooth
    FadesEnd
