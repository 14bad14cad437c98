CONSTANTS
    Max = 16
    Window = 8
    Lifetime = 15
SPECIFICATION Spec
INVARIANTS
    TypeOK
    DistanceCounts
    BehindIffAhead
PROPERTY OneAtATime
