SPECIFICATION PreemptSpec
CONSTANTS
    Size = 4
    M = 9
    MaxIsr <- OneEach
INVARIANTS
    InOrder
    CapacityKept
