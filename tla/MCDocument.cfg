CONSTANTS
    InitialCapacity = 16
    MaxCapacity = 256
    MaxSnapshots = 2
    MaxProcs = 1
    MaxString = 8
    Exact = 8
    Dumps <- MCDumps
    Limits = {64, 256}
SPECIFICATION Spec
INVARIANTS
    BufferFits
    KeptIsJson
PROPERTY ReadBack
CHECK_DEADLOCK FALSE
