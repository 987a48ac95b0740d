CONSTANTS
    InitialCapacity = 16
    MaxCapacity = 256
    MaxSnapshots = 2
    MaxProcs = 1
    MaxString = 8
    Exact = 8
    Dumps <- MCDumpsFull
    Limits = {64, 256}
SPECIFICATION Spec
PROPERTY ReadBack
CHECK_DEADLOCK FALSE
