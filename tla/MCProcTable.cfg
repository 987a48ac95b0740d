SPECIFICATION Spec
CONSTANTS
    Pid = {1, 2, 3}
    MaxTracked = 2
    MaxProcs = 2
    MaxSeen = 3
    Whole = 2
    Settings <- MCSettings
    MaxTotal = 2
INVARIANTS
    NewMeansNew
    MeasuredOverOneInterval
PROPERTIES
    BusiestIsKept
