SPECIFICATION Spec
CONSTANTS
    MaxFiles = 2
    MaxCount = 1
    MaxAge = 1
    MaxSize = 2
    Policies = {"by_age", "by_count", "by_size"}
    Fold = 1
    Shift = 1
    MaxDumps = 3
    MaxNow = 2
    MaxFaults = 1
INVARIANTS
    FinalsAreWhole
    OrphansAreCounted
    DumpsAreKept
PROPERTIES
    NewestAreSpared
    CleanupConverges
