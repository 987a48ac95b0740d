SPECIFICATION Spec
CONSTANTS
    Capacity = 3
    Pid = {p1}
    Usage = {0, 1}
    MaxClock = 3
INVARIANTS
    TypeOK
    HeadAgrees
    NewestFirst
PROPERTY
    ImplementsHistory
