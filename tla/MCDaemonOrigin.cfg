SPECIFICATION Spec
CONSTANTS
    TableSize = 1
    Capacity = 3
    MaxWritten = 2
    MaxNow = 3
    MaxEdits = 1
    Settings <- MCSettings
    Collected <- MCCollected
INVARIANTS
    OriginIsWritten
