SPECIFICATION DetectorSpec
CONSTANTS
    TableSize = 2
    MaxClock = 6
    Config <- MCConfig
    Inputs <- MCInputs
INVARIANTS
    TypeOK
    KeysDistinct
    QuietAreHeld
PROPERTIES
    ReportsSpaced
    WorstIsReported
    BaselineFollows
    MemorySpaced
    OnlyOutrankedAreLost
\* the clock is bounded
CHECK_DEADLOCK FALSE
