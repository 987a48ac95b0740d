CONSTANTS
    MaxLines = 3
    StartFiles <- MCStartFiles
    ReloadFiles <- MCReloadFiles
    Absolute <- MCAbsolute
    Climbing = {"/data/../etc"}
    DefaultDirectory = "/var/lib/spiketrace"
    Unreadable = Unreadable
    None = None
    UInt32 = 1048576
    UInt64 = 1073742848
SPECIFICATION Spec
INVARIANT TypeOK
INVARIANT ActiveIsValid
INVARIANT CleanupWhereWritten
INVARIANT SecondLexemeCounts
PROPERTY LoadEnds
