CONSTANTS
    MaxLines = 3
    StartFiles <- MCPlainFiles
    ReloadFiles <- MCReloadFiles
    Absolute <- MCAbsolute
    Climbing = {}
    DefaultDirectory = "/var/lib/spiketrace"
    Unreadable = Unreadable
    None = None
    UInt32 = 1048576
    UInt64 = 1073742848
SPECIFICATION Spec
INVARIANT AssignmentsTakeEffect
