CONSTANTS
    Dump <- MCDump
    Home = {1}
    MaxPending = 2
SPECIFICATION Spec
INVARIANTS
    TypeOK
    PanelsAgree
    DialogIsAboutTheSelection
    PanicFollowsDeletion
PROPERTY LoadingEnds
CHECK_DEADLOCK FALSE
