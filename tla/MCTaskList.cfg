SPECIFICATION FairSpec
CONSTANTS
    root = root
    first = first
    second = second
    inner = inner
    extra = extra
    none = none
    None <- none
    Root <- root
    Task <- MCTask
    Initial <- MCInitial
    Required <- MCRequired
    MaxReports = 1
INVARIANTS
    ActiveOnStack
    CleanRunIsComplete
    FailureReachesRoot
PROPERTIES
    ErrorMovesOutward
    KeepsPromise
    InterfaceIsTold
CHECK_DEADLOCK FALSE
