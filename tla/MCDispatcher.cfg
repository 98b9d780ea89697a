SPECIFICATION Spec
CONSTANTS
    MaxDepth = 5
    None = None
INVARIANTS
    ListsAreAskedFor
    OneOfEach
    InstallsOnlyIfClean
PROPERTIES
    NothingStartsAfterQuit
    StopUnwinds
    QuitEnds
CHECK_DEADLOCK FALSE
