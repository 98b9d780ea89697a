SPECIFICATION RSpec
CONSTANTS
    root = root
    first = first
    second = second
    inner = inner
    none = none
    None <- none
    Root <- root
    Task <- MCTask
    Initial <- MCInitial
    Required <- MCRequired
    MaxReports = 1
INVARIANTS
    ReturnMeansDone
    StopNotLost
PROPERTIES
    NoStrayStop
    LoopEnds
    QuitEnds
CHECK_DEADLOCK FALSE
