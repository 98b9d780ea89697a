SPECIFICATION Spec
CONSTANTS
    Size = 9
    Clear = 3
    FreeSpace = 16
INVARIANTS
    ClosedIsWhole
PROPERTY LengthMeansEnd
CHECK_DEADLOCK FALSE
