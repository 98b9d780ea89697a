SPECIFICATION Spec
CONSTANTS
    Drives <- MCDrives
    FreeSpace <- MCFreeSpace
    MinDisk = 3000
    MaxIso = 4577
    None = none
INVARIANTS
    FitsOnDrive
    OfferedHasRoom
CHECK_DEADLOCK FALSE
