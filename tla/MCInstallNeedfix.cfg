SPECIFICATION Spec
CONSTANTS
    Drives <- MCDrives
    System = "c"
    Bootloaders = {"xp"}
    Commands = {"install", "cd_boot", "uninstall"}
    MaxRuns = 3
    None = none
    Refused = refused
INVARIANT InstalledNeedsNoFix
CHECK_DEADLOCK FALSE
