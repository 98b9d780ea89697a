SPECIFICATION Spec
CONSTANTS
    Drives <- MCDrives
    System = "c"
    Bootloaders = {"xp", "vista"}
    Commands = {"install", "cd_boot", "uninstall"}
    MaxRuns = 3
    None = none
    Refused = refused
INVARIANTS
    InstalledIsComplete
    UninstalledIsGone
    MenuIsLive
    FixIsOfferedAgain
    FixedFromInstaller
PROPERTY InstallsOnCleanDrives
CHECK_DEADLOCK FALSE
