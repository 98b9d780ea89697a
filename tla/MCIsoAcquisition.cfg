SPECIFICATION Spec
CONSTANTS
    None = None
    Image <- MCImage
    Files <- MCFiles
    Commands = {"install", "cd_boot", "fix"}
    MaxChanges = 2
INVARIANTS
    KernelFitsIso
    AcceptedIsOurs
    DistroInLine
    IsoIsFallback
CHECK_DEADLOCK FALSE
