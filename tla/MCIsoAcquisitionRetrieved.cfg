SPECIFICATION Spec
CONSTANTS
    None = None
    Image <- MCImage
    Files <- MCFiles
    Commands = {"install", "cd_boot", "fix"}
    MaxChanges = 2
INVARIANT RetrievedIfThere
CHECK_DEADLOCK FALSE
