SPECIFICATION Spec
CONSTANTS
    Contents <- MCContents
    Other = {"windows", "default"}
    MaxRuns = 3
    None = None
INVARIANTS
    EntryHasItsLoader
    InstalledHasEntry
PROPERTIES
    MenuIsKept
CHECK_DEADLOCK FALSE
