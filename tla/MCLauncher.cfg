SPECIFICATION Spec
CONSTANTS
    Archives <- MCArchives
    Damages <- MCDamages
    Dotted <- MCDotted
INVARIANTS
    HeaderIsUnderstood
    DirectoriesAreThere
    PythonHasItsFiles
    LeftoverOnlyIfHindered
PROPERTIES
    OnlyTargetIsDeleted
    DeletionEnds
CHECK_DEADLOCK FALSE
