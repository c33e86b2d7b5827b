CONSTANTS
    Images <- MCImages
    TableSize = 3
    StackDepth = 3
SPECIFICATION Spec
INVARIANTS TypeOK GraphsSurvive FilesAccepted AbortHasCause DamageIsMissingOperand
CHECK_DEADLOCK FALSE
