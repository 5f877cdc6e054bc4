SPECIFICATION Spec
CONSTANTS
    NoName = NoName
    MaxNodes = 14
    MaxProgramNodes = 3
    Names <- MCNames
    Fold <- MCFold
INVARIANT TreesAreSound
INVARIANT TokenClean
INVARIANT TokenSigned
CHECK_DEADLOCK FALSE
