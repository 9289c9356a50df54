\* get_undef of an enum-shaped type reaches the None the comment calls unreachable.
CONSTANTS
    Widths <- MCWidths
    Lits <- MCLits
    Lits256 <- MCLits256
    ByteVals <- MCByteVals
    ByteLen <- MCByteLen
    Strings <- MCStrings
    MaxLen = 2
    MaxPool = 4
    MaxValues = 1
    WellTyped = TRUE
SPECIFICATION Spec
INVARIANT EnumNeverNone
\* A compilation stops building constants, and a failed assert! ends it.
CHECK_DEADLOCK FALSE
