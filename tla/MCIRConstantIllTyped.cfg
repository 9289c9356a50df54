\* Callers that pass new_struct fewer fields than field types.
CONSTANTS
    Widths <- MCWidths
    Lits <- MCLits
    Lits256 <- MCLits256
    ByteVals <- MCByteVals
    ByteLen <- MCByteLen
    Strings <- MCStrings
    MaxLen = 2
    MaxPool = 4
    MaxValues = 1
    WellTyped = FALSE
SPECIFICATION Spec
INVARIANT UndefNeverEqual
\* A compilation stops building constants, and a failed assert! ends it.
CHECK_DEADLOCK FALSE
