\* Well-typed callers: every constructor, eq and enum extraction.
CONSTANTS
    Widths <- MCWidths
    Lits <- MCLits
    Lits256 <- MCLits256
    ByteVals <- MCByteVals
    ByteLen <- MCByteLen
    Strings <- MCStrings
    MaxLen = 2
    MaxPool = 4
    MaxValues = 1
    WellTyped = TRUE
SPECIFICATION Spec
INVARIANT TypeOK ShapeInv EqMatchesSpec EnumExtraction
\* A compilation stops building constants, and a failed assert! ends it.
CHECK_DEADLOCK FALSE
