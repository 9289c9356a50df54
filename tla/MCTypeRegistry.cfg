\* Nested types up to four slots: two widths, one length, structs of up to
\* two fields.
CONSTANTS
    Widths = {8, 64}
    Lengths = {1}
    MaxLen = 2
    MaxTypes = 4
SPECIFICATION Spec
INVARIANT RegistryTypeOK StructuralInterning
PROPERTY AbsSpec
