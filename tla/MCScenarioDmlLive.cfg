\* Overlay mode: other sessions change the base between statements.
SPECIFICATION Spec
CONSTANTS
    Key = {k1, k2}
    Val = {v1, v2}
    Null = Null
    MaxRows = 3
    MergeRows = 3
    LiveBase = TRUE
    KeyIndex = TRUE
SYMMETRY Symmetry
INVARIANTS
    NoInternalError
    DuplicatesAreReal
PROPERTIES
    StatementEffect
