\* A base nobody else writes; statements of three source rows: chains and
\* cycles of key changes over three keys.
SPECIFICATION Spec
CONSTANTS
    Key = {k1, k2, k3}
    Val = {v1}
    Null = Null
    MaxRows = 3
    MergeRows = 3
    LiveBase = FALSE
    KeyIndex = TRUE
SYMMETRY KeySymmetry
INVARIANTS
    Canonical
    ViewHasUniqueKeys
    NoPendingRemoval
    ProbedBeforeChanged
    FlushAccepted
PROPERTIES
    StatementEffect
    ImplementsOrdinaryTable
