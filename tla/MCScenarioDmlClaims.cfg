\* The documented scan rule, over a base that gains a key the scenario inserted.
SPECIFICATION Spec
CONSTANTS
    Key = {k1, k2}
    Val = {v1, v2}
    Null = Null
    MaxRows = 2
    MergeRows = 2
    LiveBase = TRUE
    KeyIndex = TRUE
SYMMETRY Symmetry
INVARIANTS
    ClaimedKeysHideBaseRows
