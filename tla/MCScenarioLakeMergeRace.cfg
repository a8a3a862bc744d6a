\* Two sessions merge the same scenario; TLC must find AppliedOnce violated.
SPECIFICATION Spec
CONSTANTS
    Merger = {m1, m2}
    Row = {r1}
    Tagged = TRUE
    NoTag = NoTag
    MaxWrites = 1
SYMMETRY Symmetry
INVARIANTS
    AppliedOnce
