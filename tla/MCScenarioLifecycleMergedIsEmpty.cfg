\* Two overlapping sessions; TLC must find MergedIsEmpty violated.
SPECIFICATION Spec
CONSTANTS
    Session = {s1, s2}
    Name = {n1, n2}
    Row = {r1}
    MaxId = 2
    MaxOps = 1
    MaxHandles = 1
    None = None
SYMMETRY Symmetry
INVARIANTS
    MergedIsEmpty
CHECK_DEADLOCK FALSE
