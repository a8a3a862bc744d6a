\* Two overlapping sessions; TLC must find NoOrphanDelta violated.
SPECIFICATION Spec
CONSTANTS
    Session = {s1, s2}
    Name = {n1, n2}
    Row = {r1}
    MaxId = 2
    MaxOps = 1
    MaxHandles = 1
    None = None
SYMMETRY Symmetry
INVARIANTS
    NoOrphanDelta
CHECK_DEADLOCK FALSE
