\* Two sessions, one of which attaches; TLC must find LogicalContentUnchanged
\* violated.
SPECIFICATION Spec
CONSTANTS
    Session = {s1, s2}
    Row = {r1}
    BaseCopies = 1
    MaxCopies = 2
SYMMETRY Symmetry
INVARIANTS
    LogicalContentUnchanged
