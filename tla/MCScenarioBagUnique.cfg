\* UNIQUE over a live base that loses a row the scenario deleted.
SPECIFICATION Spec
CONSTANTS
    a1 = a1
    a2 = a2
    anon = anon
    A = A
    Value = {a1, a2, anon}
    Unique <- MCUnique
    NoTuple = NoTuple
    MaxCopies = 2
    MaxRows = 2
    ChunkSize = 2
SYMMETRY Symmetry
PROPERTIES
    AcceptedValueIsFree
