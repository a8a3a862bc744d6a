\* Two copies of a row, statements of two source rows in one or two chunks.
SPECIFICATION Spec
CONSTANTS
    a1 = a1
    a2 = a2
    anon = anon
    A = A
    Value = {a1, a2, anon}
    Unique <- MCUnique
    NoTuple = NoTuple
    MaxCopies = 2
    MaxRows = 2
    ChunkSize = 2
SYMMETRY Symmetry
INVARIANTS
    TypeOK
    UniqueOnMergedView
    NoOverdraft
    StatementEffect
    DuplicatesAreReal
    PreviewListsTheCopies
    DiffShowsTheChange
    UnchangedBaseAccepts
PROPERTIES
    MergeBringsTheChange
    NoBaseChangeLost
