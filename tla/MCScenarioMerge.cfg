\* Host: three keys and three values, a swap of two UNIQUE values and a third row.
\* Lake: one session merges, again and again; others write, freeze and unfreeze.
\* The two never meet in a behaviour.
SPECIFICATION MCSpec
CONSTANTS
    Key = {k1, k2, k3}
    Val = {v1, v2, v3}
    Null = Null
    Merger = {m1}
    Row = {r1, r2}
    Tagged = TRUE
    NoTag = NoTag
    MaxWrites = 4
SYMMETRY Symmetry
INVARIANTS
    ProbeIsExact
    PreviewIsThePlan
    DiffShowsTheChange
    UnchangedBaseAccepts
    AppliedOnce
PROPERTIES
    ScenarioWins
    NoBaseChangeLost
    NothingDiscarded
