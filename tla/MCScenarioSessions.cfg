\* Lifecycle: two sessions, two ids ever, one statement in each transaction.
\* Identity: two connections, three statements in a transaction of w1.
\* Upgrade: two sessions, one row, up to two copies of it in a layout.
\* Names: every schema and table name of up to three characters of four.
\* The four never meet in a behaviour and share the values the symmetry permutes.
SPECIFICATION MCSpec
CONSTANTS
    Session = {s1, s2}
    Name = {n1, n2}
    Row = {r1}
    MaxId = 2
    MaxOps = 1
    MaxHandles = 1
    None = None
    w1 = w1
    Connection = {w1, w2}
    Alias = {n1, n2}
    Column = {s1, s2}
    ColName = {x, y, z}
    MaxKey = 1
    MaxRenames = 2
    BaseCopies = 1
    MaxCopies = 2
    Letter = {"m", "t"}
    DefaultSchema <- MCDefaultSchema
    MaxLength = 3
SYMMETRY Symmetry
INVARIANTS
    TypeOK
    NamesAreUnique
    MergedIsClosed
    HandleMeansItsScenario
    SerialRegistryIsSound
    ReadersFollowTheRows
    CacheIsCurrent
    IdentityAgrees
    EveryCopyIsAccountedFor
    OlderWritersCommit
    WriterIsTheUsers
    NamesRoundTrip
\* Once the MaxId ids are used up and nothing is registered, nobody can act.
CHECK_DEADLOCK FALSE
