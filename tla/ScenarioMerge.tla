---------------------------- MODULE ScenarioMerge ----------------------------
(***************************************************************************)
(* scenario_merge and scenario_merge_preview on one keyed table of a       *)
(* scenario over the host database.                                        *)
(*                                                                         *)
(* The scenario collects a delta while other sessions change the base.     *)
(* The merge classifies every delta row against the base it finds, lets    *)
(* on_conflict decide about the rows in conflict, and applies the rest as  *)
(* deletes and appends on the base.                                        *)
(*                                                                         *)
(* The table has one column beside its key, and that column is UNIQUE in   *)
(* the merged state.  A statement is one chunk of rows here: its UNIQUE    *)
(* probe sees the chunk as a whole.  What longer statements and repeated   *)
(* rows do to a key is the subject of ScenarioDml.                         *)
(***************************************************************************)
EXTENDS Naturals

CONSTANTS
    Key,     \* the rows' identity
    Val,     \* the values of the other column
    Null     \* no row

ASSUME MergeAssumption == Null \notin Val

VARIABLES
    kind,    \* "overlay", "materialized", or a "branch" of a materialized one
    main,    \* the live base table, by key
    snap,    \* the base at the scenario's creation (s<id>_mat_<table>)
    delta,   \* s<id>_delta_<table>, by key
    merged   \* merged_at is set

vars == <<kind, main, snap, delta, merged>>

-----------------------------------------------------------------------------
Policies == {"abort", "ours", "theirs"}
Table == [Key -> Val \cup {Null}]
DeltaRow == [op : {"none"}, val : {Null}] \cup [op : {"I", "U"}, val : Val] \cup [op : {"D"}, val : {Null}]
NoRow == [op |-> "none", val |-> Null]
Stored(o, v) == [op |-> o, val |-> v]

\* The base tables an attached scenario reads: its own materialized copy or
\* that of the nearest materialized ancestor, otherwise the live ones.
Seen(k) == IF kind = "overlay" THEN main[k] ELSE snap[k]

\* The rows the scan emits: from the delta, and base rows not replaced.
FromDelta(k) == delta[k].op \in {"I", "U"}
FromBase(k) == Seen(k) # Null /\ delta[k].op \notin {"U", "D"}

\* What the scenario shows for a key, its own row first.
Shown(k) == IF FromDelta(k) THEN delta[k].val ELSE IF FromBase(k) THEN Seen(k) ELSE Null

UniqueValues(table) == \A j, k \in Key : table[j] = table[k] /\ table[j] # Null => j = k

-----------------------------------------------------------------------------
Init ==
    /\ kind \in {"overlay", "materialized", "branch"}
    /\ main \in {t \in Table : UniqueValues(t)}
    /\ snap = main
    /\ delta = [k \in Key |-> NoRow]
    /\ merged = FALSE

\* Another session changes the base.
BaseCommit(k, v) ==
    /\ main[k] # v
    /\ main' = [main EXCEPT ![k] = v]
    /\ UniqueValues(main')
    /\ UNCHANGED <<kind, snap, delta, merged>>

Write(after) ==
    /\ ~merged
    /\ delta' = after
    /\ UNCHANGED <<kind, main, snap, merged>>

-----------------------------------------------------------------------------
(* The UNIQUE probe of a chunk.                                            *)

Own(d) == {k \in Key : d[k].op \in {"I", "U"}}
Replaced(d) == {k \in Key : d[k].op \in {"U", "D"}}

\* Mutant of Mask: every key of the delta is masked, I rows included.
MaskByKey(after) == {k \in Key : delta[k].op # "none" \/ after[k].op # "none"}

\* CollectReplaced: base rows the delta replaces, or will when the chunk's
\* tombstones and U rows (pending_replaced) are flushed.
Mask(after) == Replaced(delta) \cup {k \in Replaced(after) : after[k] # delta[k]}

\* ProbeSecondary looks the changed values up in the base; the delta has a
\* UNIQUE index of its own.
Admitted(values, after) ==
    /\ \A v \in values, k \in Key \ Mask(after) : Seen(k) # v
    /\ \A j, k \in Own(after) : after[j].val = after[k].val => j = k

-----------------------------------------------------------------------------
(* The scenario's statements.                                              *)

FreeKeys == {k \in Key : ~FromDelta(k) /\ ~FromBase(k)}
NonEmpty(S) == SUBSET S \ {{}}

\* A new key becomes an I row; over a tombstone it is an update of the base row.
ClaimOp(k) == IF delta[k].op = "D" THEN "U" ELSE "I"

\* INSERT: values for some free keys.
InsertChunks == UNION {[K -> Val] : K \in NonEmpty(FreeKeys)}
AfterInsert(new) ==
    [k \in Key |-> IF k \in DOMAIN new THEN Stored(ClaimOp(k), new[k]) ELSE delta[k]]
InsertAdmitted(new) == Admitted({new[k] : k \in DOMAIN new}, AfterInsert(new))

Insert(new) ==
    /\ InsertAdmitted(new)
    /\ Write(AfterInsert(new))

\* UPDATE: a row of the scenario keeps its op, a base row becomes a U row.
UpdatedOp(k) == IF FromDelta(k) THEN delta[k].op ELSE "U"

\* A row that leaves its key leaves a tombstone if the base has one to hide.
Vacated(k) == IF UpdatedOp(k) = "U" THEN Stored("D", Null) ELSE NoRow

\* UPDATE: post-images of some rows, their keys kept or moved to free ones.
PostImage == [key : Key, val : Val]
UpdateChunks ==
    UNION {{post \in [K -> PostImage] :
               /\ \A k \in K : post[k].key \in {k} \cup FreeKeys
               /\ \A j, k \in K : post[j].key = post[k].key => j = k} :
           K \in NonEmpty(Key \ FreeKeys)}

AfterUpdate(post) ==
    [k \in Key |->
        IF \E j \in DOMAIN post : post[j].key = k
        THEN LET j == CHOOSE j \in DOMAIN post : post[j].key = k
             IN  Stored(IF j = k THEN UpdatedOp(k) ELSE ClaimOp(k), post[j].val)
        ELSE IF k \in DOMAIN post THEN Vacated(k) ELSE delta[k]]

\* Only rows whose unique value changed are probed.
Changed(post) == {k \in DOMAIN post : post[k].val # Shown(k)}
UpdateAdmitted(post) == Admitted({post[k].val : k \in Changed(post)}, AfterUpdate(post))

Update(post) ==
    /\ UpdateAdmitted(post)
    /\ Write(AfterUpdate(post))

\* DELETE: a row of the base leaves a tombstone, one of the scenario's own
\* nothing.  Both rows of a key the base gained behind an I row go at once.
Delete(k) ==
    /\ FromDelta(k) \/ FromBase(k)
    /\ Write([delta EXCEPT ![k] = IF delta[k].op = "U" \/ FromBase(k) THEN Stored("D", Null) ELSE NoRow])

\* DELETE of the scenario's own row alone, where the base gained its key.
DeleteOwn(k) ==
    /\ delta[k].op = "I"
    /\ FromBase(k)
    /\ Write([delta EXCEPT ![k] = NoRow])

-----------------------------------------------------------------------------
(* scenario_merge: classification.                                         *)

Touched == {k \in Key : delta[k].op # "none"}
InBase(k) == main[k] # Null

\* Mutant of Drift: the creation snapshot is not consulted.
DriftIgnored(k) == FALSE

\* The base row changed since the creation snapshot (materialized only).
Drift(k) ==
    /\ kind = "materialized"
    /\ InBase(k)
    /\ snap[k] # Null
    /\ main[k] # snap[k]

Conflict(k) ==
    \/ delta[k].op = "I" /\ InBase(k)
    \/ delta[k].op = "U" /\ ~InBase(k)
    \/ Drift(k)

\* The delta rows the merge applies: base wins drops those in conflict.
Applied(policy) ==
    {k \in Touched : policy = "theirs" => ~Conflict(k)}

\* base_rows_to_delete and append_rows.
Deleted(policy) == {k \in Applied(policy) : InBase(k)}
Appended(policy) == {k \in Applied(policy) : delta[k].op \in {"I", "U"}}

\* Mutant of Result: tombstones are not applied.
ResultKeepsDeleted(policy) ==
    [k \in Key |-> IF k \in Appended(policy) THEN delta[k].val ELSE main[k]]

Result(policy) ==
    [k \in Key |-> IF k \in Appended(policy) THEN delta[k].val
                   ELSE IF k \in Deleted(policy) THEN Null ELSE main[k]]

\* Mutant of AppendAccepted: a deleted row's value is not free for an append.
AppendAcceptedUnregistered(policy) ==
    \A k \in Appended(policy), j \in Key : j # k => /\ Result(policy)[j] # delta[k].val
                                                   /\ main[j] # delta[k].val

\* The appends meet the base's UNIQUE index: values of the deleted rows are
\* registered as free first (RegisterDeletedBaseRows).
AppendAccepted(policy) ==
    \A k \in Appended(policy), j \in Key : j # k => Result(policy)[j] # delta[k].val

\* The merge applies in one transaction; a conflict under "abort" or a
\* refused append rolls it back whole.
Merge(policy) ==
    /\ ~merged
    /\ policy = "abort" => \A k \in Touched : ~Conflict(k)
    /\ AppendAccepted(policy)
    /\ main' = Result(policy)
    /\ delta' = [k \in Key |-> NoRow]
    /\ merged' = TRUE
    /\ UNCHANGED <<kind, snap>>

Next ==
    \/ \E k \in Key, v \in Val \cup {Null} : BaseCommit(k, v)
    \/ \E new \in InsertChunks : Insert(new)
    \/ \E post \in UpdateChunks : Update(post)
    \/ \E k \in Key : Delete(k) \/ DeleteOwn(k)
    \/ \E policy \in Policies : Merge(policy)

Spec == Init /\ [][Next]_vars

-----------------------------------------------------------------------------
(* scenario_merge_preview: the plan, as one SQL query per table.           *)

PreviewAction(k) == IF delta[k].op = "I" THEN "insert" ELSE IF delta[k].op = "U" THEN "update" ELSE "delete"

PreviewDrift(k) ==
    /\ kind = "materialized"
    /\ main[k] # Null /\ snap[k] # Null
    /\ main[k] # snap[k]

\* Mutant of PreviewConflict: drift is only reported for updates.
PreviewConflictUpdatesOnly(k) ==
    IF PreviewAction(k) = "insert" THEN main[k] # Null
    ELSE IF PreviewAction(k) = "update" THEN main[k] = Null \/ PreviewDrift(k)
    ELSE FALSE

PreviewConflict(k) ==
    IF PreviewAction(k) = "insert" THEN main[k] # Null
    ELSE IF PreviewAction(k) = "update" THEN main[k] = Null \/ PreviewDrift(k)
    ELSE PreviewDrift(k)

-----------------------------------------------------------------------------
(* scenario_diff(scenario, table) and scenario_diff('main', scenario,      *)
(* table): one row per changed key; old and new only if "modified".        *)

DiffRow(k, change, old, new) == [key |-> k, change |-> change, old |-> old, new |-> new]

\* Mutant of Diff: a U row that restates its base row is listed.
DiffListsEveryUpdate ==
    {DiffRow(k, IF delta[k].op = "I" THEN "added" ELSE "removed", Null, Null) :
        k \in {j \in Key : delta[j].op \in {"I", "D"}}}
    \cup {DiffRow(k, "modified", Seen(k), delta[k].val) :
              k \in {j \in Key : delta[j].op = "U" /\ Seen(j) # Null}}

\* Against the origin: the delta's I and D rows as they are, and its U rows
\* joined with the base rows they differ from.
Diff ==
    {DiffRow(k, IF delta[k].op = "I" THEN "added" ELSE "removed", Null, Null) :
        k \in {j \in Key : delta[j].op \in {"I", "D"}}}
    \cup {DiffRow(k, "modified", Seen(k), delta[k].val) :
              k \in {j \in Key : delta[j].op = "U" /\ Seen(j) # Null /\ Seen(j) # delta[j].val}}

\* The relations of two sides (MergedRelationSQL): the live table for 'main',
\* what the scan emits for a scenario.
MainRows == {<<k, main[k]>> : k \in {j \in Key : main[j] # Null}}
MergedRows ==
    {<<k, delta[k].val>> : k \in Own(delta)}
    \cup {<<k, Seen(k)>> : k \in {j \in Key \ Replaced(delta) : Seen(j) # Null}}

Keys(rows) == {r[1] : r \in rows}

\* The outer join of two sides.
DiffSides(a, b) ==
    {DiffRow(k, "added", Null, Null) : k \in Keys(b) \ Keys(a)}
    \cup {DiffRow(k, "removed", Null, Null) : k \in Keys(a) \ Keys(b)}
    \cup {DiffRow(p[1][1], "modified", p[1][2], p[2][2]) :
              p \in {q \in a \X b : q[1][1] = q[2][1] /\ q[1][2] # q[2][2]}}

-----------------------------------------------------------------------------
(* Properties.                                                             *)

TypeOK ==
    /\ kind \in {"overlay", "materialized", "branch"}
    /\ main \in Table
    /\ snap \in Table
    /\ delta \in [Key -> DeltaRow]
    /\ merged \in BOOLEAN

\* The rows the scenario shows with a delta d have unique values.
UniqueShown(d) ==
    LET ofBase == {k \in Key \ Replaced(d) : Seen(k) # Null}
    IN  /\ \A j, k \in Own(d) : d[j].val = d[k].val => j = k
        /\ \A j, k \in ofBase : Seen(j) = Seen(k) => j = k
        /\ \A j \in Own(d), k \in ofBase : d[j].val # Seen(k)

\* The UNIQUE probe is exact: over a merged state without duplicates it admits
\* a chunk if and only if the chunk leaves none, whatever values its rows swap,
\* free or take over from one another, and whatever the base gained or lost.
ProbeIsExact ==
    ~merged /\ UniqueShown(delta) =>
        /\ \A new \in InsertChunks : InsertAdmitted(new) <=> UniqueShown(AfterInsert(new))
        /\ \A post \in UpdateChunks : UpdateAdmitted(post) <=> UniqueShown(AfterUpdate(post))

\* The preview announces the merge: it flags a conflict exactly for the rows
\* the merge will treat as one, whatever the base has become meanwhile.
PreviewIsThePlan ==
    ~merged => \A k \in Touched : PreviewConflict(k) <=> Conflict(k)

\* How one table became another, key by key.
Change(from, to) ==
    {DiffRow(k, "added", Null, Null) : k \in {j \in Key : from[j] = Null /\ to[j] # Null}}
    \cup {DiffRow(k, "removed", Null, Null) : k \in {j \in Key : from[j] # Null /\ to[j] = Null}}
    \cup {DiffRow(k, "modified", from[k], to[k]) :
              k \in {j \in Key : from[j] # Null /\ to[j] # Null /\ from[j] # to[j]}}

\* "Exactly what differs": the diff of 'main' and the scenario describes how
\* the base became what the scenario shows, whatever happened to either, and
\* the diff against the origin, which only reads the delta's ops, describes
\* how the snapshot did.
DiffShowsTheChange ==
    LET shown == [k \in Key |-> Shown(k)]
    IN  /\ DiffSides(MainRows, MergedRows) = Change(main, shown)
        /\ kind # "overlay" => Diff = Change(snap, shown)

\* The scenario wins: a merge that applies everything leaves the base, for
\* every key the scenario had changed, with what the scenario showed.  After
\* an overlay scenario's merge the base is the table the scenario showed.
ScenarioWins ==
    [][\A policy \in {"abort", "ours"} :
         Merge(policy) => \A k \in Key : kind = "overlay" \/ Shown(k) # Seen(k) => main'[k] = Shown(k)]_vars

\* No base change is lost: a materialized scenario that merges with "abort" or
\* "theirs" only changes rows nobody changed since its creation.
NoBaseChangeLost ==
    [][\A policy \in {"abort", "theirs"} :
         Merge(policy) /\ kind = "materialized" =>
             \A k \in Key : main'[k] # main[k] => main[k] = snap[k]]_vars

\* A base that is as it was at the scenario's creation accepts the merge: no
\* conflict and no UNIQUE error, even where a row took the value of a row the
\* scenario deleted.  (An overlay scenario saw what happened in between.)
UnchangedBaseAccepts ==
    ~merged /\ kind # "overlay" /\ main = snap =>
        /\ \A k \in Touched : ~Conflict(k)
        /\ AppendAccepted("abort")
=============================================================================
