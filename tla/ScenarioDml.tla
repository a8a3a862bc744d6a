----------------------------- MODULE ScenarioDml -----------------------------
(***************************************************************************)
(* INSERT, UPDATE, DELETE and MERGE INTO on one keyed table of a scenario. *)
(*                                                                         *)
(* The table is never stored: a reader sees the base with the scenario's   *)
(* delta laid over it, and a writer turns each source row of a statement   *)
(* into changes of the delta.  The sinks work row by row, buffer the rows  *)
(* to append and to remove until their input chunk ends, and carry two     *)
(* per-statement structures across chunks: the key map (what the delta     *)
(* holds for a key) and the touched set (which rows the statement already  *)
(* wrote).  Every one of those structures is a variable here.              *)
(*                                                                         *)
(* MERGE INTO feeds several action sinks in one statement.  Each has a key *)
(* map and buffers of its own; the touched set is common to them.          *)
(*                                                                         *)
(* A statement that fails is rolled back whole, by the host transaction.   *)
(***************************************************************************)
EXTENDS Naturals

CONSTANTS
    Key,        \* identity of a row (the key columns of the table)
    Val,        \* the other columns of a row
    Null,       \* no row; also the payload of a tombstone
    MaxRows,    \* bound: source rows of an INSERT, UPDATE or DELETE
    MergeRows,  \* bound: source rows of a MERGE
    LiveBase,   \* other sessions commit changes to the base (overlay mode)
    KeyIndex    \* the base has a unique index on exactly the key columns

ASSUME DmlAssumption ==
    /\ Null \notin Val
    /\ MaxRows \in Nat \ {0}
    /\ MergeRows \in Nat
    /\ LiveBase \in BOOLEAN
    /\ KeyIndex \in BOOLEAN

VARIABLES
    base,     \* the base rows the transaction sees, by key
    delta,    \* the delta rows the transaction sees, by key
    saved,    \* the delta at the start of the running statement
    verb,     \* the running statement, or "idle"
    sink,     \* the sink whose buffers adds and removes are
    input,    \* the source rows of the running statement
    todo,     \* those not yet consumed by the sink
    joined,   \* ScenarioChildCanRepeatRows: the source is a join
    tracked,  \* track_touches
    touched,  \* ScenarioTouchedRows: how the statement touched a key
    keys,     \* ScenarioDeltaKeyMap of each sink: what it knows of a key
    adds,     \* append_ops / append_rows of the current chunk
    removes   \* rows_to_remove of the current chunk

stmtVars == <<verb, sink, input, todo, joined, tracked, touched, keys, adds, removes>>
vars == <<base, delta, saved, stmtVars>>

-----------------------------------------------------------------------------
(* Data.                                                                   *)

Ops == {"I", "U", "D"}
Sinks == {"INSERT", "UPDATE", "DELETE"}
DeltaRow == [op : Ops \cup {"none"}, val : Val \cup {Null}]
NoRow == [op |-> "none", val |-> Null]

\* What a statement knows of a key: not probed yet ("unread"), no delta row
\* ("none"), or the row's op.  A row the statement itself wrote is pending:
\* its row id is -1 and it cannot be removed by id.
KeyInfo == [op : Ops \cup {"none", "unread"}, pending : BOOLEAN]
Unread == [op |-> "unread", pending |-> FALSE]

\* A source row carries the sink it is for, the row it names (key and
\* __scenario_origin), the post-image, and how many times the child emitted
\* the same row before it.
Source == [by : Sinks, key : Key, origin : {0, 1},
           newKey : Key, newVal : Val \cup {Null}, copy : {1, 2}]
AddRow == [key : Key, op : Ops, val : Val \cup {Null}]
RowRef == [key : Key, pending : BOOLEAN]

\* The merge-on-read scan: I and U rows are emitted from the delta, base rows
\* unless the delta holds a U or a D row for their key.
View(b, d) ==
    {[key |-> k, val |-> d[k].val, origin |-> 1] : k \in {j \in Key : d[j].op \in {"I", "U"}}}
    \cup
    {[key |-> k, val |-> b[k], origin |-> 0] :
        k \in {j \in Key : b[j] # Null /\ d[j].op \notin {"U", "D"}}}

Visible(k, b, d) == \E row \in View(b, d) : row.key = k
UniqueKeys(b, d) == \A x, y \in View(b, d) : x.key = y.key => x = y

-----------------------------------------------------------------------------
(* The structures of a statement.                                          *)

\* Resolve: a sink probes the delta's primary-key index the first time a key
\* appears in its input.
Known(s, k) ==
    IF keys[s][k].op = "unread" THEN [op |-> delta[k].op, pending |-> FALSE] ELSE keys[s][k]

RowOf(s, k) == [key |-> k, pending |-> Known(s, k).pending]

\* Mutant of BaseHolds: the base is never probed.
BaseHoldsUnprobed(k) == FALSE

\* ProbePrimaryKey: only a base with a unique index on the key is probed.
BaseHolds(k) == KeyIndex /\ base[k] # Null

Learn(s, k, o) == [keys EXCEPT ![s][k] = [op |-> o, pending |-> TRUE]]

\* The delta rows the sink appends for one source row.
Append(k, o, v) == [key |-> k, op |-> o, val |-> v]
Tombstone(k) == Append(k, "D", Null)

Nothing == [s \in Sinks |-> [k \in Key |-> Unread]]

Idle == /\ verb' = "idle"
        /\ sink' = "INSERT"
        /\ input' = {}
        /\ todo' = {}
        /\ joined' = FALSE
        /\ tracked' = FALSE
        /\ touched' = [k \in Key |-> "no"]
        /\ keys' = Nothing
        /\ adds' = {}
        /\ removes' = {}

Init ==
    /\ base \in [Key -> Val \cup {Null}]
    /\ delta = [k \in Key |-> NoRow]
    /\ saved = delta
    /\ verb = "idle"
    /\ sink = "INSERT"
    /\ input = {}
    /\ todo = {}
    /\ joined = FALSE
    /\ tracked = FALSE
    /\ touched = [k \in Key |-> "no"]
    /\ keys = Nothing
    /\ adds = {}
    /\ removes = {}

-----------------------------------------------------------------------------
(* Statement start: which rows the sink will be fed.                       *)

Batches(S, n) == {{f[i] : i \in 1..n} : f \in [1..n -> S]}

\* A source row that repeats is numbered; only a join repeats a target row.
Emitted(rows, repeats) ==
    /\ \A r \in rows : r.copy = 2 => [r EXCEPT !.copy = 1] \in rows
    /\ \/ repeats
       \/ \A q, r \in rows : q.key = r.key /\ q.origin = r.origin => q = r

Copies(repeats) == IF repeats THEN {1, 2} ELSE {1}

Start(v, s, rows, repeats, track) ==
    /\ verb' = v
    /\ sink' = s
    /\ input' = rows
    /\ todo' = rows
    /\ joined' = repeats
    /\ tracked' = track
    /\ UNCHANGED <<base, delta, saved, touched, keys, adds, removes>>

InsertSource(repeats) ==
    {[by |-> "INSERT", key |-> k, origin |-> 1, newKey |-> k, newVal |-> v, copy |-> c] :
        k \in Key, v \in Val, c \in Copies(repeats)}

BeginInsert ==
    /\ verb = "idle"
    /\ \E rows \in Batches(InsertSource(TRUE), MaxRows) :
        /\ Emitted(rows, TRUE)
        /\ Start("INSERT", "INSERT", rows, FALSE, FALSE)

UpdateSource(repeats, moves) ==
    {r \in {[by |-> "UPDATE", key |-> row.key, origin |-> row.origin,
             newKey |-> k, newVal |-> v, copy |-> c] :
                row \in View(base, delta), k \in Key, v \in Val, c \in Copies(repeats)} :
        moves \/ r.newKey = r.key}

\* PlanUpdate: touches are tracked when the child can repeat a row or when a
\* key column is assigned.
BeginUpdate ==
    /\ verb = "idle"
    /\ \E repeats, moves \in BOOLEAN :
        \E rows \in Batches(UpdateSource(repeats, moves), MaxRows) :
            /\ Emitted(rows, repeats)
            /\ Start("UPDATE", "UPDATE", rows, repeats, repeats \/ moves)

DeleteSource(repeats) ==
    {[by |-> "DELETE", key |-> row.key, origin |-> row.origin,
      newKey |-> row.key, newVal |-> Null, copy |-> c] :
        row \in View(base, delta), c \in Copies(repeats)}

\* PlanDelete: touches are tracked when the child can repeat a row.
BeginDelete ==
    /\ verb = "idle"
    /\ \E repeats \in BOOLEAN :
        \E rows \in Batches(DeleteSource(repeats), MaxRows) :
            /\ Emitted(rows, repeats)
            /\ Start("DELETE", "DELETE", rows, repeats, repeats)

\* PlanMergeInto: the join matches target rows, several times perhaps, and
\* routes each match to the sink of an action; the touched set is shared and
\* always consulted.  A MERGE with one action is the statement of its sink.
MergeSource == InsertSource(TRUE) \cup UpdateSource(TRUE, TRUE) \cup DeleteSource(TRUE)

BeginMerge ==
    /\ verb = "idle"
    /\ \E rows \in Batches(MergeSource, MergeRows) :
        /\ Emitted(rows, TRUE)
        /\ \E q, r \in rows : q.by # r.by
        /\ Start("MERGE", "INSERT", rows, TRUE, TRUE)

\* The scan streams the delta rows before the base rows; a join may reorder.
InScanOrder(r) == joined \/ r.origin = 1 \/ \A q \in todo : q.origin = 0

\* A sink flushes at the end of its input, before the next sink has its own.
Turn(r) ==
    /\ InScanOrder(r)
    /\ r.by = sink \/ (adds = {} /\ removes = {})

-----------------------------------------------------------------------------
(* INSERT sink.                                                            *)

\* Mutant of ClaimOp: a re-insert over a tombstone is recorded as an insert.
ClaimOpAlwaysInsert(r) == "I"

\* A new key becomes an I row; a tombstoned key's row is replaced by a U row.
ClaimOp(r) == IF Known(r.by, r.newKey).op = "D" THEN "U" ELSE "I"
ClaimRefs(r) == IF Known(r.by, r.newKey).op = "D" THEN {RowOf(r.by, r.newKey)} ELSE {}

\* Mutant of KeyTaken: a tombstone counts as a row.
KeyTakenByTombstone(r) == Known(r.by, r.newKey).op # "none" \/ BaseHolds(r.newKey)

\* The key a row is to get names a row of the scenario table.
KeyTaken(r) ==
    \/ Known(r.by, r.newKey).op \in {"I", "U"}
    \/ Known(r.by, r.newKey).op = "none" /\ BaseHolds(r.newKey)

InsertRow(r) ==
    /\ r.by = "INSERT"
    /\ Turn(r)
    /\ ~KeyTaken(r)
    /\ removes' = removes \cup ClaimRefs(r)
    /\ adds' = adds \cup {Append(r.newKey, ClaimOp(r), r.newVal)}
    /\ keys' = Learn("INSERT", r.newKey, ClaimOp(r))
    /\ todo' = todo \ {r}
    /\ sink' = "INSERT"
    /\ UNCHANGED <<base, delta, saved, verb, input, joined, tracked, touched>>

-----------------------------------------------------------------------------
(* UPDATE sink.                                                            *)

\* Mutants of TouchRejected: only the old key of a moved row is checked; a
\* MERGE's UPDATE does not see what its DELETE touched.
TouchRejectedOldKeyOnly(r) == tracked /\ touched[r.key] # "no"
TouchRejectedBySinkOnly(r) ==
    tracked /\ (touched[r.key] = "update" \/ touched[r.newKey] = "update")

\* TouchKey for an UPDATE: any earlier touch of the old or new key throws.
TouchRejected(r) ==
    tracked /\ (touched[r.key] # "no" \/ touched[r.newKey] # "no")

Touch(r, how) ==
    IF tracked
    THEN [k \in Key |-> IF k \in {r.key, r.newKey} THEN how ELSE touched[k]]
    ELSE touched

\* A scenario row whose key is not in the key map is an internal error.
LostRow(r) == r.origin = 1 /\ Known(r.by, r.key).op = "none"

UpdateRejected(r) ==
    \/ TouchRejected(r)
    \/ LostRow(r)
    \/ r.newKey # r.key /\ KeyTaken(r)

\* Same key: a base row gets a U row, a scenario row is replaced keeping its op.
InPlaceOp(r) == IF r.origin = 0 THEN "U" ELSE Known(r.by, r.key).op

\* Mutant of SupersededRefs: the superseded delta row is not removed.
SupersededRefsKept(r) == {}

\* The delta row that a scenario row of the source is stored in.
SupersededRefs(r) == IF r.origin = 0 THEN {} ELSE {RowOf(r.by, r.key)}

UpdateInPlace(r) ==
    /\ r.by = "UPDATE"
    /\ Turn(r)
    /\ r.newKey = r.key
    /\ ~UpdateRejected(r)
    /\ removes' = removes \cup SupersededRefs(r)
    /\ adds' = adds \cup {Append(r.key, InPlaceOp(r), r.newVal)}
    /\ keys' = Learn("UPDATE", r.key, InPlaceOp(r))
    /\ touched' = Touch(r, "update")
    /\ todo' = todo \ {r}
    /\ sink' = "UPDATE"
    /\ UNCHANGED <<base, delta, saved, verb, input, joined, tracked>>

\* Mutant of LeavesTombstone: a deleted U row leaves nothing behind.
LeavesTombstoneBaseOnly(r) == r.origin = 0

\* Vacating a key: a base row or a U row leaves a tombstone, an I row nothing.
LeavesTombstone(r) == r.origin = 0 \/ Known(r.by, r.key).op = "U"

\* Mutant of VacatedInfo: a dropped I row is forgotten, as if never probed.
VacatedInfoForgotten(r) == IF LeavesTombstone(r) THEN [op |-> "D", pending |-> TRUE] ELSE Unread

VacatedInfo(r) == [op |-> IF LeavesTombstone(r) THEN "D" ELSE "none",
                   pending |-> LeavesTombstone(r)]
VacatedAdds(r) == IF LeavesTombstone(r) THEN {Tombstone(r.key)} ELSE {}

\* Key move: vacate the old key, then claim the new one like an INSERT.
UpdateMovingKey(r) ==
    /\ r.by = "UPDATE"
    /\ Turn(r)
    /\ r.newKey # r.key
    /\ ~UpdateRejected(r)
    /\ removes' = removes \cup SupersededRefs(r) \cup ClaimRefs(r)
    /\ adds' = adds \cup VacatedAdds(r) \cup {Append(r.newKey, ClaimOp(r), r.newVal)}
    /\ keys' = [Learn("UPDATE", r.newKey, ClaimOp(r)) EXCEPT !["UPDATE"][r.key] = VacatedInfo(r)]
    /\ touched' = Touch(r, "update")
    /\ todo' = todo \ {r}
    /\ sink' = "UPDATE"
    /\ UNCHANGED <<base, delta, saved, verb, input, joined, tracked>>

-----------------------------------------------------------------------------
(* DELETE sink.                                                            *)

\* Mutant of AlreadyDeleted: a repeated delete is applied again.
AlreadyDeletedNever(r) == FALSE

\* TouchKey for a DELETE: a key this statement already deleted is skipped; one
\* an UPDATE of the same MERGE touched throws.
AlreadyDeleted(r) == tracked /\ touched[r.key] = "delete"
DeleteRejected(r) == (tracked /\ touched[r.key] = "update") \/ (~AlreadyDeleted(r) /\ LostRow(r))

DeleteSkips(r) ==
    /\ r.by = "DELETE"
    /\ Turn(r)
    /\ AlreadyDeleted(r)
    /\ todo' = todo \ {r}
    /\ sink' = "DELETE"
    /\ UNCHANGED <<base, delta, saved, verb, input, joined, tracked, touched, keys, adds, removes>>

DeleteRow(r) ==
    /\ r.by = "DELETE"
    /\ Turn(r)
    /\ ~AlreadyDeleted(r)
    /\ ~DeleteRejected(r)
    /\ removes' = removes \cup SupersededRefs(r)
    /\ adds' = adds \cup VacatedAdds(r)
    /\ keys' = [keys EXCEPT !["DELETE"][r.key] = VacatedInfo(r)]
    /\ touched' = Touch(r, "delete")
    /\ todo' = todo \ {r}
    /\ sink' = "DELETE"
    /\ UNCHANGED <<base, delta, saved, verb, input, joined, tracked>>

-----------------------------------------------------------------------------
(* Chunk end, statement end, statement failure, and the base.              *)

\* The delta's primary-key index: one row per key, rows registered as removed
\* by this chunk aside.
FlushConflict ==
    \/ \E a, b \in adds : a.key = b.key /\ a # b
    \/ \E a \in adds : /\ delta[a.key].op # "none"
                       /\ [key |-> a.key, pending |-> FALSE] \notin removes

Flushed ==
    [k \in Key |->
        IF \E a \in adds : a.key = k
        THEN LET a == CHOOSE a \in adds : a.key = k IN [op |-> a.op, val |-> a.val]
        ELSE IF [key |-> k, pending |-> FALSE] \in removes THEN NoRow
        ELSE delta[k]]

\* FlushDeletes and FlushAppends, at the end of a chunk of any length.
FlushChunk ==
    /\ adds # {} \/ removes # {}
    /\ ~FlushConflict
    /\ delta' = Flushed
    /\ adds' = {}
    /\ removes' = {}
    /\ UNCHANGED <<base, saved, verb, sink, input, todo, joined, tracked, touched, keys>>

EndStatement ==
    /\ verb # "idle"
    /\ todo = {}
    /\ adds = {}
    /\ removes = {}
    /\ saved' = delta
    /\ Idle
    /\ UNCHANGED <<base, delta>>

Rejected(r) == \/ r.by = "INSERT" /\ KeyTaken(r)
               \/ r.by = "UPDATE" /\ UpdateRejected(r)
               \/ r.by = "DELETE" /\ DeleteRejected(r)

\* Mutant of FailStatement: what the statement flushed before it failed stays.
FailStatementKeepsFlushed ==
    /\ \/ \E r \in todo : Turn(r) /\ Rejected(r)
       \/ FlushConflict
    /\ Idle
    /\ UNCHANGED <<base, delta, saved>>

\* A row that is refused, or a chunk that meets the delta's index: the host
\* undoes what the statement flushed.  An error in the data of a row (NOT NULL,
\* CHECK) is undone the same way and left out.
FailStatement ==
    /\ \/ \E r \in todo : Turn(r) /\ Rejected(r)
       \/ FlushConflict
    /\ delta' = saved
    /\ Idle
    /\ UNCHANGED <<base, saved>>

\* Another session commits a change of a base row; the next statement sees it.
BaseCommit(k, v) ==
    /\ LiveBase
    /\ verb = "idle"
    /\ base[k] # v
    /\ base' = [base EXCEPT ![k] = v]
    /\ UNCHANGED <<delta, saved, stmtVars>>

SinkRow(r) == \/ InsertRow(r)
              \/ UpdateInPlace(r)
              \/ UpdateMovingKey(r)
              \/ DeleteSkips(r)
              \/ DeleteRow(r)

Next ==
    \/ BeginInsert
    \/ BeginUpdate
    \/ BeginDelete
    \/ BeginMerge
    \/ \E r \in todo : SinkRow(r)
    \/ FlushChunk
    \/ EndStatement
    \/ FailStatement
    \/ \E k \in Key, v \in Val \cup {Null} : BaseCommit(k, v)

Spec == Init /\ [][Next]_vars

-----------------------------------------------------------------------------
(* Properties.                                                             *)

TypeOK ==
    /\ base \in [Key -> Val \cup {Null}]
    /\ delta \in [Key -> DeltaRow]
    /\ saved \in [Key -> DeltaRow]
    /\ verb \in {"idle", "MERGE"} \cup Sinks
    /\ sink \in Sinks
    /\ input \subseteq Source
    /\ todo \subseteq input
    /\ joined \in BOOLEAN
    /\ tracked \in BOOLEAN
    /\ touched \in [Key -> {"no", "update", "delete"}]
    /\ keys \in [Sinks -> [Key -> KeyInfo]]
    /\ adds \subseteq AddRow
    /\ removes \subseteq RowRef

\* Over a base that does not change and that indexes its key, an I row stands
\* for a key the base lacks, a U or D row for one it has: the three ops keep
\* the meaning the merge gives them however a key was deleted, re-inserted,
\* updated and moved (the transition matrix of the three sinks).
OpFits(k, o) == /\ o = "I" => base[k] = Null
                /\ o \in {"U", "D"} => base[k] # Null

Canonical == \A k \in Key : OpFits(k, delta[k].op)

\* The scan therefore shows no key twice.
ViewHasUniqueKeys == UniqueKeys(base, delta)

\* A statement that completes has replaced exactly the rows it was fed by
\* their post-images, whatever chunks it was cut into, whatever order a join
\* delivered its rows in, and whichever sinks a MERGE sent them to.
PostImage(r) == [key |-> r.newKey, val |-> r.newVal, origin |-> 1]
NamedRows(rows) == {row \in View(base, saved) :
                        \E r \in rows : r.key = row.key /\ r.origin = row.origin}
Fed(s) == {r \in input : r.by = s}
Expected ==
    (View(base, saved) \ NamedRows(Fed("UPDATE") \cup Fed("DELETE")))
    \cup {PostImage(r) : r \in Fed("INSERT") \cup Fed("UPDATE")}

StatementEffect ==
    [][EndStatement /\ UniqueKeys(base, saved) => View(base', saved') = Expected]_vars

\* rows_to_remove never names a row by the id -1 of a row the statement itself
\* buffered or appended (what the double-touch rule exists for).
NoPendingRemoval == \A ref \in removes : ~ref.pending

\* The key maps are start-of-statement snapshots restricted to touched keys:
\* the statement changes a key's delta row only after one of its sinks has
\* probed it.
Unprobed(k) == \A s \in Sinks : keys[s][k].op = "unread"
ProbedBeforeChanged ==
    \A k \in Key : Unprobed(k) =>
        /\ delta[k] = saved[k]
        /\ \A a \in adds : a.key # k
        /\ \A ref \in removes : ref.key # k

\* "delta row for updated/moved/deleted key not found in key map" is never
\* thrown: a scenario row the scan emitted is still known when its turn comes.
NoInternalError ==
    \A r \in todo : Turn(r) =>
        /\ r.by = "UPDATE" /\ ~TouchRejected(r) => ~LostRow(r)
        /\ r.by = "DELETE" /\ ~AlreadyDeleted(r) /\ touched[r.key] # "update" => ~LostRow(r)

\* The delta's own primary-key index never refuses a chunk: the sinks find
\* every duplicate first, and report it against the scenario table.
FlushAccepted == verb # "idle" /\ UniqueKeys(base, saved) => ~FlushConflict

\* A duplicate-key error is real: the key names a row of the table as the
\* statement has left it so far, buffered changes included.
Pending == [k \in Key |-> IF \/ \E a \in adds : a.key = k
                             \/ [key |-> k, pending |-> FALSE] \in removes
                          THEN Flushed[k] ELSE delta[k]]
DuplicatesAreReal ==
    \A r \in todo :
        /\ Turn(r)
        /\ KeyTaken(r)
        /\ \/ r.by = "INSERT"
           \/ /\ r.by = "UPDATE"
              /\ r.newKey # r.key
              /\ ~TouchRejected(r)
              /\ ~LostRow(r)
        => Visible(r.newKey, base, Pending)

\* The scenario table is an ordinary table: its rows at statement boundaries.
MergedRows ==
    [k \in Key |-> IF saved[k].op \in {"I", "U"} THEN saved[k].val
                   ELSE IF saved[k].op = "D" THEN Null ELSE base[k]]
Ordinary == INSTANCE OrdinaryTable WITH rows <- MergedRows, statement <- verb
ImplementsOrdinaryTable == Ordinary!Spec

\* docs/spec/architecture.md:75-77: the keys of the emitted I and U rows are
\* claimed, and a base row is emitted only if its key was not claimed.
ClaimedKeysHideBaseRows ==
    \A row \in View(base, delta) :
        delta[row.key].op \in {"I", "U"} => row.origin = 1
=============================================================================
