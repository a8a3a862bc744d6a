------------------------------ MODULE ScenarioBag ------------------------------
(***************************************************************************)
(* A keyless table of a scenario: its bag changelog, the scan, the         *)
(* statements and the merge.                                               *)
(*                                                                         *)
(* A table without an identity has only its rows' values.  Its delta holds *)
(* I and D rows with multiplicity one, and every reader nets them per      *)
(* value: a positive net adds copies, a negative one is a budget of base   *)
(* copies the scan swallows.  The model keeps that net.                    *)
(*                                                                         *)
(* A statement works on the copies its scan emitted, chunk by chunk; each  *)
(* sink appends to the delta when it has processed a chunk.  The rows of   *)
(* the table have a UNIQUE column that may be NULL.                        *)
(***************************************************************************)
EXTENDS Integers, FiniteSets, Sequences, FiniteSetsExt

CONSTANTS
    Value,       \* the rows' values
    Unique,      \* the UNIQUE column of each value, NoTuple where it is NULL
    NoTuple,
    MaxCopies,   \* bounds the copies of a value in a table
    MaxRows,     \* bounds the source rows of a statement
    ChunkSize    \* rows a sink gets at a time (STANDARD_VECTOR_SIZE)

ASSUME BagAssumption ==
    /\ MaxCopies \in Nat
    /\ MaxRows \in Nat
    /\ ChunkSize \in Nat \ {0}
    /\ IsFiniteSet(Value)
    /\ DOMAIN Unique = Value

VARIABLES
    kind,    \* "overlay", "materialized", or a "branch" of a materialized one
    main,    \* the live base table: copies of each value
    snap,    \* the base at the scenario's creation
    net,     \* sum of _count over I rows minus D rows of the delta
    merged,  \* merged_at is set
    stmt     \* the running statement

vars == <<kind, main, snap, net, merged, stmt>>

-----------------------------------------------------------------------------
Bag == [Value -> 0..MaxCopies]
Zero == [v \in Value |-> 0]
AtLeastZero(n) == IF n > 0 THEN n ELSE 0

\* Bag of the elements of a sequence.
Count(seq) == [v \in Value |-> Cardinality({i \in DOMAIN seq : seq[i] = v})]

Tuples == {Unique[v] : v \in Value} \ {NoTuple}
Held(table, t) == MapThenSumSet(LAMBDA v : table[v], {v \in Value : Unique[v] = t})
UniqueHolds(table) == \A t \in Tuples : Held(table, t) <= 1

\* The base tables the scenario reads.
Seen == IF kind = "overlay" THEN main ELSE snap

\* The scan: the positive nets, and the base less the suppression budgets.
View(n) == [v \in Value |-> AtLeastZero(n[v]) + AtLeastZero(Seen[v] - AtLeastZero(-n[v]))]

\* A copy the scan emits is known by its __scenario_rowno.
Copy == Value \X (1..MaxCopies)
Emitted == {c \in Copy : c[2] <= View(stmt.before)[c[1]]}

Idle == [op |-> "idle", repeats |-> FALSE, before |-> Zero, rows |-> 0,
         updated |-> {}, deleted |-> {}, added |-> Zero]

Init ==
    /\ kind \in {"overlay", "materialized", "branch"}
    /\ main \in {t \in Bag : UniqueHolds(t)}
    /\ snap = main
    /\ net = Zero
    /\ merged = FALSE
    /\ stmt = Idle

\* Another session changes the base, between two statements.
BaseCommit(v, n) ==
    /\ stmt = Idle
    /\ n # main[v]
    /\ main' = [main EXCEPT ![v] = n]
    /\ UniqueHolds(main')
    /\ UNCHANGED <<kind, snap, net, merged, stmt>>

-----------------------------------------------------------------------------
(* Statements: one scan feeds one sink, or all action sinks of a MERGE.    *)

\* A join may emit a copy repeatedly, a plain scan does not.
Begin(op, repeats) ==
    /\ stmt = Idle
    /\ ~merged
    /\ op = "merge" => repeats
    /\ op = "insert" => ~repeats
    /\ stmt' = [Idle EXCEPT !.op = op, !.repeats = repeats, !.before = net]
    /\ UNCHANGED <<kind, main, snap, net, merged>>

Chunks(S) == UNION {[1..n -> S] : n \in 1..ChunkSize}

\* The chunk is one the scan can emit next to a sink of the statement.
Arrives(op, len) ==
    /\ stmt.op \in {op, "merge"}
    /\ stmt.rows + len <= MaxRows

Touched == stmt.updated \cup stmt.deleted

Distinct(copies) == Cardinality({copies[i] : i \in DOMAIN copies}) = Len(copies)

FromScan(copies) ==
    /\ \A i \in DOMAIN copies : copies[i] \in Emitted
    /\ ~stmt.repeats => /\ Distinct(copies)
                        /\ \A i \in DOMAIN copies : copies[i] \notin Touched

ValuesOf(copies) == [i \in DOMAIN copies |-> copies[i][1]]

\* Mutant of UpdateTouchRejected: only copies an UPDATE touched count.
UpdateTouchRejectedByUpdates(copies) ==
    ~Distinct(copies) \/ \E i \in DOMAIN copies : copies[i] \in stmt.updated

\* TouchRowno: an UPDATE must be the only touch of its copy,
UpdateTouchRejected(copies) ==
    ~Distinct(copies) \/ \E i \in DOMAIN copies : copies[i] \in Touched

DeleteTouchRejected(copies) == \E i \in DOMAIN copies : copies[i] \in stmt.updated

\* Mutant of Doomed: a repeated copy is deleted again.
DoomedAgain(copies) == Count(ValuesOf(copies))

\* ... a DELETE skips a copy it already deleted.
Doomed(copies) ==
    [v \in Value |-> Cardinality({c \in {copies[i] : i \in DOMAIN copies} : c[1] = v /\ c \notin stmt.deleted})]

\* Mutant of Pending: the old rows of the chunk still count.
PendingIgnored(copies) == Zero

\* The rows the chunk itself deletes.
Pending(copies) == Count(ValuesOf(copies))

InBase(t) == \E v \in Value : Unique[v] = t /\ Seen[v] > 0

\* Mutant of Duplicate: rows of one chunk are not counted against each other.
DuplicateAcrossChunksOnly(new, gone) ==
    \E i \in DOMAIN new :
        LET t == Unique[new[i]] IN
        t # NoTuple /\ (IF InBase(t) THEN 1 ELSE 0) + Held(net, t) - Held(gone, t) > 0

\* ProbeKeyless: a tuple is held by the base at most once, plus the net of the
\* delta, less the chunk's deletes, plus the chunk's earlier rows.
Duplicate(new, gone) ==
    \E i \in DOMAIN new :
        LET t == Unique[new[i]]
            earlier == Cardinality({j \in 1..(i - 1) : Unique[new[j]] = t}) IN
        t # NoTuple /\ (IF InBase(t) THEN 1 ELSE 0) + Held(net, t) - Held(gone, t) + earlier > 0

\* The sink appends the chunk's D and I rows to the delta.
FlushAppends(new, gone) == net' = [v \in Value |-> net[v] - gone[v] + Count(new)[v]]

Flushed(new, len) ==
    [stmt EXCEPT !.rows = @ + len, !.added = [v \in Value |-> @[v] + Count(new)[v]]]

Fits == \A v \in Value : View(net')[v] <= MaxCopies

SinkInsert(new) ==
    /\ Arrives("insert", Len(new))
    /\ ~Duplicate(new, Zero)
    /\ FlushAppends(new, Zero)
    /\ Fits
    /\ stmt' = Flushed(new, Len(new))
    /\ UNCHANGED <<kind, main, snap, merged>>

SinkUpdate(copies, new) ==
    /\ Arrives("update", Len(copies))
    /\ FromScan(copies)
    /\ ~UpdateTouchRejected(copies)
    /\ ~Duplicate(new, Pending(copies))
    /\ FlushAppends(new, Count(ValuesOf(copies)))
    /\ Fits
    /\ stmt' = [Flushed(new, Len(copies)) EXCEPT !.updated = @ \cup {copies[i] : i \in DOMAIN copies}]
    /\ UNCHANGED <<kind, main, snap, merged>>

SinkDelete(copies) ==
    /\ Arrives("delete", Len(copies))
    /\ FromScan(copies)
    /\ ~DeleteTouchRejected(copies)
    /\ FlushAppends(<<>>, Doomed(copies))
    /\ stmt' = [Flushed(<<>>, Len(copies)) EXCEPT !.deleted = @ \cup {copies[i] : i \in DOMAIN copies}]
    /\ UNCHANGED <<kind, main, snap, merged>>

\* A statement that fails - a refused chunk, a CHECK, an interrupt - is undone.
Fail ==
    /\ stmt # Idle
    /\ net' = stmt.before
    /\ stmt' = Idle
    /\ UNCHANGED <<kind, main, snap, merged>>

End ==
    /\ stmt # Idle
    /\ stmt' = Idle
    /\ UNCHANGED <<kind, main, snap, net, merged>>

-----------------------------------------------------------------------------
(* scenario_merge and its preview.                                         *)

\* A deleted value whose copies drifted since the creation snapshot.
Conflict(v) == kind = "materialized" /\ net[v] < 0 /\ main[v] # snap[v]

\* Mutant of Target: the base ends with the net only.
TargetWithoutSnapshot(v) == AtLeastZero(net[v])

\* The copies "ours" leaves of a value in conflict: the scenario's.
Target(v) == AtLeastZero(snap[v] + net[v])

\* Mutant of Kept: "theirs" deletes what it can.
KeptLess(v) == AtLeastZero(main[v] + net[v])

\* The copies "theirs" leaves of a value in conflict: the base's.
Kept(v) == main[v]

\* Mutant of Result: more copies are deleted than the base has.
ResultUnclamped(policy) ==
    [v \in Value |-> IF Conflict(v) /\ policy = "theirs" THEN Kept(v) ELSE main[v] + net[v]]

Result(policy) ==
    [v \in Value |-> IF Conflict(v) /\ policy = "ours" THEN Target(v)
                     ELSE IF Conflict(v) /\ policy = "theirs" THEN Kept(v)
                     ELSE AtLeastZero(main[v] + net[v])]

\* Mutant of AppendAccepted: the deleted rows are not registered as free.
AppendAcceptedUnregistered(policy) ==
    \A v \in Value : Result(policy)[v] > main[v] /\ Unique[v] # NoTuple => Held(main, Unique[v]) = 0

\* The appends meet the base's UNIQUE index, less the deleted rows.
AppendAccepted(policy) == UniqueHolds(Result(policy))

Merge(policy) ==
    /\ stmt = Idle
    /\ ~merged
    /\ policy = "abort" => \A v \in Value : ~Conflict(v)
    /\ AppendAccepted(policy)
    /\ main' = Result(policy)
    /\ net' = Zero
    /\ merged' = TRUE
    /\ UNCHANGED <<kind, snap, stmt>>

\* The conflict column of scenario_merge_preview for a listed value.
PreviewConflict(v) == kind = "materialized" /\ net[v] < 0 /\ main[v] # snap[v]

\* Mutant of PreviewCopies: a deleted value is listed once.
PreviewCopiesOncePerValue(v) == IF net[v] < 0 THEN -1 ELSE net[v]

\* One row per copy to insert, or (negative) to delete.
PreviewCopies(v) == net[v]

-----------------------------------------------------------------------------
(* scenario_diff and its summary: rows are told by their values, so copies *)
(* are counted, an update is a removed and an added row.                   *)

\* The relation of a scenario (MergedRelationSQL): the base rows and the
\* inserted copies EXCEPT ALL the deleted ones.
MergedRelation == [v \in Value |-> AtLeastZero(Seen[v] + net[v])]

\* a EXCEPT ALL b.
ExceptAll(a, b) == [v \in Value |-> AtLeastZero(a[v] - b[v])]

\* The diff of two sides, and the diff against the origin: |net| copies.
DiffSides(a, b) == [added |-> ExceptAll(b, a), removed |-> ExceptAll(a, b)]

\* Mutant of Diff: a value is listed once.
DiffOncePerValue ==
    [added |-> [v \in Value |-> IF net[v] > 0 THEN 1 ELSE 0],
     removed |-> [v \in Value |-> IF net[v] < 0 THEN 1 ELSE 0]]

Diff == [added |-> [v \in Value |-> AtLeastZero(net[v])],
         removed |-> [v \in Value |-> AtLeastZero(-net[v])]]

\* scenario_diff_summary: rows_added and rows_removed.
Summary ==
    [added |-> MapThenSumSet(LAMBDA v : net[v], {v \in Value : net[v] > 0}),
     removed |-> -MapThenSumSet(LAMBDA v : net[v], {v \in Value : net[v] < 0})]

Next ==
    \/ \E v \in Value, n \in 0..MaxCopies : BaseCommit(v, n)
    \/ \E op \in {"insert", "update", "delete", "merge"}, repeats \in BOOLEAN : Begin(op, repeats)
    \/ \E new \in Chunks(Value) : SinkInsert(new)
    \/ \E copies \in Chunks(Emitted) :
           \/ SinkDelete(copies)
           \/ \E new \in [DOMAIN copies -> Value] : SinkUpdate(copies, new)
    \/ Fail
    \/ End
    \/ \E policy \in {"abort", "ours", "theirs"} : Merge(policy)

Spec == Init /\ [][Next]_vars

-----------------------------------------------------------------------------
(* Properties.                                                             *)

Nets == [Value -> (-MaxCopies)..MaxCopies]

TypeOK ==
    /\ kind \in {"overlay", "materialized", "branch"}
    /\ main \in [Value -> 0..(2 * MaxCopies)]
    /\ snap \in Bag
    /\ net \in Nets
    /\ merged \in BOOLEAN
    /\ stmt \in [op : {"idle", "insert", "update", "delete", "merge"}, repeats : BOOLEAN,
                 before : Nets, rows : 0..MaxRows, updated : SUBSET Copy, deleted : SUBSET Copy,
                 added : [Value -> 0..MaxRows]]

\* The base the scenario reads cannot change under it.
FixedBase == kind # "overlay"

\* UNIQUE holds on what the scenario shows, although the delta of a keyless
\* table can carry no UNIQUE index and sinks only count (ProbeKeyless).
UniqueOnMergedView == FixedBase => UniqueHolds(View(net))

\* The delta never deletes more copies of a value than the base has.  A debt
\* would not show at once: the scan swallows what is there, and the next
\* INSERT of that value would disappear.
NoOverdraft == FixedBase => \A v \in Value : Seen[v] + net[v] >= 0

\* A statement touches every copy its scan emitted at most once, however often
\* a join repeats it and whichever action of a MERGE it meets; identical copies
\* are told apart.  What the scenario shows while the statement runs is what
\* it showed before, less the touched copies, plus the new rows.
StatementEffect ==
    FixedBase /\ stmt # Idle =>
        /\ stmt.updated \cap stmt.deleted = {}
        /\ \A v \in Value :
               View(net)[v] = View(stmt.before)[v] - Cardinality({c \in Touched : c[1] = v}) + stmt.added[v]

\* No statement is refused for a duplicate it does not create: if its first
\* chunk is, the table it asks for would hold a UNIQUE value twice.  (A later
\* chunk may be refused for a value a chunk after it would have given up.)
DuplicatesAreReal ==
    FixedBase /\ stmt.rows = 0 /\ stmt.op \in {"update", "merge"} =>
        \A copies \in Chunks(Emitted) : Distinct(copies) =>
            \A new \in [DOMAIN copies -> Value] :
                Duplicate(new, Pending(copies)) =>
                    LET old == Count(ValuesOf(copies)) IN
                    ~UniqueHolds([v \in Value |-> View(net)[v] - old[v] + Count(new)[v]])

\* "Exactly what differs", copy by copy: the diff against the origin, which only
\* reads the changelog, is the bag difference of what the scenario shows and
\* the base it reads, and the summary counts its rows.  The relation the
\* diff of two sides rebuilds in SQL is the one the scan emits.
DiffShowsTheChange ==
    /\ MergedRelation = View(net)
    /\ FixedBase => Diff = DiffSides(Seen, View(net))
    /\ Summary = [added |-> MapThenSumSet(LAMBDA v : Diff.added[v], Value),
                   removed |-> MapThenSumSet(LAMBDA v : Diff.removed[v], Value)]

\* The merge brings the base what the scenario changed: an overlay scenario's
\* base becomes the table it showed; a materialized one's copies change by as
\* many as the scenario changed them, unless the value is in conflict: then
\* "ours" leaves the scenario's copies and "theirs" the base's.
MergeBringsTheChange ==
    [][\A policy \in {"abort", "ours", "theirs"} : Merge(policy) /\ kind # "branch" =>
         \A v \in Value :
             IF Conflict(v) /\ policy = "ours" THEN main'[v] = View(net)[v]
             ELSE IF Conflict(v) /\ policy = "theirs" THEN main'[v] = main[v]
             ELSE main'[v] - main[v] = View(net)[v] - Seen[v]]_vars

\* No base change is lost: a materialized scenario that merges with "abort" or
\* "theirs" removes copies only of values nobody changed since its creation.
NoBaseChangeLost ==
    [][\A policy \in {"abort", "theirs"} : Merge(policy) /\ kind = "materialized" =>
         \A v \in Value : main'[v] < main[v] => main[v] = snap[v]]_vars

\* The preview lists what the merge does to a materialized scenario's base:
\* for every value it does not flag, as many copies as are added or deleted.
PreviewListsTheCopies ==
    ~merged /\ kind = "materialized" =>
        \A v \in Value : ~PreviewConflict(v) => Result("abort")[v] - main[v] = PreviewCopies(v)

\* A base as it was at the scenario's creation accepts the merge, also where a
\* new row has the UNIQUE value of a row the scenario deleted.
UnchangedBaseAccepts ==
    ~merged /\ FixedBase /\ main = snap =>
        /\ \A v \in Value : ~Conflict(v)
        /\ AppendAccepted("abort")

\* API_REFERENCE: UNIQUE is enforced for scenario writes against the merged
\* state.  An accepted INSERT finds its UNIQUE value unused in that state.
AcceptedValueIsFree ==
    [][\A new \in Chunks(Value) : SinkInsert(new) =>
         \A i \in DOMAIN new : Unique[new[i]] # NoTuple => Held(View(net), Unique[new[i]]) = 0]_vars
=============================================================================
