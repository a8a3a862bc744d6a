-------------------------- MODULE ScenarioLifecycle --------------------------
(***************************************************************************)
(* The lifecycle verbs of scenarios and the writes through attached        *)
(* handles, run by concurrent sessions.                                    *)
(*                                                                         *)
(* Registry and delta tables live in the host database, and every verb     *)
(* runs in its caller's transaction.  The host gives each transaction a    *)
(* snapshot and lets the first committer of a conflicting write win; what  *)
(* a transaction only read, it does not check again.  Each guard below is  *)
(* evaluated on the transaction's own view, as the code evaluates it.      *)
(*                                                                         *)
(* Not transactional: the id sequence, and the list of attached handles.   *)
(* A handle stays when the transaction that attached it is rolled back.    *)
(***************************************************************************)
EXTENDS Naturals, FiniteSets

CONSTANTS
    Session,   \* connections
    Name,      \* scenario names
    Row,       \* rows of the one table a scenario changes
    MaxId,     \* bound: scenarios ever created
    MaxOps,    \* bound: statements in a transaction, and any ATTACH after them
    MaxHandles, \* bound: catalogs attached at a time
    None       \* no entry, no table, no parent

ASSUME LifecycleAssumption ==
    /\ MaxId \in Nat \ {0}
    /\ MaxOps \in Nat \ {0}
    /\ MaxHandles \in Nat \ {0}
    /\ None \notin Name

Id == 1..MaxId

VARIABLES
    host,        \* the committed host database
    applied,     \* history: how often each scenario was applied to its base
    tx,          \* the open transaction of each session
    handles,     \* attached scenario catalogs
    known,       \* history: the scenarios the committed host ever registered
    nextId,      \* __anofox_scenario.registry_seq
    overlapped   \* history: two transactions overlapped

vars == <<host, applied, tx, handles, known, nextId, overlapped>>

-----------------------------------------------------------------------------
(* The host database and its transactions.                                 *)

Entry == [name : Name, frozen : BOOLEAN, merged : BOOLEAN, parent : Id \cup {None}]
Handle == [id : Id, name : Name]

\* reg: the registry; delta: the delta tables, if created.
Database == [reg : [Id -> Entry \cup {None}],
             delta : [Id -> (SUBSET Row) \cup {None}]]

Empty == [reg |-> [i \in Id |-> None], delta |-> [i \in Id |-> None]]

ASSUME NoneAssumption ==
    /\ None \notin Id
    /\ None \notin Entry
    /\ \A rows \in SUBSET Row : rows # None

\* What two transactions can conflict on: a registry row, a key of the index
\* on its name, a table's catalog entry, a row of a table.
Resource == ({"registry", "table"} \X Id) \cup ({"name"} \X Name) \cup ({"row"} \X Id \X Row)

\* view: the snapshot with the transaction's own changes; missed: what others
\* committed since; merges: the scenarios it applied to their base.
Closed == [open |-> FALSE, view |-> Empty, writes |-> {}, missed |-> {}, merges |-> {}, ops |-> 0]

\* The first statement of a transaction takes its snapshot.
Begun(s) == IF tx[s].open THEN tx[s] ELSE [Closed EXCEPT !.open = TRUE, !.view = host]
View(s) == Begun(s).view
Overlaps(s) == ~tx[s].open /\ \E t \in Session : tx[t].open

Registered(db) == {i \in Id : db.reg[i] # None}
Rows(db, i) == IF db.delta[i] = None THEN {} ELSE db.delta[i]
RowsOf(i, rows) == {<<"row", i, r>> : r \in rows}

\* The first committer wins; rows cannot go to a table changed meanwhile.
Conflicts(writes, missed) ==
    \/ writes \cap missed # {}
    \/ \E i \in Id : <<"table", i>> \in missed /\ writes \cap RowsOf(i, Row) # {}

\* One statement: the new view, and what it wrote.  A statement that writes
\* what the transaction missed fails.
DoMerging(s, db, w, merges) ==
    /\ Begun(s).ops < MaxOps
    /\ ~Conflicts(w, Begun(s).missed)
    /\ tx' = [tx EXCEPT ![s] = [Begun(s) EXCEPT !.view = db, !.writes = @ \cup w,
                                                !.merges = @ \cup merges, !.ops = @ + 1]]
    /\ overlapped' = (overlapped \/ Overlaps(s))
    /\ UNCHANGED <<host, applied, known>>

Do(s, db, w) == DoMerging(s, db, w, {})

\* A created or dropped table is taken over whole, rows one by one.
Committed(t) ==
    [reg |-> [i \in Id |-> IF <<"registry", i>> \in t.writes THEN t.view.reg[i] ELSE host.reg[i]],
     delta |-> [i \in Id |-> IF <<"table", i>> \in t.writes THEN t.view.delta[i]
                             ELSE IF host.delta[i] = None THEN None
                             ELSE LET written == {r \in Row : <<"row", i, r>> \in t.writes}
                                  IN (host.delta[i] \ written) \cup (Rows(t.view, i) \cap written)]]

\* An open transaction misses what the others commit.  One that already wrote
\* any of it can only end without effect, and ends here; one at its bound of
\* statements has no use for the record.
AfterCommitOf(writes, t) ==
    IF ~t.open THEN t
    ELSE IF Conflicts(t.writes, writes) THEN Closed
    ELSE [t EXCEPT !.missed = IF t.ops < MaxOps THEN @ \cup writes ELSE {}]

Commit(s) ==
    /\ tx[s].open
    /\ host' = Committed(tx[s])
    /\ applied' = [i \in Id |-> applied[i] + (IF i \in tx[s].merges THEN 1 ELSE 0)]
    /\ known' = known \cup Registered(host')
    /\ tx' = [t \in Session |-> IF t = s THEN Closed ELSE AfterCommitOf(tx[s].writes, tx[t])]
    /\ UNCHANGED <<handles, nextId, overlapped>>

\* ROLLBACK, a failed statement, a conflict.
Rollback(s) ==
    /\ tx[s].open
    /\ tx' = [tx EXCEPT ![s] = Closed]
    /\ UNCHANGED <<host, applied, handles, known, nextId, overlapped>>

-----------------------------------------------------------------------------
(* The lifecycle verbs.                                                    *)

Named(db, n) == {i \in Registered(db) : db.reg[i].name = n}
HasChildren(db, i) == \E c \in Registered(db) : db.reg[c].parent = i
ThrowIfAttached(n) == \E h \in handles : h.name = n

CopyWrites(i, inherited) ==
    IF inherited = None THEN {} ELSE {<<"table", i>>} \cup RowsOf(i, inherited)

\* Mutant of CreateWrites: two scenarios of one name can be created at once.
CreateWritesUnindexed(i, n, inherited) == {<<"registry", i>>} \cup CopyWrites(i, inherited)

CreateWrites(i, n, inherited) ==
    {<<"registry", i>>, <<"name", n>>} \cup CopyWrites(i, inherited)

\* Mutant of NextId: the largest registered id plus one.
NextIdFromTable(db) == CHOOSE i \in 1..(MaxId + 1) : /\ \A j \in Registered(db) : j < i
                                                     /\ i = 1 \/ (i - 1) \in Registered(db)

NextId(db) == nextId

\* scenario_create: a branch inherits the rows of its parent's delta.
Create(s, n, p) ==
    LET db == View(s)
        i == NextId(db)
        inherited == IF p = None THEN None ELSE db.delta[p]
    IN /\ i \in Id
       /\ Named(db, n) = {}
       /\ p # None => p \in Registered(db)
       /\ nextId' = i + 1
       /\ Do(s, [db EXCEPT !.reg[i] = [name |-> n, frozen |-> FALSE, merged |-> FALSE, parent |-> p],
                           !.delta[i] = inherited],
             CreateWrites(i, n, inherited))
       /\ UNCHANGED handles

\* Mutant of DropAllowed: the branches are not looked for.
DropAllowedWithBranches(db, i) == ~ThrowIfAttached(db.reg[i].name)

DropAllowed(db, i) == ~ThrowIfAttached(db.reg[i].name) /\ ~HasChildren(db, i)

Drop(s, i) ==
    LET db == View(s)
    IN /\ i \in Registered(db)
       /\ DropAllowed(db, i)
       /\ Do(s, [db EXCEPT !.reg[i] = None, !.delta[i] = None],
             {<<"registry", i>>} \cup (IF db.delta[i] = None THEN {} ELSE {<<"table", i>>}))
       /\ UNCHANGED <<handles, nextId>>

SetFrozen(s, i, frozen) ==
    /\ Do(s, [View(s) EXCEPT !.reg[i].frozen = frozen], {<<"registry", i>>})
    /\ UNCHANGED <<handles, nextId>>

Freeze(s, i) ==
    /\ i \in Registered(View(s))
    /\ SetFrozen(s, i, TRUE)

Unfreeze(s, i) ==
    /\ i \in Registered(View(s))
    /\ ~View(s).reg[i].merged
    /\ SetFrozen(s, i, FALSE)

\* Mutant of MergeAllowed: a merged scenario is merged again.
MergeAllowedAgain(db, i) == ~HasChildren(db, i)

MergeAllowed(db, i) == /\ ~db.reg[i].merged
                       /\ ~db.reg[i].frozen
                       /\ ~HasChildren(db, i)

\* Mutant of MergeWrites: the registry row is not written.
MergeWritesUnmarked(db, i) == RowsOf(i, Rows(db, i))

MergeWrites(db, i) == {<<"registry", i>>} \cup RowsOf(i, Rows(db, i))

\* scenario_merge over host tables: apply the delta rows, empty the delta,
\* MarkMerged (which freezes too).
Merge(s, i) ==
    LET db == View(s)
    IN /\ i \in Registered(db)
       /\ MergeAllowed(db, i)
       /\ DoMerging(s, [db EXCEPT !.reg[i].merged = TRUE, !.reg[i].frozen = TRUE,
                                  !.delta[i] = IF @ = None THEN None ELSE {}],
                    MergeWrites(db, i), {i})
       /\ UNCHANGED <<handles, nextId>>

-----------------------------------------------------------------------------
(* Attached handles and the writes through them.                           *)

\* ATTACH: the scenario is looked up in the caller's transaction, which may be
\* the one that created it; the handle keeps the id it resolved.
Attach(s, i) ==
    /\ i \in Registered(View(s))
    /\ Cardinality(handles) < MaxHandles
    /\ handles' = handles \cup {[id |-> i, name |-> View(s).reg[i].name]}
    /\ tx' = [tx EXCEPT ![s] = [Begun(s) EXCEPT !.ops = IF @ < MaxOps THEN @ + 1 ELSE @]]
    /\ overlapped' = (overlapped \/ Overlaps(s))
    /\ UNCHANGED <<host, applied, known, nextId>>

Detach(h) ==
    /\ handles' = handles \ {h}
    /\ UNCHANGED <<host, applied, tx, known, nextId, overlapped>>

\* ThrowIfNotWritable: an id without a registry entry is not refused.
Writable(db, i) == i \in Registered(db) => ~db.reg[i].frozen

\* GetOrCreateWriteDelta: the first write of a table creates its delta.
FirstWrite(db, i) == IF db.delta[i] = None THEN {<<"table", i>>} ELSE {}

\* A write of the scenario's table: a row joins or leaves the delta.
WriteRow(s, h, r) ==
    LET db == View(s)
        i == h.id
    IN /\ Writable(db, i)
       /\ Do(s, [db EXCEPT !.delta[i] = IF r \in Rows(db, i) THEN @ \ {r} ELSE Rows(db, i) \cup {r}],
             FirstWrite(db, i) \cup RowsOf(i, {r}))
       /\ UNCHANGED <<handles, nextId>>

-----------------------------------------------------------------------------
Init ==
    /\ host = Empty
    /\ applied = [i \in Id |-> 0]
    /\ tx = [s \in Session |-> Closed]
    /\ handles = {}
    /\ known = {}
    /\ nextId = 1
    /\ overlapped = FALSE

Next ==
    \/ \E s \in Session : Commit(s) \/ Rollback(s)
    \/ \E s \in Session, n \in Name, p \in Id \cup {None} : Create(s, n, p)
    \/ \E s \in Session, i \in Id : Drop(s, i) \/ Freeze(s, i) \/ Unfreeze(s, i) \/ Merge(s, i)
    \/ \E s \in Session, i \in Id : Attach(s, i)
    \/ \E h \in handles : Detach(h)
    \/ \E s \in Session, h \in handles, r \in Row : WriteRow(s, h, r)

Spec == Init /\ [][Next]_vars

-----------------------------------------------------------------------------
(* Properties.                                                             *)

Transaction == [open : BOOLEAN, view : Database, writes : SUBSET Resource,
                missed : SUBSET Resource, merges : SUBSET Id, ops : 0..MaxOps]

TypeOK ==
    /\ host \in Database
    /\ applied \in [Id -> 0..2]
    /\ tx \in [Session -> Transaction]
    /\ handles \subseteq Handle
    /\ known \subseteq Id
    /\ nextId \in 1..(MaxId + 1)
    /\ overlapped \in BOOLEAN

\* A name resolves to one scenario.
NamesAreUnique == \A n \in Name : Cardinality(Named(host, n)) <= 1

\* A merged scenario is closed for good: frozen, and applied to the base once,
\* also when merges, freezes and unfreezes race.
MergedIsClosed ==
    \A i \in Id : /\ applied[i] <= 1
                  /\ i \in Registered(host) /\ host.reg[i].merged => host.reg[i].frozen

\* A handle outlives its scenario when ATTACH races with scenario_drop, and the
\* name can be created again: what the handle then writes must not end up in
\* the new scenario.
HandleMeansItsScenario ==
    \A h \in handles : h.id \in Registered(host) => host.reg[h.id].name = h.name

\* README.md:173: on success of scenario_merge the scenario ends up frozen
\* with an empty delta.
MergedIsEmpty ==
    \A i \in Registered(host) : host.reg[i].merged => Rows(host, i) = {}

\* docs/API_REFERENCE.md:152: scenario_drop removes the scenario and its delta
\* tables, ...
NoOrphanDelta == \A i \in known : host.delta[i] # None => i \in Registered(host)

\* ... and refuses while branches exist.
NoDanglingParent ==
    \A i \in Registered(host) : host.reg[i].parent # None => host.reg[i].parent \in Registered(host)

\* While transactions do not overlap, the guards of the verbs suffice for all
\* three.  They speak of scenarios the host has registered: one whose creation
\* was rolled back after it was attached still has its handle, and a write
\* through it still makes a delta.
SerialRegistryIsSound ==
    ~overlapped => MergedIsEmpty /\ NoOrphanDelta /\ NoDanglingParent
=============================================================================
