--------------------------- MODULE ScenarioIdentity ---------------------------
(***************************************************************************)
(* The row identity of one table of a scenario: the columns its delta is   *)
(* keyed on, or none (a keyless table, a bag delta).                       *)
(*                                                                         *)
(* The identity is resolved from three things that change in different     *)
(* transactions: the delta's shape once it exists, a declared key (a row   *)
(* of scenario_tables), the base table's PRIMARY KEY.  A transaction       *)
(* resolves it once per attached handle and keeps the answer; it reads the *)
(* declared keys once and keeps those too.                                 *)
(*                                                                         *)
(* The same scenario may be attached under several handles.  Columns are   *)
(* renamed, never dropped, so a position keeps its column.                 *)
(***************************************************************************)
EXTENDS Naturals, FiniteSets

CONSTANTS
    Session,   \* connections
    Handle,    \* catalogs the scenario is attached as
    Column,    \* columns of the base table, by position
    ColName,   \* names a column can have
    MaxKey,    \* bound: columns of a key
    MaxRenames, \* bound: renamed columns
    MaxOps     \* bound: statements in a transaction of each session

VARIABLES
    host,        \* the committed host database
    tx,          \* the open transaction of each session
    overlapped,  \* history: two transactions overlapped
    renames      \* history: how many columns of the base were renamed

vars == <<host, tx, overlapped, renames>>

-----------------------------------------------------------------------------
(* The host database and its transactions.  The first committer of a       *)
(* conflicting write wins; what a transaction only read is not checked.    *)

BaseTable == [names : [Column -> ColName], pk : SUBSET Column]

\* declared: the row of scenario_tables, {} without one; shape: the PRIMARY
\* KEY of the delta once it is created, by position, {} for a bag delta.
Database == [base : BaseTable, declared : SUBSET ColName, created : BOOLEAN, shape : SUBSET Column]

Resource == {"base", "declared", "delta"}

Cache == [loaded : BOOLEAN, keys : SUBSET ColName]
NotLoaded == [loaded |-> FALSE, keys |-> {}]

\* A table entry: the identity and the base table it was built with.
TableEntry == [key : SUBSET Column, base : BaseTable]

Closed == [open |-> FALSE]

\* view: the snapshot with the transaction's own changes; missed: what others
\* committed since; entries: the table entry of each handle used so far.
Opened(db) == [open |-> TRUE, view |-> db, writes |-> {}, missed |-> {},
               cache |-> NotLoaded, entries |-> [h \in {} |-> h], ops |-> 0]

Begun(s) == IF tx[s].open THEN tx[s] ELSE Opened(host)

\* One statement that leaves the transaction as t and wrote w.
Do(s, t, w) ==
    /\ t.ops < MaxOps[s]
    /\ w \cap t.missed = {}
    /\ tx' = [tx EXCEPT ![s] = [t EXCEPT !.writes = @ \cup w, !.ops = @ + 1]]
    /\ overlapped' = (overlapped \/ (~tx[s].open /\ \E o \in Session : tx[o].open))
    /\ UNCHANGED host

Committed(t) ==
    [base |-> IF "base" \in t.writes THEN t.view.base ELSE host.base,
     declared |-> IF "declared" \in t.writes THEN t.view.declared ELSE host.declared,
     created |-> host.created \/ "delta" \in t.writes,
     shape |-> IF "delta" \in t.writes THEN t.view.shape ELSE host.shape]

\* One that already wrote any of it can only end without effect, and ends here;
\* one at its bound of statements has no use for the record.
AfterCommitOf(writes, s) ==
    IF ~tx[s].open THEN tx[s]
    ELSE IF tx[s].writes \cap writes # {} THEN Closed
    ELSE [tx[s] EXCEPT !.missed = IF tx[s].ops < MaxOps[s] THEN @ \cup writes ELSE {}]

Commit(s) ==
    /\ tx[s].open
    /\ host' = Committed(tx[s])
    /\ tx' = [o \in Session |-> IF o = s THEN Closed ELSE AfterCommitOf(tx[s].writes, o)]
    /\ UNCHANGED <<overlapped, renames>>

\* ROLLBACK, a failed statement, a conflict.
Rollback(s) ==
    /\ tx[s].open
    /\ tx' = [tx EXCEPT ![s] = Closed]
    /\ UNCHANGED <<host, overlapped, renames>>

-----------------------------------------------------------------------------
(* Resolving the identity.                                                 *)

\* LookupDeclaredKey: what this transaction read of scenario_tables.
Declared(t) == IF t.cache.loaded THEN t.cache.keys ELSE t.view.declared

\* The same after a lookup, which fills the cache.
LookedUp(t) == [t EXCEPT !.cache = [loaded |-> TRUE, keys |-> Declared(t)]]

Positions(names, keys) == {c \in Column : names[c] \in keys}
Vanished(names, keys) == \E n \in keys : \A c \in Column : names[c] # n

\* GetKeyColumns: the delta's shape, else the declared key, else the base PK.
GetKeyColumns(t, base) ==
    IF t.view.created THEN t.view.shape
    ELSE IF Declared(t) # {} THEN Positions(base.names, Declared(t))
    ELSE base.pk

\* ... which throws when a declared column is gone from the base.
KeyIsBroken(t, base) == ~t.view.created /\ Vanished(base.names, Declared(t))

\* GetOrCreateEntry: a broken key binds as keyless.
NewEntry(t) ==
    [key |-> IF KeyIsBroken(t, t.view.base) THEN {} ELSE GetKeyColumns(t, t.view.base),
     base |-> t.view.base]

\* The transaction once handle h is bound: only the first use builds an entry.
\* A delta found settles the identity without a look at the declared keys.
Bound(t, h) ==
    IF h \in DOMAIN t.entries THEN t
    ELSE LET u == IF t.view.created THEN t ELSE LookedUp(t)
             entries == [g \in DOMAIN t.entries \cup {h} |->
                            IF g = h THEN NewEntry(t) ELSE t.entries[g]]
         IN [u EXCEPT !.entries = entries]

-----------------------------------------------------------------------------
(* Statements.                                                             *)

\* A read, or a write once the delta exists, uses the entry as it is.
Use(s, h) ==
    /\ h \notin DOMAIN Begun(s).entries
    /\ Do(s, Bound(Begun(s), h), {})
    /\ UNCHANGED renames

\* Mutant of SameIdentity: the entry's identity is not compared.
SameIdentityUnchecked(t, e) == ~KeyIsBroken(t, e.base)

\* The code also compares the order of the columns and so refuses a little more.
SameIdentity(t, e) == ~KeyIsBroken(t, e.base) /\ GetKeyColumns(t, e.base) = e.key

\* EnsureDeltaTable
WithDelta(t, key) == [t EXCEPT !.view.created = TRUE, !.view.shape = key]

\* GetOrCreateWriteDelta without a delta: the identity is resolved again, on
\* the base table the entry was built with, and must be the entry's.
FirstWrite(s, h) ==
    LET t == Bound(Begun(s), h)
        e == t.entries[h]
    IN /\ ~t.view.created
       /\ SameIdentity(t, e)
       /\ Do(s, WithDelta(LookedUp(t), GetKeyColumns(t, e.base)), {"delta"})
       /\ UNCHANGED renames

\* Mutant of MayDeclare: a table that was written can be given a key.
MayDeclareAfterWrite(t) == Declared(t) = {} \/ Vanished(t.view.base.names, Declared(t))

\* No delta, and no declared key, or one nothing can be built from any more.
MayDeclare(t) ==
    /\ ~t.view.created
    /\ Declared(t) = {} \/ Vanished(t.view.base.names, Declared(t))

\* Mutant of Invalidated: the declared keys stay cached.
InvalidatedNever(t) == LookedUp(t)

\* InsertDeclaredKey and ReplaceDeclaredKey drop the cached keys.
Invalidated(t) == [t EXCEPT !.cache = NotLoaded]

WithDeclared(t, keys) == [t EXCEPT !.view.declared = keys]

\* scenario_refresh: declare keys, or re-declare a broken key.
Refresh(s, keys) ==
    LET t == Begun(s)
    IN /\ Cardinality(keys) \in 1..MaxKey
       /\ t.view.base.pk = {}
       /\ ~Vanished(t.view.base.names, keys)
       /\ MayDeclare(t)
       /\ Do(s, WithDeclared(Invalidated(t), keys), {"declared"})
       /\ UNCHANGED renames

\* ALTER TABLE of the base: RENAME COLUMN, ADD PRIMARY KEY.
RenameColumn(s, c, n) ==
    LET t == Begun(s)
    IN /\ renames < MaxRenames
       /\ \A d \in Column : t.view.base.names[d] # n
       /\ Do(s, [t EXCEPT !.view.base = [t.view.base EXCEPT !.names[c] = n]], {"base"})
       /\ renames' = renames + 1

AddPrimaryKey(s, key) ==
    LET t == Begun(s)
    IN /\ Cardinality(key) \in 1..MaxKey
       /\ t.view.base.pk = {}
       /\ Do(s, [t EXCEPT !.view.base = [t.view.base EXCEPT !.pk = key]], {"base"})
       /\ UNCHANGED renames

-----------------------------------------------------------------------------
\* scenario_create recorded the declared keys of a table without a PK.
Init ==
    /\ host \in Database
    /\ \A c, d \in Column : host.base.names[c] = host.base.names[d] => c = d
    /\ Cardinality(host.base.pk) <= MaxKey /\ Cardinality(host.declared) <= MaxKey
    /\ host.declared # {} => host.base.pk = {}
    /\ ~Vanished(host.base.names, host.declared)
    /\ ~host.created
    /\ host.shape = {}
    /\ tx = [s \in Session |-> Closed]
    /\ overlapped = FALSE
    /\ renames = 0

Next ==
    \E s \in Session :
        \/ Commit(s)
        \/ Rollback(s)
        \/ \E h \in Handle : Use(s, h) \/ FirstWrite(s, h)
        \/ \E keys \in SUBSET ColName : Refresh(s, keys)
        \/ \E c \in Column, n \in ColName : RenameColumn(s, c, n)
        \/ \E key \in SUBSET Column : AddPrimaryKey(s, key)

Spec == Init /\ [][Next]_vars

-----------------------------------------------------------------------------
(* Properties.                                                             *)

OpenTx == [open : {TRUE}, view : Database, writes : SUBSET Resource, missed : SUBSET Resource,
           cache : Cache, entries : UNION {[H -> TableEntry] : H \in SUBSET Handle}, ops : Nat]

TypeOK ==
    /\ host \in Database
    /\ tx \in [Session -> {Closed} \cup OpenTx]
    /\ overlapped \in BOOLEAN
    /\ renames \in Nat

\* A transaction that declares a key or alters the base and uses the scenario
\* under two handles may hold two identities.
OneIdentity(t) ==
    \/ t.writes \cap {"base", "declared"} = {}
    \/ \A g, h \in DOMAIN t.entries : g = h

\* scenario_delta.cpp:566: "readers must follow the rows that are actually
\* there".  The identity a transaction reads and writes with is the shape of
\* the delta it sees, and that is the delta's shape in the host.
ReadersFollowTheRows ==
    \A s \in Session : tx[s].open /\ tx[s].view.created =>
        /\ OneIdentity(tx[s]) => \A h \in DOMAIN tx[s].entries : tx[s].entries[h].key = tx[s].view.shape
        /\ host.created => host.shape = tx[s].view.shape

\* The declared keys a transaction cached are those it would read.
CacheIsCurrent ==
    \A s \in Session : tx[s].open => Declared(tx[s]) = tx[s].view.declared

\* scenario_delta.cpp:563: delta and declared key "only disagree after a race
\* ... or a base schema change": without a race a table with a declared key is
\* never keyless, and without a rename its delta is keyed on those columns.
IdentityAgrees ==
    ~overlapped /\ host.created /\ host.declared # {} =>
        /\ host.shape # {}
        /\ renames = 0 => host.shape = Positions(host.base.names, host.declared)
=============================================================================
