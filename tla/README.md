# A verification of anofox-scenario in TLA+

anofox-scenario is a DuckDB extension.  A *scenario* is a cheap, git-like branch
over the tables of a base catalog: it is attached as a catalog of its own, reads
the base merged with its recorded changes, accepts INSERT, UPDATE, DELETE and
MERGE INTO without touching the base, and is merged back or dropped.

This directory holds models of the extension's core (`Scenario*.tla`), the
configurations TLC checks them with (`MC*.tla`, `*.cfg`), and proofs that the TLA+
proof system checks (`*Proofs.tla`).  Paths below are relative to `src/`, the root
of the repository.  `PROJECT.json` maps every definition to its lines.

To check a model: `tlc -workers 2 -config MCScenarioDmlFixed.cfg MCScenarioDml`.
To check a proof: `tlapm ScenarioDmlProofs.tla`.

## 1. The system

### Where the state is

Everything durable is in the *host* database, in schema `__anofox_scenario`:

| state | written by | what it is |
|---|---|---|
| `registry` | lifecycle verbs | one row a scenario: id, unique name, mode, frozen, parent_id, created_at, merged_at, base_catalog |
| `registry_seq` | create | the next id; a sequence, so not rolled back |
| `scenario_tables` | refresh | declared keys, (scenario, table) -> columns |
| `s<id>_delta_<table>` | DML sinks | the changes: `_op` in I, U, D, `_ts`, payload.  Keyed by the identity, or a bag of rows if the table has none |
| `s<id>_mat_<table>` | create | a materialized scenario's snapshot of the base |

In memory: the attached catalogs (id, mode, name as ATTACH found them), the
per-transaction cache of declared keys, the databases a transaction is known to
write, and per statement the sink's key map, touched set and chunk buffers.

### Components

| component (under `src/src/`) | operations | what would make it correct |
|---|---|---|
| DML sinks, keyed: `catalog/scenario_insert.cpp`, `scenario_update_delete.cpp` | INSERT, UPDATE in place, UPDATE of the key, DELETE, flush of a chunk | the scenario table behaves as an ordinary table with a primary key; each delta row's op tells the merge the truth |
| DML and scan, keyless: the same files, `scenario_scan.cpp`, `scenario_unique.cpp` | the same, by value and count; MERGE's actions | copies are counted right; UNIQUE holds although no index can enforce it |
| merge-on-read scan: `catalog/scenario_scan.cpp` | emit delta rows, then base rows the delta does not hide | no row twice, none missing |
| unique probes: `catalog/scenario_unique.cpp` | primary key, secondary UNIQUE, keyless UNIQUE | refuses exactly the duplicates of the merged state |
| MERGE INTO planner: `catalog/scenario_merge_into.cpp` | several action sinks in one statement | they touch a row once between them |
| merge-back, host: `lifecycle/scenario_merge.cpp` | preview, merge under abort / ours / theirs | the base becomes what the scenario showed; no base change is lost unasked; the preview is the plan |
| merge-back, other catalogs: the same file | second connection, own commit, tag, bookkeeping | applied once, whatever fails between the two commits |
| lifecycle verbs: `lifecycle/scenario_lifecycle.cpp` | create, branch, drop, freeze, unfreeze, refresh, list | the registry stays sound with concurrent callers |
| registry: `catalog/scenario_registry.cpp` | lookups, inserts and updates of registry rows, ids | names unique, ids never reused |
| attach and catalog: `catalog/scenario_storage_extension.cpp`, `scenario_catalog.cpp`, `scenario_schema_entry.cpp`, `scenario_table_entry.cpp`, `scenario_transaction.cpp` | ATTACH, DETACH, bind, write checks, first write | a handle means the scenario it was opened for |
| delta tables and identity: `catalog/scenario_delta.cpp` | identity resolution, DDL, index probe, logical names, legacy upgrade | delta and readers agree on the identity |
| `lifecycle/scenario_diff.cpp` | read-only diff queries | the diff is the difference of the two views |
| `lifecycle/scenario_migrate.cpp` | fold a v1 log into a delta | the fold is what replaying the log shows |
| `include/catalog/scenario_compat.hpp`, `anofox_scenario_extension.cpp` | version shims, entry points, telemetry | no state |

### How they interact

- A lifecycle verb is a table function that reads and writes the registry *in its
  caller's transaction*.  It sees the host through that transaction's snapshot, and
  only write-write conflicts stop it.
- ATTACH reads the registry and keeps id and mode in a catalog object.  Statements
  bound through that object carry the table's identity (`GetKeyColumns`).  Each write
  checks `frozen` in the statement's own snapshot, and the first one creates the delta.
- A statement's source is the scan: delta rows first, then base rows the delta does
  not suppress.  The sink translates source rows into delta rows, and reads the delta
  again through the key map.  Sinks of one connection are serialized by `sink_lock`
  and `write_lock`.
- A merge classifies the delta against the base.  In the host it applies in the
  caller's transaction, together with the bookkeeping (freeze, stamp, empty).  For
  another catalog it opens a second connection with a commit of its own, which is
  why it insists on autocommit, tags DuckLake commits and looks for the tag.

### What is hard about it

The op of a delta row is a claim about the base that was true when it was written.
Long sequences of statements must keep it true, one statement may touch a key several
times, and over an *overlay* scenario the base moves underneath.  Keyless tables have
no identity at all, only counts.  Verbs check by reading (is it attached? has it
children? is it frozen?) in a database that detects only write-write conflicts.  A
merge into a lake is two commits with nothing atomic around them.  `PROJECT.json`
lists these hazards line by line with the property that covers each, or the reason
why none does yet.

## 2. The models

### ScenarioDml: statements on a keyed table

| state | in the code |
|---|---|
| `base`, `delta` | the base table and `s<id>_delta_<table>`, in the snapshot of the running transaction, by key |
| `saved` | the delta when the statement began (the host undoes a failing statement) |
| `verb`, `input`, `todo` | the statement and its source rows, each with the sink it is for |
| `joined`, `tracked`, `touched` | `ScenarioChildCanRepeatRows`, `track_touches`, `ScenarioTouchedRows` |
| `keys` | a `ScenarioDeltaKeyMap` for each sink: op and row id per key, `pending` for the id -1 of a row this sink buffered |
| `sink`, `adds`, `removes` | the sink whose chunk is open, its `append_ops` / `append_rows`, and `rows_to_remove` |

`BeginInsert`, `BeginUpdate` and `BeginDelete` choose source rows from what the scan
emits, in scan order, or in any order and repeated if a join feeds the sink.
`BeginMerge` is MERGE INTO: its rows go to the sinks of up to three actions, each with
key map and buffers of its own, while the touched set is common and always consulted;
a sink flushes before another one has its turn.
`InsertRow`, `UpdateInPlace`, `UpdateMovingKey`, `DeleteSkips` and `DeleteRow` are one
source row each, with the probe, the touch rule, the op transition and the buffering.
`FlushChunk` may come after any row, so every way of cutting the source into chunks is
explored.  `FailStatement` is a refused row or a chunk that meets the delta's own index; an error in a row's
data (NOT NULL, CHECK) is undone in the same way and left out.  `BaseCommit`, enabled for a live base,
is another session's change between two statements.

`OrdinaryTable` is the abstract specification: a table with a primary key and four
atomic statements.  `ImplementsOrdinaryTable` maps the merged view at statement
boundaries, and the running verb, to it: a statement of the scenario takes effect in one
step when it ends, as a statement of its kind may, or fails and changes nothing.

### ScenarioBag: keyless tables

The delta is kept as the net per value that all its readers compute (`net`), the base
as a count per value (`main`, `snap`).  A copy is a pair of value and number, which is
what the scan's row number gives the sinks.  `SinkInsert`, `SinkUpdate` and
`SinkDelete` are one chunk each: double touch by row number, the counted UNIQUE probe
with the chunk's own deletes and inserts, and the flush.  A statement of kind `merge`
sends chunks to several sinks that share one touched set.  `Merge(policy)` replays the
net on the base; `Preview...` operators are the preview's query.  `Diff`, `DiffSides` and
`Summary` are the queries of `scenario_diff`, `scenario_diff` of two sides and
`scenario_diff_summary`.

### ScenarioMerge: UNIQUE probe, diff and merge-back of a keyed table in the host

Statements of one chunk build a delta while `BaseCommit` changes the base.  A chunk
inserts any number of rows, or updates and moves any number of them; `Mask` and `Admitted`
are `CollectReplaced` and `ProbeSecondary`, which decide whether its values are free
in the merged state, given what the chunk is about to replace.
`Conflict` is the classification, `Applied(policy)` what on_conflict leaves,
`AppendAccepted` whether the appends pass the base's UNIQUE index (deletes are
registered with the transaction first).  `PreviewConflict` is translated from the
preview's own SQL, not from `Conflict`: the two are separate code, and
`PreviewIsThePlan` compares them.  `Diff` is the query of `scenario_diff`, `DiffSides` that
of the generic diff of a scenario against main; `DiffShowsTheChange` compares both with the
difference of the two tables they are about.  A *branch* of a materialized parent
reads the parent's snapshot and merges with mode `delta`.

### ScenarioLifecycle: verbs, handles and transactions

`host` is the committed registry and the deltas.  Each session's `tx` has a snapshot
with its own changes (`view`), the resources it wrote (`writes`) and those others
committed since (`missed`).  A commit succeeds if the two do not meet.  Each verb is an
action whose guard reads `view`, as the code does, and so is `Attach`: it looks the scenario up in
its caller's transaction, which may have created it and may yet be rolled back.  `handles` and
`nextId` are outside transactions: a rollback takes back neither a handle nor an id.  An ATTACH
is a statement but is allowed in a transaction at its bound, so that a creation and
the ATTACH of what it created fit into one transaction of one other statement.  `overlapped`,
`applied` and `known` are history variables: whether two transactions ever overlapped, how
often a scenario reached its base, and which scenarios the host ever registered.

### ScenarioLakeMerge: merge-back into another catalog

One call goes through `Start` (the caller's snapshot), `ReadDelta` and `FindTag` (the
second connection), `CommitLake` and `Close` (the bookkeeping in the caller's
transaction).  `Fail` and `Crash` may come between any two.  Others write, remove,
freeze and unfreeze meanwhile.  `clock` times the writes, since the tag's fingerprint is
made from row count and row hashes, `_ts` included; `copies` is the history of the lake.

### ScenarioIdentity: the columns a delta is keyed on

One table of a scenario, several connections in snapshot-isolated transactions, several
handles on the same scenario.  `host` has the base table (column names, PRIMARY KEY), the
declared key and the delta's shape; a `tx` has its snapshot with its own changes, the
cache of declared keys (`ScenarioClientState`) and the table entry of each handle
(`ScenarioSchemaEntry`), built at the first use and kept.  `Use` is a read; `FirstWrite` is
`GetOrCreateWriteDelta` on a table without a delta, which resolves the identity again and
compares; `Refresh` declares or re-declares a key; `RenameColumn` and `AddPrimaryKey` alter
the base.  `overlapped` and `renames` are history, for `IdentityAgrees`, which states
what the comment at `src/catalog/scenario_delta.cpp:563` says: delta and declared key
disagree only after a race or a base schema change.  `SameIdentity` compares sets of columns where
the code compares lists (`src/catalog/scenario_catalog.cpp:262`), and so refuses a little less; no property
depends on the order.

### ScenarioUpgrade: old keyless deltas at ATTACH

A delta of the layout before v0.4.1 (`Legacy`), or the bag it becomes.  `Attach` is
`TryUpgradeLegacyKeylessDeltas` in whatever transaction the ATTACH runs in, with its four
reasons to leave the delta alone; `Insert` and `Delete` are other handles' writes,
`WriteHost` and `WriteOther` the transaction's other statements under the rule that a
transaction writes one database (`MarkHostWrite`).  History: `log` is what committed
transactions did to each row, `missed` what the others have committed since a transaction began,
`lost` what an upgrade's transaction had missed when it committed, `behind` that an older
transaction of this one has committed an upgrade.

### ScenarioNames: logical names

`EncodeLogicalName` and `SplitLogicalName` as functions on sequences of characters, checked
against each other on every schema and table name of up to three characters out of
separator, quote and two letters, and proved inverse for names of any length.

### Composition

`OrdinaryTable` is instantiated by `ScenarioDml`.  The other modules meet in the data they
share: `ScenarioMerge` applies a chunk as one step because `StatementEffect` and
`Canonical` show that this is what the sinks do with it, and
`ScenarioLifecycle` and `ScenarioLakeMerge` keep of a delta only which rows it has.
`ScenarioIdentity` says which columns the `Key` of `ScenarioDml` stands for.
`ScenarioLake` holds the parameters of `ScenarioLakeMerge`.
`MCScenarioMerge` puts `ScenarioMerge` and `ScenarioLakeMerge` side by side for one TLC run, and
`MCScenarioSessions` `ScenarioLifecycle`, `ScenarioIdentity`, `ScenarioUpgrade` and
`ScenarioNames`: they share no state, a behaviour is one of them
from its first state on, and each property speaks of its own component.  It is
a disjoint sum and not a product, so each is explored as fully as it would be alone.
`ScenarioLakeMerge`, `ScenarioIdentity` and `ScenarioUpgrade` are instantiated through their
proof modules, which brings in their theorems and changes nothing TLC sees.

## 3. The runs

| run | question | instance | distinct states |
|---|---|---|---|
| `dml_fixed` | Do long and repeated statements keep the delta canonical and the table ordinary? | 3 keys, 1 value, 3 source rows, MERGE INTO of 3 rows, fixed base | 49,799 |
| `dml_live` | Does a statement have its effect while the base moves? | 2 keys, 2 values, 3 source rows, live base | 339,495 |
| `dml_claims` | Does the documented scan rule hold? (violated) | 2 keys, 2 values, live base | |
| `bag` | Do keyless tables count right, up to diff and merge? | 3 values, 2 of them with the same UNIQUE value and 1 NULL; 2 copies, 2 source rows | 154,959 |
| `bag_unique` | Is counted UNIQUE enforced over a live base? (violated) | as `bag` | |
| `merge` | Is the UNIQUE probe exact, the diff the difference, and does the merge leave what the scenario showed and lose nothing? | 3 keys, 3 values, UNIQUE column | 12,540 |
| | Is each row applied to a lake once, whatever fails? | 1 caller, 2 rows, 4 writes | 13,149 |
| `lifecycle` | Is the registry sound with two sessions? | 2 sessions, 2 names, 2 ids, 1 row, 1 handle | 1,022,896 |
| | Do readers and delta agree on the identity? | 2 connections (3 statements and 1), 2 handles, 2 columns, 3 column names, 2 renames | about 81,500 |
| | Which copies and commits does the upgrade lose? | 2 sessions, 1 row, 2 copies | 44,367 |
| | Are logical names unambiguous? | all pairs of names of up to 3 characters | 7,056 |
| `merged_is_empty`, `no_orphan_delta`, `no_dangling_parent` | Three documented postconditions, with overlapping transactions (violated) | as the first line of `lifecycle` | |
| `upgrade_content` | Does the upgrade leave the logical content unchanged? (violated) | 2 sessions, 1 row, 2 copies | |
| `lake_race` | Are rows applied to a lake once also with two callers? (violated) | 2 callers, 1 row, 1 write | |

`TypeOK` of `ScenarioDml`, `ScenarioMerge`, `ScenarioLakeMerge`, `ScenarioIdentity` and
`ScenarioUpgrade` is not in a configuration: it is proved.
The properties of all passing runs are proved as well, for every value of the constants (section 5).

What each property says is in the comment above it.  The ones that matter most:

- `Canonical`: I means the base lacks the key, U and D that it has it.
- `StatementEffect` (both DML modules): a statement replaces exactly the rows its scan gave it.
- `ImplementsOrdinaryTable`: refinement, with failing statements undone whole.
- `DuplicatesAreReal` and `FlushAccepted`: duplicates are refused by the sink's probes,
  only if they are duplicates, and never by the delta's own index.
- `ProbeIsExact`: the UNIQUE probe admits a chunk exactly if the merged state stays unique.
- `DiffShowsTheChange` (both merge modules): the diff is the difference of the two views.
- `ScenarioWins`, `NoBaseChangeLost`, `PreviewIsThePlan`, `UnchangedBaseAccepts`: the merge.
- `SerialRegistryIsSound`: without overlap the verbs' guards suffice for what the three
  violation runs show to fail with overlap, also after the rollback of a transaction that
  attached.  `NoOrphanDelta` is about scenarios the host has registered at some time: a creation
  that is attached and rolled back leaves a handle whose writes make a delta of no scenario, in one
  session (section 4).
- `ReadersFollowTheRows`: the identity a transaction uses is the shape of the delta it sees.
- `EveryCopyIsAccountedFor`: what the upgrade loses is what others committed between the start of
  its transaction and its commit, copy for copy, and nothing else.  `OlderWritersCommit`: a writer whose
  commit fails because its delta was swapped is younger than the transaction that swapped it.
- `AppliedOnce`, `NothingDiscarded`: the two commits.

### Bounds, and why they are enough

- `dml_fixed`: three keys and three source rows are the shortest cycle of key moves
  that is not a swap, and allow a row touched twice beside another one.  Values are
  never compared by the sinks, so one suffices here; `dml_live` has two.
- `dml_live`: a base change concerns one key, a key move two.
  A MERGE of three rows gives each of three sinks one, or one sink the rows around another's.
- `bag`: two copies are the fewest that can be confused; values `a1` and `a2` share a UNIQUE
  value, `anon` has NULL.  `ChunkSize` is 2 and chunks may be shorter, so a statement
  of two rows is one chunk or two.
- `merge`: three keys and three values let two rows of a chunk swap UNIQUE values, or pass
  them round, and a third take one.
- `lifecycle`: two sessions suffice for each pairwise race.  One statement in each
  transaction, and an ATTACH after it, is where the code runs under autocommit, and the shortest
  transaction that attaches what it created; the theorems hold for any `MaxOps`.  Deadlock is not
  checked in this module: when the ids are used up and nothing is registered, no one
  can act.
- `lifecycle`, identity: three statements let a transaction bind, declare and write, against
  one statement of another; two columns and three names let a declared column vanish and
  another take its name.  `MaxOps` is a bound of each session there.
- `lifecycle`, upgrade: two sessions are the one that upgrades and one that writes; two copies
  tell a count from a flag.
- `lifecycle`, names: three characters hold a quote in front, doubled, and at either side of a
  separator, which is where parts begin and end.
- `merge`, lake: four writes allow a merge, a failure, a change, and a retry.

`SYMMETRY` is used with safety properties only, over values the modules never order and no
`CHOOSE` singles out.  `w1` in `MCScenarioSessions` has another bound than the other
connection, so connections are not permuted.

### Fairness and liveness

No specification states fairness and no liveness property is claimed.  A statement, a
verb or a merge runs synchronously in its caller's thread, and the extension retries
nothing by itself; that a caller issues the next statement, or retries a merge, is
not something the code ensures.  So any fairness would be an assumption about callers, and
"every statement ends" would only restate that the host feeds it to its end; that a sink is
never stuck with a row is the deadlock check.  What must hold however far a call gets is stated as
safety instead (`AppliedOnce`, `ImplementsOrdinaryTable`).  Deadlock is checked in every
module but `ScenarioLifecycle` and, since they share its run, the three beside it: a session
there may always begin or end a transaction, until its bounds are reached.

### What the models assume of the host

Snapshot isolation, the snapshot taken by a transaction's first statement.  A conflict
when two transactions write the same row, the same catalog entry or the same unique
key, and in no other case.  A failing statement is undone whole.  A statement reads
one snapshot, so the base changes only between statements.  The list of attached databases is
outside transactions.  A lake accepts concurrent inserts, and a commit that changes nothing leaves no snapshot
to carry a tag.  The fingerprint in the tag is taken to be injective.  Appends of two transactions to one
table do not conflict; a commit into a table dropped meanwhile fails.  `OlderTransactionActive`
compares start times, and of transactions on the host only those are modelled that may
write: a reader that is still open makes the upgrade wait, which is safe.  No property
depends on whether a delete and an update of the same registry row conflict.

## 4. Findings

Each is a violation run; the quoted text is in `PROJECT.json`.

1. `dml_claims` (documentation): the scan does not let I rows hide base rows.  If the
   base gains the key of an I row, the scenario shows both.
2. `bag_unique`: UPDATE a row, let the base delete it, INSERT the same UNIQUE value: the
   counted probe adds the base's count and a negative net that the scan would clamp.
   The scenario shows the value twice.
3. `merged_is_empty`: a write that began before a merge commits after it, into a merged,
   frozen scenario that can be neither merged nor unfrozen.
4. `no_orphan_delta`: ATTACH during a drop succeeds.  Writes through the handle then
   create a delta that belongs to no scenario.
   A rolled-back transaction that created and attached a scenario leaves the same
   without any overlap: `BEGIN; scenario_create; ATTACH; ROLLBACK; INSERT`.
5. `no_dangling_parent`: a branch created during the drop of its parent survives it.
6. `upgrade_content`: the upgrade of an old keyless delta buffers what its snapshot shows and drops the
   table, so rows another transaction committed behind that snapshot are gone.  An autocommit
   ATTACH suffices: TLC's trace is a session that inserts, one whose ATTACH takes its snapshot, the
   commit of the first, and the upgrade.
7. `lake_race`: two merges of one scenario into a lake both look for the tag before
   either commits.  Net inserts are applied twice.

### Also met while modelling

These are seen in the code, partly confirmed by TLC traces of intermediate models, and kept
out of the properties by a named condition or by what the property speaks of.

- *Two handles in one transaction* (`OneIdentity`): a transaction reads a keyless table through
  one handle, declares its key, and makes the first write through another handle.  The first
  handle goes on with its cached keyless entry over a keyed delta: the identity is compared
  only while there is no delta (`src/catalog/scenario_catalog.cpp:229-231` and `261`).
- *A younger writer*: the second effect of an upgrade beside writers.  A transaction that began
  after the upgrading one and inserted into the old delta fails at its commit.  The comment at
  `src/catalog/scenario_delta.cpp:224` speaks of older ones, and so does `OlderWritersCommit`.  Others say more:
  `docs/API_REFERENCE.md:145` ("no other transaction active on the host", "reads and `INSERT` are unaffected"),
  the comment at `src/catalog/scenario_storage_extension.cpp:40` ("not while another transaction may be
  writing the delta") and `test/sql/scenario_keyless_upgrade.test:886` ("never breaks an in-flight writer"; the writer
  it tests is the older one).
- *INSERT into an old delta*: `ProbeKeyless` returns early since "keyless writes are gated
  elsewhere" (`src/catalog/scenario_unique.cpp:265`), but only UPDATE, DELETE and MERGE are
  (`src/catalog/scenario_update_delete.cpp:1047`), so UNIQUE against the base is not enforced.
- *Keys cached by a sibling thread*: declared keys are loaded outside the lock
  (`src/catalog/scenario_registry.cpp:273`) and invalidated before the row is appended (`323`).

## 5. The proofs

Everything below holds for every value of the constants, under the named assumptions
of the module and the ones stated here.

**`ScenarioDmlProofs`.**
`TypeCorrect`: `[]TypeOK`; the state machine is large, so each sink step has a lemma
about its buffers and its key map.
`ProbesComeFirst`: `[]ProbedBeforeChanged`; inductive with `TypeOK` alone.
`OpsKeepTheirMeaning`: `[]Canonical`, for `~LiveBase` and `KeyIndex`.  `Canonical` is not
inductive: a flush takes its rows from the buffers.  `CanonicalInv` adds that the ops in
`saved`, in each sink's key map and in the buffers fit the base, and that a base row
the scan emitted is in the base.  `FlushedFits` is the lemma for the flush.
`ScanShowsAKeyOnce`: `[]ViewHasUniqueKeys`, from `Canonical` state by state.
Both assumptions are needed.  With a live base `Canonical` is false (`dml_claims`).
Without a unique index on the key columns (a declared key, or a base in a lake) the
sink does not look the key up in the base (`src/catalog/scenario_unique.cpp:26-61`), and
an INSERT writes I over a base row.

The statements of the same module need an invariant of a running one, `StatementInv`, which holds in all
four settings of `LiveBase` and `KeyIndex`:

- `IdleInv`: between statements nothing is buffered, and `delta` is `saved`;
- `SourceInv`: each source row names a row the scan showed, and a statement without a touched
  set is what `ScenarioChildCanRepeatRows` says of it, each row once and in place;
- `TouchInv`, `MapInv`: what a key map knows, the touched set knows, and an untracked statement
  uses one sink only;
- `ScanInv`: a key is met again only if the scan showed it twice, its delta row first;
- `ShownInv`: a row the scan showed stays as it was, in delta, buffers and the INSERT
  sink's map, until an UPDATE or DELETE of the statement names it;
- `QuietInv`: the buffers hold only keys the open sink has read;
- `NoPendingRemoval`, which so is inductive with the rest.

TLC has checked it, and the two invariants below, in these four settings.
From it: `PendingRowsAreNeverRemoved` and `KeyMapsNeverLoseARow`, without any assumption.
`DuplicateErrorsAreTrue` adds `InsertInv` (a key the INSERT sink knows has a row, buffered or
flushed).  `EffectInv` says, key by key, what the source rows consumed so far (`Done`) have made of
delta and buffers: the key maps know exactly the rows consumed, no two consumed UPDATE rows
share a key, old or new, a buffered row comes with the removal of the row it replaces, and a chunk laid over the delta
holds the last word on each key.  It gives `FlushesAreAccepted` and `StatementsHaveTheirEffect`,
over a live base too.  Both need `KeyIndex`, since nothing looks the key up in the base without it, and both
properties speak of statements that found the keys unique: the base of a live overlay may bring a
key twice (`dml_claims`).  `ScenarioTableIsOrdinary`, for `~LiveBase` and `KeyIndex`, is the
refinement: every step but the last of a statement is a stutter of `OrdinaryTable`, and the last
one is, by `EffectInv`, its atomic statement.  That a statement's rows may be cut into chunks
anywhere, and spread over MERGE's sinks, is where all of these are not obvious.

**`ScenarioBagProofs`.**
For any finite set of values, any number of copies, any UNIQUE column and any chunk size.
`BagInv` is `TypeOK`, `NoOverdraft`, `MergedInv` (until the merge the base keeps to its bound) and
`RunInv`, for a running statement: the copies it touched are among those the scan emitted,
no copy is both updated and deleted, and `net` is what the statement found, less the touched copies of
each value, plus the rows it added.  `NoOverdraft` follows from that and from the scan's own
arithmetic (`ScanNets`): it emits no copy the view does not have.  `UniqueInv` adds that the base and the view,
before the statement and now, hold no UNIQUE value twice; its step, `AcceptedIsUnique`, shows that
the sums `ProbeKeyless` takes over the base, the net and the chunk decide exactly that.
The sums are `FoldFunctionOnSet`s over the values with one UNIQUE value.  Their laws (a sum changes
where its function does, the sum of a sum, monotony) are proved in the module, by
induction over the number of values added so far, as is `ChunkNets`, which counts the copies in a chunk.
All ten properties of the `bag` run follow, among them `DuplicateErrorsAreTrue`
and the two action properties of the merge.  TLC has checked both invariants on the instance of `bag`.

**`ScenarioMergeProofs`.**
`ProbeDecidesUniqueness` needs no invariant but `TypeOK`: `InsertProbe` and `UpdateProbe` show
for a chunk of any size that the values the probe looks up, outside its mask, are those
that can meet a row of the merged state.
`SnapshotInv` says that the ops fit the snapshot, the snapshot has unique values, and so
has what the scenario shows.  From it: `DiffTellsTheChange`, `MergeLosesNoBaseChange` and
`MergeOfUnchangedBaseIsAccepted`; `MergeMakesTheBaseTheScenario` and
`PreviewAnnouncesTheMerge` follow from `TypeOK`.
`RetriedMergesApplyOnce` and `RetriedMergesDiscardNothing` carry the theorems of
`ScenarioLakeMergeProofs` over to `MCScenarioMerge`, where the merge into the lake runs alone
(`LakeRunsAlone`) or not at all (`HostStays`).

**`ScenarioLakeMergeProofs`.**
`LakeAppliesOnce` and `CloseDiscardsNothing`, for one caller (`OneMerger`) and a lake with
commit metadata (`Tagged`).  `TagInv`: while there is no tag nothing was applied, and a
call that is about to apply has found no tag.  `ReadInv`: no row is newer than the clock,
a row with the time the caller saw was read as such, and a call that closes
read nothing or read what the tag names.  The bookkeeping therefore empties only rows that
were applied.  Two callers break it (`lake_race`); an untagged lake does too,
as `docs/spec/architecture.md` says.

**`ScenarioLifecycleProofs`.**
For any number of sessions, names, rows, ids and statements.  Each property needs what open
transactions hold, not only the host.  `Good` relates one of them to the host: names in its
view are unique and scenarios the two share have the same name; a scenario it registered
has its name among the names it wrote (`WrittenIsKnown`), and a name it wrote is nobody's in
the host (`NamesTaken`); what it neither wrote nor missed it sees as it is (`SeesTheRest`),
and a scenario it does not see has a name it missed (`MissedNames`), so that a second
creation conflicts at its statement or at the other's commit; and a scenario it merges was
not applied before (`MergesOnce`).  `Inv` adds that all open views and all handles agree on
the names of ids, and that ids in use are below `nextId`.  A statement either alters what is
there (`Alters`) or creates (`Creates`), with one lemma each; a commit has one for
the host and one for the other transactions.  From `Inv`: `NamesAlwaysUnique`,
`MergedAlwaysClosed` and `HandleAlwaysMeansItsScenario`.
`SerialAlwaysSound` has a second invariant, `Serial`, relative to `Inv`: without an overlap one
transaction at most is open, its view differs from the host only in what it wrote
(`Traces`), so its commit leaves its view behind (`CommittedView`), and the view keeps the
three postconditions.  A handle left by a rollback is no exception: its id was never registered,
no id is given twice, and a handle of a registered scenario keeps it from being dropped (`Attached`).  Without the premise each of them is false (`merged_is_empty`,
`no_orphan_delta`, `no_dangling_parent`).

**`ScenarioIdentityProofs`.**
`Sound` says of one transaction, against the host, what makes it harmless: unless it missed
a change, it sees the delta the host has, its cache holds what it would read, and each
entry has the identity the rows have.  Every statement keeps it (a lemma each), and so does
every commit of another session, which records what it wrote in `missed`.
`CachedKeysAreCurrent` and `ReadersFollow` are parts of it.  `AgreesUnlessRaced` has an
invariant of its own, `Alone`: without an overlap there is at most one open transaction, it
began from the host as it is, and it keeps the agreement until it commits.

**`ScenarioUpgradeProofs`.**
`CopiesAccountedFor`, `OlderWriters` and `Writers`.  The invariant relates each open transaction
to its beginning: what it sees is what it began with and what it did (`Does`), or the
upgrade of that; one that swapped the delta found no older one; and of two open transactions
one is older (`Ordered`).  `Account` relates it to the host: while the layout is the one it
began with, the host holds what it began with and what it missed; afterwards it is `behind`, and
the layout never changes back.  The commit of a rebased delta then adds to the host what
`log` gains, and that of a swapped one replaces, by `Account`, the host less what it missed.

**`ScenarioSessionsProofs`.**
`EveryNameRoundTrips` is about names of any length over any letters, and any default schema.
`FlattenSeq` and the recursive function of `QuotedPart` are replaced by functions that satisfy their
equations (`FlattenedIs`, `ReadingIs`).  `DoubledText` says where each character of a part stands in its
quoted text, and `QuotedIsRead`, from the closing quote backwards, that what is read from
there on is the rest of the part; `LiteralIsRead` is the same for a part that needs no quotes, and
`PartIsRead` joins the two.
The other six theorems carry those of `ScenarioIdentityProofs` and `ScenarioUpgradeProofs` over to
the specification TLC runs: the component chosen at the start runs as its own specification
(`IdentityRunsAlone`, `UpgradeRunsAlone`), and one not chosen never begins.

**What stays with TLC.**  Every property of a passing run is stated by a theorem, so
TLC alone shows only the seven violations, and the absence of deadlock in the modules that are checked
for it.  Liveness under fairness and ENABLED are out of the prover's reach; no property here
needs them.  The library's induction theorems take an operator as a parameter, which none of the
provers can instantiate; where a proof needs induction over data it
uses `LeastNumber`, which is first-order: a set of naturals has a least member.  No module
has a RECURSIVE operator.

## 6. What is not modelled

- *RETURNING, NOT NULL, CHECK, generated columns*: an error in the data of a row is undone with its
  statement, as the failures in `FailStatement` are.
- *The index probe* over three ART indexes: which versions the trees hold for which
  transaction is DuckDB's.  The *hash prefilter* only selects rows for that probe.
- *The creation of the internal schema*, and of columns later versions added to it.
- *A lake's pinned snapshot at the first write* (`src/catalog/scenario_catalog.cpp:230-257`):
  two checks that refuse a table whose snapshot differs, without state of their own.
- *Refresh of a materialized scenario's missing tables*: it copies tables, as create does.
- *Projection, filter pushdown, parallel base scan*: they do not change what is shown.
- *scenario_migrate*: a one-time fold of v1 logs.  No writer of such logs is in the repository,
  so which logs exist, and in which order rows of equal timestamps are scanned, cannot be
  translated from it.  The fold keeps only the last row of a key, so an update or a delete
  of a base row that an insert follows becomes I (`src/lifecycle/scenario_migrate.cpp:115`);
  and no code follows the comment "parent remapped in a second pass" near line 237.
- *Version shims, entry points, telemetry*: no state.
- *Branches of a scenario over a lake.*

## 7. The plan

Done, in this order: `ScenarioDml` with `OrdinaryTable`, `ScenarioMerge`,
`ScenarioLakeMerge`, `ScenarioLifecycle`, `ScenarioBag`; then MERGE INTO with several sinks in
`ScenarioDml`, chunks, probe masks and diffs in `ScenarioMerge` and `ScenarioBag`,
`ScenarioIdentity`, `ScenarioUpgrade` and `ScenarioNames`; and the proofs above.

Every component with state of its own is modelled; what is left of them is in section 6.

What each passing run checks is proved.  Left to prove: that the one-step chunk of `ScenarioMerge` is
what the sinks of `ScenarioDml` do with one.  `StatementEffect` and `Canonical` say so of
`ScenarioDml`, but no refinement connects the two modules.
