---------------------------- MODULE ScenarioUpgrade ----------------------------
(***************************************************************************)
(* The delta of one keyless table written before v0.4.1, and its upgrade.  *)
(*                                                                         *)
(* The old layout holds inserted rows and nothing else; INSERT still       *)
(* appends to it, UPDATE and DELETE refuse it.  ATTACH drops the table and *)
(* creates it again as a bag delta, in whatever transaction the ATTACH     *)
(* runs in, if that is safe, and otherwise leaves it for a later ATTACH.   *)
(* Other connections, whose handles are attached already, write the same   *)
(* delta meanwhile.                                                        *)
(***************************************************************************)
EXTENDS Integers

CONSTANTS
    Session,    \* connections
    Row,        \* distinct row values
    BaseCopies, \* copies of each row in the base table, which nobody writes here
    MaxCopies   \* bound: copies of a row inserted, and deleted, that a transaction sees

VARIABLES
    host,      \* the committed delta
    tx,        \* the open transaction of each session
    log,       \* history: the copies the committed transactions added or removed
    lost       \* history: the copies dropped with an old table unread

vars == <<host, tx, log, lost>>

-----------------------------------------------------------------------------
(* The two layouts.                                                        *)

Copies == [Row -> Nat]

Legacy(rows) == [layout |-> "legacy", rows |-> rows]
Bag(inserted, deleted) == [layout |-> "bag", inserted |-> inserted, deleted |-> deleted]

Delta == {Legacy(rows) : rows \in Copies} \cup {Bag(i, d) : i \in Copies, d \in Copies}

IsLegacyKeylessDelta(delta) == delta.layout = "legacy"

Nothing == [r \in Row |-> 0]
Plus(f, g) == [r \in Row |-> f[r] + g[r]]
Minus(f, g) == [r \in Row |-> f[r] - g[r]]

\* What a reader adds to the base: a row of the old layout counts once.
Net(delta) == IF IsLegacyKeylessDelta(delta) THEN delta.rows ELSE Minus(delta.inserted, delta.deleted)

\* Mutant of Upgraded: a row that repeats is kept once.
UpgradedOnce(delta) == Bag([r \in Row |-> IF delta.rows[r] > 0 THEN 1 ELSE 0], Nothing)

\* UpgradeLegacyKeylessDeltas: every old row is exactly one inserted copy.
Upgraded(delta) == Bag(delta.rows, Nothing)

\* INSERT of one row, DELETE of n copies of one.
Inserted(delta, r) ==
    IF IsLegacyKeylessDelta(delta) THEN [delta EXCEPT !.rows[r] = @ + 1]
    ELSE [delta EXCEPT !.inserted[r] = @ + 1]

Deleted(delta, r, n) == [delta EXCEPT !.deleted[r] = @ + n]

\* The changes from one delta to another of the same layout, upon a third.
Rebased(from, to, upon) ==
    IF IsLegacyKeylessDelta(upon) THEN Legacy(Plus(upon.rows, Minus(to.rows, from.rows)))
    ELSE Bag(Plus(upon.inserted, Minus(to.inserted, from.inserted)),
             Plus(upon.deleted, Minus(to.deleted, from.deleted)))

-----------------------------------------------------------------------------
(* Transactions, those that may write.  auto: one statement is the whole   *)
(* transaction, and spent says that it ran; writer: the one database the   *)
(* transaction modifies; wrote: those its user's own statements wrote;     *)
(* did: the copies these added or removed; older: the transactions that    *)
(* were open when it began, and still are.  History: missed, the copies    *)
(* others committed since it began; behind, one of the older committed an  *)
(* upgrade.                                                                *)

Closed == [open |-> FALSE]

Opened(auto, older) ==
    [open |-> TRUE, auto |-> auto, spent |-> FALSE, began |-> host, seen |-> host,
     did |-> Nothing, swapped |-> FALSE, writer |-> "none", wrote |-> {}, older |-> older,
     missed |-> Nothing, behind |-> FALSE]

Active == {s \in Session : tx[s].open}

Begin(s, auto) ==
    /\ ~tx[s].open
    /\ tx' = [tx EXCEPT ![s] = Opened(auto, Active)]
    /\ UNCHANGED <<host, log, lost>>

\* One statement that leaves the transaction as t.
Do(s, t) ==
    /\ tx[s].open
    /\ ~tx[s].spent
    /\ tx' = [tx EXCEPT ![s] = [t EXCEPT !.spent = t.auto]]
    /\ UNCHANGED <<host, log, lost>>

\* What the end of a transaction, with what it committed, is to the others.
Ended(s, did, swapped) ==
    [o \in Session |->
        IF o = s THEN Closed
        ELSE IF tx[o].open
        THEN [tx[o] EXCEPT !.older = @ \ {s}, !.missed = Plus(@, did),
                           !.behind = @ \/ (swapped /\ s \in tx[o].older)]
        ELSE tx[o]]

\* A commit whose delta another transaction has dropped since fails.
Dropped(s) == tx[s].seen # tx[s].began /\ tx[s].began.layout # host.layout

\* The swapped table holds what its transaction read; appends to a table that
\* is still there join those of the others.
Commit(s) ==
    /\ tx[s].open
    /\ ~Dropped(s)
    /\ host' = IF tx[s].swapped THEN tx[s].seen
               ELSE IF tx[s].seen = tx[s].began THEN host
               ELSE Rebased(tx[s].began, tx[s].seen, host)
    /\ log' = Plus(log, tx[s].did)
    /\ lost' = IF tx[s].swapped THEN Plus(lost, tx[s].missed) ELSE lost
    /\ tx' = Ended(s, tx[s].did, tx[s].swapped)

\* ROLLBACK, a failed statement, a failed commit.
Rollback(s) ==
    /\ tx[s].open
    /\ tx' = Ended(s, Nothing, FALSE)
    /\ UNCHANGED <<host, log, lost>>

-----------------------------------------------------------------------------
(* Which database a transaction writes.                                    *)

\* BeginWrite: ThrowIfNotWritable and MarkHostWrite.
MayWriteHost(t) == t.writer \in {"none", "host"}

HostWritten(t) == [t EXCEPT !.writer = "host", !.wrote = @ \cup {"host"}]

\* A statement of the user on a table of the host itself.
WriteHost(s) ==
    /\ tx[s].open
    /\ MayWriteHost(tx[s])
    /\ Do(s, HostWritten(tx[s]))

\* One on another database, by the same rule.
WriteOther(s) ==
    /\ tx[s].open
    /\ tx[s].writer \in {"none", "other"}
    /\ Do(s, [tx[s] EXCEPT !.writer = "other", !.wrote = @ \cup {"other"}])

-----------------------------------------------------------------------------
(* Writing the scenario's table.                                           *)

InsertedCopies(delta, r) == IF IsLegacyKeylessDelta(delta) THEN delta.rows[r] ELSE delta.inserted[r]

Insert(s, r) ==
    /\ tx[s].open
    /\ MayWriteHost(tx[s])
    /\ InsertedCopies(tx[s].seen, r) < MaxCopies
    /\ Do(s, [HostWritten(tx[s]) EXCEPT !.seen = Inserted(@, r), !.did[r] = @ + 1])

Shown(delta, r) == BaseCopies + Net(delta)[r]

\* A DELETE meets every copy, or those it picks by their row number.
\* ThrowIfKeylessUnsupported refuses the old layout at planning.
Delete(s, r, n) ==
    /\ tx[s].open
    /\ MayWriteHost(tx[s])
    /\ ~IsLegacyKeylessDelta(tx[s].seen)
    /\ n <= Shown(tx[s].seen, r)
    /\ tx[s].seen.deleted[r] + n <= MaxCopies
    /\ Do(s, [HostWritten(tx[s]) EXCEPT !.seen = Deleted(@, r, n), !.did[r] = @ - n])

-----------------------------------------------------------------------------
(* ATTACH.                                                                 *)

\* Mutant of HostIsTheWriter: any transaction that could still write the host.
HostMayBeTheWriter(t) == t.writer \in {"none", "host"}

\* TryUpgradeLegacyKeylessDeltas: not in a transaction that would become the
\* host's writer by it ...
HostIsTheWriter(t) == IF t.writer = "none" THEN t.auto ELSE t.writer = "host"

\* Mutant of OlderTransactionActive: only those that have written by now.
OlderTransactionWrote(t) == \E o \in t.older : tx[o].writer = "host"

\* ... nor while a transaction that began earlier may be writing the delta.
OlderTransactionActive(t) == t.older # {}

MayUpgrade(t, readonly) ==
    /\ IsLegacyKeylessDelta(t.seen)
    /\ ~readonly
    /\ HostIsTheWriter(t)
    /\ ~OlderTransactionActive(t)

\* A delta another transaction swapped meanwhile: the catalog's conflict, after
\* which the old layout stays.
Conflict(t) == t.began.layout # host.layout

Attach(s, readonly) ==
    /\ tx[s].open
    /\ LET t == tx[s]
       IN  IF MayUpgrade(t, readonly)
           THEN Do(s, [t EXCEPT !.writer = "host",
                                !.seen = IF Conflict(t) THEN @ ELSE Upgraded(@),
                                !.swapped = ~Conflict(t)])
           ELSE Do(s, t)

-----------------------------------------------------------------------------
Init ==
    /\ host \in {Legacy(rows) : rows \in [Row -> 0..1]}
    /\ tx = [s \in Session |-> Closed]
    /\ log = host.rows
    /\ lost = Nothing

Next ==
    \E s \in Session :
        \/ \E auto \in BOOLEAN : Begin(s, auto)
        \/ Commit(s)
        \/ Rollback(s)
        \/ WriteHost(s)
        \/ WriteOther(s)
        \/ \E r \in Row : Insert(s, r)
        \/ \E r \in Row, n \in 1..MaxCopies : Delete(s, r, n)
        \/ \E readonly \in BOOLEAN : Attach(s, readonly)

Spec == Init /\ [][Next]_vars

-----------------------------------------------------------------------------
(* Correctness.                                                            *)

OpenTx == [open : {TRUE}, auto : BOOLEAN, spent : BOOLEAN, began : Delta, seen : Delta,
           did : [Row -> Int], swapped : BOOLEAN, writer : {"none", "host", "other"},
           wrote : SUBSET {"host", "other"}, older : SUBSET Session,
           missed : [Row -> Int], behind : BOOLEAN]

TypeOK ==
    /\ host \in Delta
    /\ tx \in [Session -> {Closed} \cup OpenTx]
    /\ log \in [Row -> Int]
    /\ lost \in [Row -> Int]

\* "Freezing does not block it: the logical content is unchanged"
\* (scenario_storage_extension.cpp:43): the delta holds what the committed
\* transactions did, copy for copy and in either layout.  It need not: the
\* upgrade writes back what its snapshot holds of the table it drops.
LogicalContentUnchanged == Net(host) = log

\* What is lost is what other transactions committed between the start of the
\* upgrading transaction and its end; but for that the upgrade and the writes
\* around it lose no copy and make none (scenario_delta.cpp:142-176).
EveryCopyIsAccountedFor == Net(host) = Minus(log, lost)

\* "dropping it now would fail that transaction's commit"
\* (scenario_delta.cpp:224): a writer that can no longer commit, because the
\* delta it wrote is gone, began after the transaction that dropped it.  Any
\* other writer in flight could still commit.
OlderWritersCommit == \A o \in Active : Dropped(o) => tx[o].behind

\* "the upgrade would make the host the transaction's single writer behind the
\* user's back" (scenario_delta.cpp:217): an explicit transaction is kept from
\* another database by its user's own writes only.
WriterIsTheUsers ==
    \A s \in Active : tx[s].writer = "host" /\ ~tx[s].auto => "host" \in tx[s].wrote
=============================================================================
