-------------------------- MODULE MCScenarioSessions --------------------------
(***************************************************************************)
(* Instances of ScenarioLifecycle, ScenarioIdentity, ScenarioUpgrade and   *)
(* ScenarioNames for TLC.  They share no state: a behaviour is one of the  *)
(* four, chosen at the start.                                              *)
(***************************************************************************)
EXTENDS ScenarioLifecycle, ScenarioNames, TLC

CONSTANTS Connection, Alias, Column, ColName, MaxKey, MaxRenames, BaseCopies, MaxCopies, w1

VARIABLES component, table, work, raced, altered

\* One connection runs transactions of three statements, the others of one.
MCMaxOps == [w \in Connection |-> IF w = w1 THEN 3 ELSE 1]

Identity == INSTANCE ScenarioIdentityProofs
    WITH Session <- Connection, Handle <- Alias, MaxOps <- MCMaxOps,
         host <- table, tx <- work, overlapped <- raced, renames <- altered

Upgrade == INSTANCE ScenarioUpgradeProofs
    WITH host <- table, tx <- work, lost <- raced, log <- altered

\* The schema that is left out is called "m".
MCDefaultSchema == <<"m">>

\* The names of a table and its schema stay as they were chosen.
MCInit ==
    /\ Init
    /\ \/ component = "lifecycle" /\ table = None /\ work = None /\ raced = FALSE /\ altered = 0
       \/ component = "identity" /\ Identity!Init
       \/ component = "upgrade" /\ Upgrade!Init
       \/ component = "names" /\ table \in Identifier \X Identifier /\ work = None /\ raced = FALSE /\ altered = 0

OnlyLifecycle == component = "lifecycle" /\ UNCHANGED <<component, table, work, raced, altered>>
OnlyIdentity == component = "identity" /\ UNCHANGED <<component, vars>>
OnlyUpgrade == component = "upgrade" /\ UNCHANGED <<component, vars>>

\* Every action, by name.
MCNext ==
    \/ \E s \in Session : Commit(s) /\ OnlyLifecycle
    \/ \E s \in Session : Rollback(s) /\ OnlyLifecycle
    \/ \E s \in Session, n \in Name, p \in Id \cup {None} : Create(s, n, p) /\ OnlyLifecycle
    \/ \E s \in Session, i \in Id : Drop(s, i) /\ OnlyLifecycle
    \/ \E s \in Session, i \in Id : Freeze(s, i) /\ OnlyLifecycle
    \/ \E s \in Session, i \in Id : Unfreeze(s, i) /\ OnlyLifecycle
    \/ \E s \in Session, i \in Id : Merge(s, i) /\ OnlyLifecycle
    \/ \E s \in Session, i \in Id : Attach(s, i) /\ OnlyLifecycle
    \/ \E h \in handles : Detach(h) /\ OnlyLifecycle
    \/ \E s \in Session, h \in handles, r \in Row : WriteRow(s, h, r) /\ OnlyLifecycle
    \/ \E w \in Connection : OnlyIdentity /\ Identity!Commit(w)
    \/ \E w \in Connection : OnlyIdentity /\ Identity!Rollback(w)
    \/ \E w \in Connection, a \in Alias : OnlyIdentity /\ Identity!Use(w, a)
    \/ \E w \in Connection, a \in Alias : OnlyIdentity /\ Identity!FirstWrite(w, a)
    \/ \E w \in Connection, keys \in SUBSET ColName : OnlyIdentity /\ Identity!Refresh(w, keys)
    \/ \E w \in Connection, c \in Column, n \in ColName : OnlyIdentity /\ Identity!RenameColumn(w, c, n)
    \/ \E w \in Connection, key \in SUBSET Column : OnlyIdentity /\ Identity!AddPrimaryKey(w, key)
    \/ \E s \in Session, auto \in BOOLEAN : OnlyUpgrade /\ Upgrade!Begin(s, auto)
    \/ \E s \in Session : OnlyUpgrade /\ Upgrade!Commit(s)
    \/ \E s \in Session : OnlyUpgrade /\ Upgrade!Rollback(s)
    \/ \E s \in Session : OnlyUpgrade /\ Upgrade!WriteHost(s)
    \/ \E s \in Session : OnlyUpgrade /\ Upgrade!WriteOther(s)
    \/ \E s \in Session, r \in Row : OnlyUpgrade /\ Upgrade!Insert(s, r)
    \/ \E s \in Session, r \in Row, n \in 1..MaxCopies : OnlyUpgrade /\ Upgrade!Delete(s, r, n)
    \/ \E s \in Session, readonly \in BOOLEAN : OnlyUpgrade /\ Upgrade!Attach(s, readonly)

MCSpec == MCInit /\ [][MCNext]_<<vars, component, table, work, raced, altered>>

Symmetry == Permutations(Session) \cup Permutations(Name) \cup Permutations(Row)
              \cup Permutations(Alias) \cup Permutations(Column) \cup Permutations(ColName)

\* scenario_delta.cpp:566: the identity a transaction uses is that of the rows
\* it sees.
ReadersFollowTheRows == component = "identity" => Identity!ReadersFollowTheRows

\* The cached declared keys are those of the transaction's own snapshot.
CacheIsCurrent == component = "identity" => Identity!CacheIsCurrent

\* scenario_delta.cpp:563: delta and declared key disagree only after a race or
\* a base schema change.
IdentityAgrees == component = "identity" => Identity!IdentityAgrees

\* scenario_delta.cpp:142: the upgrade loses the copies that were committed
\* behind its snapshot, and no other.
EveryCopyIsAccountedFor == component = "upgrade" => Upgrade!EveryCopyIsAccountedFor

\* scenario_delta.cpp:224: the upgrade fails no older transaction's commit; a
\* younger one's it may.
OlderWritersCommit == component = "upgrade" => Upgrade!OlderWritersCommit

\* scenario_delta.cpp:217: the upgrade claims no transaction for the host.
WriterIsTheUsers == component = "upgrade" => Upgrade!WriterIsTheUsers

\* scenario_delta.hpp:81: a logical name names one table.
NamesRoundTrip == component = "names" => RoundTrips(table[1], table[2])
=============================================================================
