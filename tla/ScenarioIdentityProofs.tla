------------------------ MODULE ScenarioIdentityProofs ------------------------
(***************************************************************************)
(* Proofs about ScenarioIdentity, for any number of connections, handles,  *)
(* columns and statements.                                                 *)
(***************************************************************************)
EXTENDS ScenarioIdentity, TLAPS

-----------------------------------------------------------------------------
(* Transactions as values.                                                 *)

\* The transaction after a statement that left it as t and wrote w.
Done(t, w) == [t EXCEPT !.writes = @ \cup w, !.ops = @ + 1]

LEMMA OpenedType ==
    ASSUME NEW db \in Database PROVE Opened(db) \in OpenTx
<1>1. [h \in {} |-> h] \in [{} -> TableEntry]
  OBVIOUS
<1>2. [h \in {} |-> h] \in UNION {[H -> TableEntry] : H \in SUBSET Handle}
  BY <1>1
<1> QED
  BY <1>2 DEF Opened, OpenTx, Cache, NotLoaded

LEMMA NewEntryType ==
    ASSUME NEW t \in OpenTx PROVE NewEntry(t) \in TableEntry
BY DEF NewEntry, GetKeyColumns, Positions, TableEntry, OpenTx, Database, BaseTable

LEMMA LookedUpType ==
    ASSUME NEW t \in OpenTx
    PROVE  /\ LookedUp(t) \in OpenTx
           /\ LookedUp(t) = [t EXCEPT !.cache = LookedUp(t).cache]
           /\ LookedUp(t).cache.keys = Declared(t)
           /\ Declared(t) \in SUBSET ColName
BY DEF LookedUp, Declared, OpenTx, Cache, Database

\* Binding a handle changes the cache and adds one entry, nothing else.
LEMMA BoundType ==
    ASSUME NEW t \in OpenTx, NEW h \in Handle
    PROVE  /\ Bound(t, h) \in OpenTx
           /\ Bound(t, h).view = t.view
           /\ Bound(t, h).writes = t.writes
           /\ Bound(t, h).missed = t.missed
           /\ Bound(t, h).ops = t.ops
           /\ Bound(t, h).cache = t.cache \/ Bound(t, h).cache = [loaded |-> TRUE, keys |-> Declared(t)]
           /\ DOMAIN Bound(t, h).entries = DOMAIN t.entries \cup {h}
           /\ \A g \in DOMAIN t.entries : Bound(t, h).entries[g] = t.entries[g]
           /\ h \notin DOMAIN t.entries => Bound(t, h).entries[h] = NewEntry(t)
<1>1. CASE h \in DOMAIN t.entries
  BY <1>1 DEF Bound
<1>2. CASE h \notin DOMAIN t.entries
  <2> DEFINE u == IF t.view.created THEN t ELSE LookedUp(t)
             e == [g \in DOMAIN t.entries \cup {h} |-> IF g = h THEN NewEntry(t) ELSE t.entries[g]]
  <2>1. Bound(t, h) = [u EXCEPT !.entries = e]
    BY <1>2 DEF Bound
  <2>2. /\ u \in OpenTx
        /\ u.view = t.view /\ u.writes = t.writes /\ u.missed = t.missed /\ u.ops = t.ops
        /\ u.cache = t.cache \/ u.cache = [loaded |-> TRUE, keys |-> Declared(t)]
    BY LookedUpType DEF LookedUp, OpenTx
  <2>3. e \in UNION {[H -> TableEntry] : H \in SUBSET Handle}
    <3>1. PICK H \in SUBSET Handle : t.entries \in [H -> TableEntry]
      BY DEF OpenTx
    <3>2. H \cup {h} \in SUBSET Handle /\ e \in [H \cup {h} -> TableEntry]
      BY <3>1, NewEntryType
    <3> QED
      BY <3>2
  <2>4. [u EXCEPT !.entries = e] \in OpenTx
    BY <2>2, <2>3 DEF OpenTx
  <2>5. /\ [u EXCEPT !.entries = e].view = u.view
        /\ [u EXCEPT !.entries = e].writes = u.writes
        /\ [u EXCEPT !.entries = e].missed = u.missed
        /\ [u EXCEPT !.entries = e].ops = u.ops
        /\ [u EXCEPT !.entries = e].cache = u.cache
        /\ [u EXCEPT !.entries = e].entries = e
    BY <2>2 DEF OpenTx
  <2> QED
    BY <1>2, <2>1, <2>2, <2>4, <2>5
<1> QED
  BY <1>1, <1>2

LEMMA DoneType ==
    ASSUME NEW t \in OpenTx, NEW w \in SUBSET Resource
    PROVE  /\ Done(t, w) \in OpenTx
           /\ Done(t, w).view = t.view
           /\ Done(t, w).writes = t.writes \cup w
           /\ Done(t, w).missed = t.missed
           /\ Done(t, w).cache = t.cache
           /\ Done(t, w).entries = t.entries
           /\ Declared(Done(t, w)) = Declared(t)
<1>1. /\ t.writes \cup w \in SUBSET Resource
      /\ t.ops + 1 \in Nat
  BY SMT DEF OpenTx
<1>2. Done(t, w) \in OpenTx
  BY <1>1 DEF Done, OpenTx
<1>3. /\ Done(t, w).view = t.view
      /\ Done(t, w).writes = t.writes \cup w
      /\ Done(t, w).missed = t.missed
      /\ Done(t, w).cache = t.cache
      /\ Done(t, w).entries = t.entries
  BY DEF Done, OpenTx
<1> QED
  BY <1>2, <1>3 DEF Declared

LEMMA DoneNothing ==
    ASSUME NEW t \in OpenTx
    PROVE  /\ Done(t, {}).view = t.view
           /\ Done(t, {}).writes = t.writes
           /\ Done(t, {}).missed = t.missed
           /\ Done(t, {}).entries = t.entries
           /\ Declared(Done(t, {})) = Declared(t)
<1>1. {} \in SUBSET Resource /\ t.writes \cup {} = t.writes
  OBVIOUS
<1> QED  BY <1>1, DoneType

LEMMA WithDeltaType ==
    ASSUME NEW t \in OpenTx, NEW key \in SUBSET Column
    PROVE  /\ WithDelta(LookedUp(t), key) \in OpenTx
           /\ WithDelta(LookedUp(t), key).view = [t.view EXCEPT !.created = TRUE, !.shape = key]
           /\ WithDelta(LookedUp(t), key).writes = t.writes
           /\ WithDelta(LookedUp(t), key).missed = t.missed
           /\ WithDelta(LookedUp(t), key).ops = t.ops
           /\ WithDelta(LookedUp(t), key).entries = t.entries
           /\ Declared(WithDelta(LookedUp(t), key)) = Declared(t)
BY LookedUpType DEF WithDelta, LookedUp, OpenTx, Database, Declared

LEMMA WithDeclaredType ==
    ASSUME NEW t \in OpenTx, NEW keys \in SUBSET ColName
    PROVE  /\ WithDeclared(Invalidated(t), keys) \in OpenTx
           /\ WithDeclared(Invalidated(t), keys).view = [t.view EXCEPT !.declared = keys]
           /\ WithDeclared(Invalidated(t), keys).writes = t.writes
           /\ WithDeclared(Invalidated(t), keys).missed = t.missed
           /\ WithDeclared(Invalidated(t), keys).ops = t.ops
           /\ WithDeclared(Invalidated(t), keys).entries = t.entries
           /\ Declared(WithDeclared(Invalidated(t), keys)) = keys
BY DEF WithDeclared, Invalidated, NotLoaded, Cache, OpenTx, Database, Declared

-----------------------------------------------------------------------------
(* What holds of an open transaction t, over the committed database db,    *)
(* after k renames, under the bound max.                                   *)

Current(t) == Declared(t) = t.view.declared

FollowsRows(t) ==
    t.view.created /\ OneIdentity(t) =>
        \A h \in DOMAIN t.entries : t.entries[h].key = t.view.shape

\* The entry a database without the delta gives.
FreshEntry(v) ==
    [key |-> IF Vanished(v.base.names, v.declared) THEN {}
             ELSE IF v.declared # {} THEN Positions(v.base.names, v.declared)
             ELSE v.base.pk,
     base |-> v.base]

\* Until the transaction changes what an identity is resolved from, all its
\* entries are alike.
Fresh(t) ==
    ~t.view.created /\ t.writes \cap {"base", "declared"} = {} =>
        \A h \in DOMAIN t.entries : t.entries[h] = FreshEntry(t.view)

\* A delta seen is the host's, or the transaction's own and the host has none.
SeesTheDelta(t, db, max) ==
    /\ "delta" \in t.writes => t.view.created /\ ~db.created
    /\ t.view.created /\ "delta" \notin t.writes => db.created /\ db.shape = t.view.shape
    /\ t.ops < max /\ ~t.view.created /\ "delta" \notin t.missed => ~db.created

NamesKept(t, db, k) ==
    k = 0 => /\ t.view.base.names = db.base.names
             /\ \A h \in DOMAIN t.entries : t.entries[h].base.names = db.base.names

Sound(t, db, k, max) ==
    /\ Current(t)
    /\ FollowsRows(t)
    /\ Fresh(t)
    /\ SeesTheDelta(t, db, max)
    /\ NamesKept(t, db, k)

LEMMA OpenedSound ==
    ASSUME NEW db \in Database, NEW k, NEW max PROVE Sound(Opened(db), db, k, max)
BY DEF Sound, Current, FollowsRows, Fresh, SeesTheDelta, NamesKept, Opened, Declared, NotLoaded

LEMMA NewEntryIsFresh ==
    ASSUME NEW t \in OpenTx, Current(t), ~t.view.created
    PROVE  NewEntry(t) = FreshEntry(t.view)
BY DEF NewEntry, FreshEntry, Current, KeyIsBroken, GetKeyColumns

LEMMA BoundSound ==
    ASSUME NEW t \in OpenTx, NEW db, NEW k, NEW max, NEW h \in Handle, Sound(t, db, k, max)
    PROVE  Sound(Bound(t, h), db, k, max)
<1> DEFINE u == Bound(t, h)
<1>1. /\ u.view = t.view /\ u.writes = t.writes /\ u.missed = t.missed /\ u.ops = t.ops
      /\ DOMAIN u.entries = DOMAIN t.entries \cup {h}
      /\ \A g \in DOMAIN t.entries : u.entries[g] = t.entries[g]
      /\ h \notin DOMAIN t.entries => u.entries[h] = NewEntry(t)
      /\ u.cache = t.cache \/ u.cache = [loaded |-> TRUE, keys |-> Declared(t)]
  BY BoundType
<1> HIDE DEF u
<1>2. Current(u)
  BY <1>1 DEF Sound, Current, Declared
<1>3. FollowsRows(u)
  <2>1. t.view.created => NewEntry(t).key = t.view.shape
    BY DEF NewEntry, KeyIsBroken, GetKeyColumns
  <2>2. OneIdentity(u) => OneIdentity(t)
    BY <1>1 DEF OneIdentity
  <2> QED
    BY <1>1, <2>1, <2>2 DEF Sound, FollowsRows
<1>4. Fresh(u)
  BY <1>1, NewEntryIsFresh DEF Sound, Fresh
<1>5. SeesTheDelta(u, db, max)
  BY <1>1 DEF Sound, SeesTheDelta
<1>6. NamesKept(u, db, k)
  <2>1. NewEntry(t).base = t.view.base
    BY DEF NewEntry
  <2> QED
    BY <1>1, <2>1 DEF Sound, NamesKept
<1> QED
  BY <1>2, <1>3, <1>4, <1>5, <1>6 DEF Sound, u
-----------------------------------------------------------------------------
LEMMA UseSound ==
    ASSUME NEW t \in OpenTx, NEW db, NEW k, NEW max, NEW h \in Handle, Sound(t, db, k, max), t.ops < max
    PROVE  Sound(Done(Bound(t, h), {}), db, k, max)
<1> DEFINE u == Bound(t, h)
<1>1. u \in OpenTx /\ u.ops = t.ops /\ Sound(u, db, k, max)
  BY BoundType, BoundSound
<1>2. /\ Done(u, {}).view = u.view /\ Done(u, {}).writes = u.writes /\ Done(u, {}).missed = u.missed
      /\ Done(u, {}).entries = u.entries /\ Declared(Done(u, {})) = Declared(u)
  <2> HIDE DEF u
  <2> QED  BY <1>1, DoneNothing
<1> HIDE DEF u
<1> QED
  BY <1>1, <1>2 DEF u, Sound, Current, FollowsRows, OneIdentity, Fresh, SeesTheDelta, NamesKept

LEMMA FirstWriteSound ==
    ASSUME NEW t \in OpenTx, NEW db, NEW k, NEW max, NEW h \in DOMAIN t.entries,
           Sound(t, db, k, max), t.ops < max, "delta" \notin t.missed,
           ~t.view.created, SameIdentity(t, t.entries[h])
    PROVE  LET key == GetKeyColumns(t, t.entries[h].base)
           IN /\ key \in SUBSET Column
              /\ Done(WithDelta(LookedUp(t), key), {"delta"}) \in OpenTx
              /\ Sound(Done(WithDelta(LookedUp(t), key), {"delta"}), db, k, max)
<1> DEFINE key == GetKeyColumns(t, t.entries[h].base)
           v == WithDelta(LookedUp(t), key)
           u == Done(v, {"delta"})
<1>1. key = t.entries[h].key /\ t.entries[h].key \in SUBSET Column
  <2>1. t.entries[h] \in TableEntry
    BY DEF OpenTx
  <2> QED
    BY <2>1 DEF SameIdentity, TableEntry
<1>2. /\ v \in OpenTx
      /\ v.view = [t.view EXCEPT !.created = TRUE, !.shape = key]
      /\ v.writes = t.writes /\ v.missed = t.missed /\ v.ops = t.ops /\ v.entries = t.entries
      /\ Declared(v) = Declared(t)
  BY <1>1, WithDeltaType
<1>3. {"delta"} \in SUBSET Resource
  BY DEF Resource
<1> HIDE DEF key, v
<1>4. /\ u \in OpenTx
      /\ u.view = v.view /\ u.writes = v.writes \cup {"delta"} /\ u.entries = v.entries
      /\ Declared(u) = Declared(v)
  BY <1>2, <1>3, DoneType
<1>5. /\ u.view.created /\ u.view.shape = key
      /\ u.view.declared = t.view.declared /\ u.view.base = t.view.base
  BY <1>2, <1>4 DEF OpenTx, Database
<1> HIDE DEF u
<1>6. Current(u)
  BY <1>2, <1>4, <1>5 DEF Sound, Current
<1>7. FollowsRows(u)
  <2>1. CASE t.writes \cap {"base", "declared"} = {}
    <3>1. \A g \in DOMAIN t.entries : t.entries[g] = t.entries[h]
      BY <2>1 DEF Sound, Fresh
    <3> QED
      BY <1>1, <1>2, <1>4, <1>5, <3>1 DEF FollowsRows
  <2>2. CASE \A f, g \in DOMAIN t.entries : f = g
    <3>1. \A g \in DOMAIN t.entries : g = h
      BY <2>2
    <3> QED
      BY <1>1, <1>2, <1>4, <1>5, <3>1 DEF FollowsRows
  <2>3. OneIdentity(u) => OneIdentity(t)
    BY <1>2, <1>4 DEF OneIdentity
  <2> QED
    BY <2>1, <2>2, <2>3 DEF OneIdentity, FollowsRows
<1>8. Fresh(u)
  BY <1>5 DEF Fresh
<1>9. SeesTheDelta(u, db, max)
  BY <1>4, <1>5 DEF Sound, SeesTheDelta
<1>10. NamesKept(u, db, k)
  BY <1>2, <1>4, <1>5 DEF Sound, NamesKept
<1> QED
  BY <1>1, <1>4, <1>6, <1>7, <1>8, <1>9, <1>10 DEF Sound, u, v, key

LEMMA RefreshSound ==
    ASSUME NEW t \in OpenTx, NEW db, NEW k, NEW max, NEW keys \in SUBSET ColName,
           Sound(t, db, k, max), t.ops < max, ~t.view.created
    PROVE  /\ Done(WithDeclared(Invalidated(t), keys), {"declared"}) \in OpenTx
           /\ Sound(Done(WithDeclared(Invalidated(t), keys), {"declared"}), db, k, max)
<1> DEFINE v == WithDeclared(Invalidated(t), keys)
           u == Done(v, {"declared"})
<1>1. /\ v \in OpenTx
      /\ v.view = [t.view EXCEPT !.declared = keys]
      /\ v.writes = t.writes /\ v.missed = t.missed /\ v.ops = t.ops /\ v.entries = t.entries
      /\ Declared(v) = keys
  BY WithDeclaredType
<1>2. {"declared"} \in SUBSET Resource
  BY DEF Resource
<1> HIDE DEF v
<1>3. /\ u \in OpenTx
      /\ u.view = v.view /\ u.writes = v.writes \cup {"declared"} /\ u.entries = v.entries
      /\ u.missed = v.missed /\ Declared(u) = Declared(v)
  BY <1>1, <1>2, DoneType
<1>4. /\ ~u.view.created /\ u.view.declared = keys /\ u.view.base = t.view.base
  BY <1>1, <1>3 DEF OpenTx, Database
<1> HIDE DEF u
<1>5. SeesTheDelta(u, db, max)
  BY <1>1, <1>3, <1>4 DEF Sound, SeesTheDelta
<1> QED
  BY <1>1, <1>3, <1>4, <1>5 DEF u, v, Sound, Current, FollowsRows, Fresh, NamesKept

LEMMA AlterSound ==
    ASSUME NEW t \in OpenTx, NEW base \in BaseTable, NEW db, NEW k, NEW k2, NEW max,
           Sound(t, db, k, max), t.ops < max, k2 = 0 => k = 0 /\ base.names = t.view.base.names
    PROVE  /\ Done([t EXCEPT !.view.base = base], {"base"}) \in OpenTx
           /\ Sound(Done([t EXCEPT !.view.base = base], {"base"}), db, k2, max)
<1> DEFINE v == [t EXCEPT !.view.base = base]
           u == Done(v, {"base"})
<1>1. /\ v \in OpenTx
      /\ v.view = [t.view EXCEPT !.base = base]
      /\ v.writes = t.writes /\ v.missed = t.missed /\ v.ops = t.ops /\ v.entries = t.entries
      /\ Declared(v) = Declared(t)
  BY DEF OpenTx, Database, Declared
<1>2. {"base"} \in SUBSET Resource
  BY DEF Resource
<1> HIDE DEF v
<1>3. /\ u \in OpenTx
      /\ u.view = v.view /\ u.writes = v.writes \cup {"base"} /\ u.entries = v.entries
      /\ u.missed = v.missed /\ Declared(u) = Declared(v)
  BY <1>1, <1>2, DoneType
<1>4. /\ u.view.created = t.view.created /\ u.view.shape = t.view.shape
      /\ u.view.declared = t.view.declared /\ u.view.base = base
  BY <1>1, <1>3 DEF OpenTx, Database
<1> HIDE DEF u
<1>5. SeesTheDelta(u, db, max)
  BY <1>1, <1>3, <1>4 DEF Sound, SeesTheDelta
<1>6. FollowsRows(u)
  <2>1. OneIdentity(u) => OneIdentity(t)
    BY <1>1, <1>3 DEF OneIdentity
  <2> QED
    BY <1>1, <1>3, <1>4, <2>1 DEF Sound, FollowsRows
<1>7. Current(u)
  BY <1>1, <1>3, <1>4 DEF Sound, Current
<1>8. Fresh(u)
  BY <1>3 DEF Fresh
<1>9. NamesKept(u, db, k2)
  BY <1>1, <1>3, <1>4 DEF Sound, NamesKept
<1> QED
  BY <1>3, <1>5, <1>6, <1>7, <1>8, <1>9 DEF u, v, Sound
-----------------------------------------------------------------------------
\* What another transaction's commit leaves of an open one.
Missing(t, w, max) == [t EXCEPT !.missed = IF t.ops < max THEN @ \cup w ELSE {}]

\* The host after a commit.
After(db, t) ==
    [base |-> IF "base" \in t.writes THEN t.view.base ELSE db.base,
     declared |-> IF "declared" \in t.writes THEN t.view.declared ELSE db.declared,
     created |-> db.created \/ "delta" \in t.writes,
     shape |-> IF "delta" \in t.writes THEN t.view.shape ELSE db.shape]

LEMMA AfterType ==
    ASSUME NEW t \in OpenTx, NEW db \in Database PROVE After(db, t) \in Database
BY DEF After, OpenTx, Database

LEMMA MissingSound ==
    ASSUME NEW t \in OpenTx, NEW o \in OpenTx, NEW db \in Database, NEW k, NEW max, NEW omax,
           Sound(t, db, k, max), Sound(o, db, k, omax), o.writes \cap t.writes = {}
    PROVE  /\ Missing(o, t.writes, omax) \in OpenTx
           /\ Sound(Missing(o, t.writes, omax), After(db, t), k, omax)
<1> DEFINE u == Missing(o, t.writes, omax)
           d == After(db, t)
<1>1. /\ u \in OpenTx
      /\ u.view = o.view /\ u.writes = o.writes /\ u.ops = o.ops /\ u.entries = o.entries
      /\ u.cache = o.cache /\ Declared(u) = Declared(o)
      /\ u.ops < omax => u.missed = o.missed \cup t.writes
  BY DEF Missing, OpenTx, Declared
<1>2. /\ d.base = IF "base" \in t.writes THEN t.view.base ELSE db.base
      /\ d.created <=> (db.created \/ "delta" \in t.writes)
      /\ d.shape = IF "delta" \in t.writes THEN t.view.shape ELSE db.shape
  BY DEF After
<1> HIDE DEF u, d
<1>3. SeesTheDelta(u, d, omax)
  BY <1>1, <1>2 DEF Sound, SeesTheDelta
<1>4. NamesKept(u, d, k)
  BY <1>1, <1>2 DEF Sound, NamesKept
<1> QED
  BY <1>1, <1>3, <1>4 DEF u, d, Sound, Current, FollowsRows, OneIdentity, Fresh

-----------------------------------------------------------------------------
(* The invariant.                                                          *)

Inv ==
    /\ TypeOK
    /\ \A s \in Session : tx[s].open => Sound(tx[s], host, renames, MaxOps[s])

LEMMA OpenIsOpenTx ==
    ASSUME TypeOK, NEW s \in Session
    PROVE  /\ tx[s].open \in BOOLEAN
           /\ tx[s].open => tx[s] \in OpenTx
           /\ ~tx[s].open => tx[s] = Closed
<1>1. tx[s] \in {Closed} \cup OpenTx
  BY DEF TypeOK
<1>2. Closed.open = FALSE
  BY DEF Closed
<1>3. \A t \in OpenTx : t.open = TRUE
  BY DEF OpenTx
<1> QED  BY <1>1, <1>2, <1>3

LEMMA BegunSound ==
    ASSUME Inv, NEW s \in Session
    PROVE  Begun(s) \in OpenTx /\ Sound(Begun(s), host, renames, MaxOps[s])
BY OpenIsOpenTx, OpenedType, OpenedSound DEF Inv, TypeOK, Begun

\* A statement of s that leaves its transaction sound keeps the invariant.
LEMMA DoKeepsInv ==
    ASSUME Inv, NEW s \in Session, NEW t, NEW w, Do(s, t, w),
           Done(t, w) \in OpenTx, Sound(Done(t, w), host, renames', MaxOps[s]),
           renames' = renames \/ renames' = renames + 1
    PROVE  Inv'
<1>1. tx' = [tx EXCEPT ![s] = Done(t, w)] /\ host' = host
  BY DEF Do, Done
<1>2. TypeOK'
  <2>1. overlapped' \in BOOLEAN
    BY DEF Do, Inv, TypeOK
  <2>2. renames' \in Nat
    BY DEF Inv, TypeOK
  <2>3. tx' \in [Session -> {Closed} \cup OpenTx]
    BY <1>1 DEF Inv, TypeOK
  <2> QED
    BY <1>1, <2>1, <2>2, <2>3 DEF Inv, TypeOK
<1>3. ASSUME NEW o \in Session, tx'[o].open PROVE Sound(tx'[o], host', renames', MaxOps[o])
  <2>1. CASE o = s
    BY <1>1, <2>1 DEF Inv, TypeOK
  <2>2. CASE o # s
    <3>1. tx'[o] = tx[o] /\ Sound(tx[o], host, renames, MaxOps[o])
      BY <1>1, <1>3, <2>2 DEF Inv, TypeOK
    <3>2. renames' = 0 => renames = 0
      BY SMT DEF Inv, TypeOK
    <3> QED
      BY <1>1, <3>1, <3>2 DEF Sound, NamesKept
  <2> QED
    BY <2>1, <2>2
<1> QED
  BY <1>2, <1>3 DEF Inv

LEMMA CommitKeepsInv ==
    ASSUME Inv, NEW s \in Session, Commit(s) PROVE Inv'
<1>1. /\ tx[s] \in OpenTx /\ Sound(tx[s], host, renames, MaxOps[s])
      /\ host' = After(host, tx[s]) /\ renames' = renames /\ overlapped' = overlapped
  BY OpenIsOpenTx DEF Inv, Commit, Committed, After
<1>2. ASSUME NEW o \in Session
      PROVE  tx'[o] = Closed \/ (/\ tx'[o] \in OpenTx
                                 /\ Sound(tx'[o], host', renames, MaxOps[o]))
  <2>1. tx'[o] = IF o = s THEN Closed ELSE AfterCommitOf(tx[s].writes, o)
    BY DEF Commit
  <2>2. CASE o = s \/ ~tx[o].open \/ tx[o].writes \cap tx[s].writes # {}
    BY <2>1, <2>2, OpenIsOpenTx DEF AfterCommitOf, Inv
  <2>3. CASE o # s /\ tx[o].open /\ tx[o].writes \cap tx[s].writes = {}
    <3>1. tx'[o] = Missing(tx[o], tx[s].writes, MaxOps[o])
      BY <2>1, <2>3 DEF AfterCommitOf, Missing
    <3>2. tx[o] \in OpenTx /\ Sound(tx[o], host, renames, MaxOps[o]) /\ host \in Database
      BY <2>3, OpenIsOpenTx DEF Inv, TypeOK
    <3> QED
      BY <1>1, <2>3, <3>1, <3>2, MissingSound
  <2> QED
    BY <2>2, <2>3
<1>3. tx' \in [Session -> {Closed} \cup OpenTx]
  BY <1>2 DEF Commit
<1>4. host' \in Database
  BY <1>1, AfterType DEF Inv, TypeOK
<1>5. ~Closed.open
  BY DEF Closed
<1> QED
  BY <1>1, <1>2, <1>3, <1>4, <1>5 DEF Inv, TypeOK
-----------------------------------------------------------------------------
LEMMA RollbackKeepsInv ==
    ASSUME Inv, NEW s \in Session, Rollback(s) PROVE Inv'
<1>1. ~Closed.open
  BY DEF Closed
<1>2. tx' = [tx EXCEPT ![s] = Closed] /\ UNCHANGED <<host, overlapped, renames>>
  BY DEF Rollback
<1>3. ASSUME NEW o \in Session PROVE tx'[o] = Closed \/ tx'[o] = tx[o]
  BY <1>2 DEF Inv, TypeOK
<1> QED
  BY <1>1, <1>2, <1>3 DEF Inv, TypeOK

\* The statements, each with the transaction it leaves.
LEMMA StatementKeepsInv ==
    ASSUME Inv, NEW s \in Session,
           \/ \E h \in Handle : Use(s, h) \/ FirstWrite(s, h)
           \/ \E keys \in SUBSET ColName : Refresh(s, keys)
           \/ \E c \in Column, n \in ColName : RenameColumn(s, c, n)
           \/ \E key \in SUBSET Column : AddPrimaryKey(s, key)
    PROVE  Inv'
<1> DEFINE b == Begun(s)
<1>1. b \in OpenTx /\ Sound(b, host, renames, MaxOps[s])
  BY BegunSound
<1> HIDE DEF b
<1>2. ASSUME NEW h \in Handle, Use(s, h) PROVE Inv'
  <2>1. Do(s, Bound(b, h), {}) /\ renames' = renames
    BY <1>2 DEF Use, b
  <2>2. Bound(b, h) \in OpenTx /\ Bound(b, h).ops = b.ops
    BY <1>1, BoundType
  <2>3. b.ops < MaxOps[s]
    BY <2>1, <2>2 DEF Do
  <2>4. Done(Bound(b, h), {}) \in OpenTx
    BY <2>2, DoneType
  <2>5. Sound(Done(Bound(b, h), {}), host, renames, MaxOps[s])
    BY <1>1, <2>3, UseSound
  <2> QED
    BY <2>1, <2>4, <2>5, DoKeepsInv
<1>3. ASSUME NEW h \in Handle, FirstWrite(s, h) PROVE Inv'
  <2> DEFINE t == Bound(b, h)
             key == GetKeyColumns(t, t.entries[h].base)
             u == WithDelta(LookedUp(t), key)
  <2>1. /\ ~t.view.created /\ SameIdentity(t, t.entries[h])
        /\ Do(s, u, {"delta"}) /\ renames' = renames
    BY <1>3 DEF FirstWrite, b
  <2>2. t \in OpenTx /\ h \in DOMAIN t.entries /\ Sound(t, host, renames, MaxOps[s])
    BY <1>1, BoundType, BoundSound
  <2> HIDE DEF t
  <2>3. key \in SUBSET Column
    <3>1. t.entries[h] \in TableEntry
      BY <2>2 DEF OpenTx
    <3> QED
      BY <2>1, <3>1 DEF SameIdentity, TableEntry
  <2>4. u.ops = t.ops /\ u.missed = t.missed
    BY <2>2, <2>3, WithDeltaType
  <2>5. t.ops < MaxOps[s] /\ "delta" \notin t.missed
    BY <2>1, <2>4 DEF Do
  <2>6. Done(u, {"delta"}) \in OpenTx /\ Sound(Done(u, {"delta"}), host, renames, MaxOps[s])
    BY <2>1, <2>2, <2>5, FirstWriteSound
  <2> QED
    BY <2>1, <2>6, DoKeepsInv
<1>4. ASSUME NEW keys \in SUBSET ColName, Refresh(s, keys) PROVE Inv'
  <2> DEFINE u == WithDeclared(Invalidated(b), keys)
  <2>1. ~b.view.created /\ Do(s, u, {"declared"}) /\ renames' = renames
    BY <1>4 DEF Refresh, MayDeclare, b
  <2>2. b.ops < MaxOps[s]
    BY <1>1, <2>1, WithDeclaredType DEF Do
  <2>3. Done(u, {"declared"}) \in OpenTx /\ Sound(Done(u, {"declared"}), host, renames, MaxOps[s])
    BY <1>1, <2>1, <2>2, RefreshSound
  <2> QED
    BY <2>1, <2>3, DoKeepsInv
<1>5. b.view.base \in BaseTable
  BY <1>1 DEF OpenTx, Database
<1>6. ASSUME NEW c \in Column, NEW n \in ColName, RenameColumn(s, c, n) PROVE Inv'
  <2> DEFINE base == [b.view.base EXCEPT !.names[c] = n]
             u == [b EXCEPT !.view.base = base]
  <2>1. Do(s, u, {"base"}) /\ renames' = renames + 1
    BY <1>6 DEF RenameColumn, b
  <2>2. base \in BaseTable
    BY <1>5 DEF BaseTable
  <2>3. b.ops < MaxOps[s]
    BY <1>1, <2>1 DEF Do, OpenTx
  <2>4. renames' # 0
    BY <2>1, SMT DEF Inv, TypeOK
  <2> HIDE DEF base
  <2>5. Done(u, {"base"}) \in OpenTx /\ Sound(Done(u, {"base"}), host, renames', MaxOps[s])
    BY <1>1, <2>2, <2>3, <2>4, AlterSound
  <2> QED
    BY <2>1, <2>5, DoKeepsInv
<1>7. ASSUME NEW key \in SUBSET Column, AddPrimaryKey(s, key) PROVE Inv'
  <2> DEFINE base == [b.view.base EXCEPT !.pk = key]
             u == [b EXCEPT !.view.base = base]
  <2>1. Do(s, u, {"base"}) /\ renames' = renames
    BY <1>7 DEF AddPrimaryKey, b
  <2>2. base \in BaseTable /\ base.names = b.view.base.names
    BY <1>5 DEF BaseTable
  <2>3. b.ops < MaxOps[s]
    BY <1>1, <2>1 DEF Do, OpenTx
  <2> HIDE DEF base
  <2>4. Done(u, {"base"}) \in OpenTx /\ Sound(Done(u, {"base"}), host, renames, MaxOps[s])
    BY <1>1, <2>2, <2>3, AlterSound
  <2> QED
    BY <2>1, <2>4, DoKeepsInv
<1> QED
  BY <1>2, <1>3, <1>4, <1>6, <1>7

LEMMA InitInv == Init => Inv
<1> SUFFICES ASSUME Init PROVE Inv
  OBVIOUS
<1>1. tx = [s \in Session |-> Closed]
  BY DEF Init
<1>2. tx \in [Session -> {Closed} \cup OpenTx]
  BY <1>1, Zenon
<1>3. TypeOK
  BY <1>2 DEF Init, TypeOK
<1>4. \A s \in Session : ~tx[s].open
  BY <1>1 DEF Closed
<1> QED  BY <1>3, <1>4 DEF Inv

LEMMA NextKeepsInv == Inv /\ [Next]_vars => Inv'
<1> SUFFICES ASSUME Inv, [Next]_vars PROVE Inv'
  OBVIOUS
<1>1. CASE UNCHANGED vars
  BY <1>1 DEF vars, Inv, TypeOK, Sound, Current, FollowsRows, Fresh, SeesTheDelta, NamesKept
<1>2. CASE Next
  BY <1>2, CommitKeepsInv, RollbackKeepsInv, StatementKeepsInv DEF Next
<1> QED
  BY <1>1, <1>2

\* Every variable keeps its type.
THEOREM TypeCorrect == Spec => []TypeOK
<1>1. Inv => TypeOK
  BY DEF Inv
<1> QED
  BY <1>1, InitInv, NextKeepsInv, PTL DEF Spec

\* The declared keys a transaction works with are those of its own snapshot and
\* its own declarations.
THEOREM CachedKeysAreCurrent == Spec => []CacheIsCurrent
<1>1. Inv => CacheIsCurrent
  BY DEF Inv, Sound, Current, CacheIsCurrent
<1> QED
  BY <1>1, InitInv, NextKeepsInv, PTL DEF Spec

\* Every entry a transaction uses has the identity of the rows it sees, however
\* many handles it uses, unless it declares a key or alters the base itself;
\* and two deltas of different shapes never meet.
THEOREM ReadersFollow == Spec => []ReadersFollowTheRows
<1>1. Inv => ReadersFollowTheRows
  BY DEF Inv, Sound, FollowsRows, SeesTheDelta, ReadersFollowTheRows
<1> QED
  BY <1>1, InitInv, NextKeepsInv, PTL DEF Spec
-----------------------------------------------------------------------------
-----------------------------------------------------------------------------
(* Without a race.                                                         *)

\* A delta of a table with a declared key is keyed, and on those columns.
Agrees(db, k) ==
    db.created /\ db.declared # {} =>
        /\ db.shape # {}
        /\ k = 0 => db.shape = Positions(db.base.names, db.declared)

\* What the transaction did not write, it sees as the host has it.
Mirrors(t, db) ==
    /\ "base" \notin t.writes => t.view.base = db.base
    /\ "declared" \notin t.writes => t.view.declared = db.declared
    /\ "delta" \notin t.writes => (t.view.created <=> db.created) /\ t.view.shape = db.shape

Alone ==
    ~overlapped =>
        /\ Agrees(host, renames)
        /\ \A s \in Session : tx[s].open => Agrees(tx[s].view, renames) /\ Mirrors(tx[s], host)
        /\ \A s, o \in Session : tx[s].open /\ tx[o].open => s = o

LEMMA BegunAlone ==
    ASSUME Inv, Alone, NEW s \in Session, ~overlapped
    PROVE  Agrees(Begun(s).view, renames) /\ Mirrors(Begun(s), host)
BY DEF Alone, Begun, Opened, Mirrors

LEMMA DoKeepsAlone ==
    ASSUME Inv, Alone, NEW s \in Session, NEW t \in OpenTx, NEW w \in SUBSET Resource, Do(s, t, w),
           renames' = 0 => renames = 0,
           ~overlapped => Agrees(t.view, renames') /\ Mirrors(Done(t, w), host)
    PROVE  Alone'
<1> SUFFICES ASSUME ~overlapped'
             PROVE  /\ Agrees(host', renames')
                    /\ \A o \in Session : tx'[o].open => Agrees(tx'[o].view, renames') /\ Mirrors(tx'[o], host')
                    /\ \A p, o \in Session : tx'[p].open /\ tx'[o].open => p = o
  BY DEF Alone
<1>1. /\ tx' = [tx EXCEPT ![s] = Done(t, w)] /\ host' = host
      /\ ~overlapped
      /\ tx[s].open \/ \A o \in Session : ~tx[o].open
  BY DEF Do, Done
<1>2. Done(t, w).view = t.view
  BY DoneType
<1>3. \A o \in Session : o # s => tx'[o] = tx[o] /\ ~tx[o].open
  BY <1>1 DEF Alone, Inv, TypeOK
<1>4. tx'[s] = Done(t, w)
  BY <1>1 DEF Inv, TypeOK
<1>5. Agrees(host', renames')
  BY <1>1 DEF Alone, Agrees
<1> QED
  BY <1>1, <1>2, <1>3, <1>4, <1>5

LEMMA CommitKeepsAlone ==
    ASSUME Inv, Alone, NEW s \in Session, Commit(s) PROVE Alone'
<1> SUFFICES ASSUME ~overlapped
             PROVE  Agrees(host', renames) /\ \A o \in Session : ~tx'[o].open
  BY DEF Alone, Commit
<1>1. /\ tx[s] \in OpenTx /\ Agrees(tx[s].view, renames) /\ Mirrors(tx[s], host)
      /\ Sound(tx[s], host, renames, MaxOps[s])
      /\ \A o \in Session : o # s => ~tx[o].open
  BY OpenIsOpenTx DEF Alone, Inv, Commit
<1>2. host' = Committed(tx[s])
  BY DEF Commit
<1>3. /\ host'.created <=> tx[s].view.created
      /\ host'.declared = tx[s].view.declared
      /\ host'.base = tx[s].view.base
      /\ host'.shape = tx[s].view.shape
  BY <1>1, <1>2 DEF Committed, Mirrors, Sound, SeesTheDelta
<1>4. Agrees(host', renames)
  BY <1>1, <1>3 DEF Agrees
<1>5. ASSUME NEW o \in Session PROVE ~tx'[o].open
  BY <1>1 DEF Commit, AfterCommitOf, Closed
<1> QED
  BY <1>4, <1>5

LEMMA StatementKeepsAlone ==
    ASSUME Inv, Alone, NEW s \in Session,
           \/ \E h \in Handle : Use(s, h) \/ FirstWrite(s, h)
           \/ \E keys \in SUBSET ColName : Refresh(s, keys)
           \/ \E c \in Column, n \in ColName : RenameColumn(s, c, n)
           \/ \E key \in SUBSET Column : AddPrimaryKey(s, key)
    PROVE  Alone'
<1> DEFINE b == Begun(s)
<1>1. b \in OpenTx /\ Sound(b, host, renames, MaxOps[s])
  BY BegunSound
<1>2. ~overlapped => Agrees(b.view, renames) /\ Mirrors(b, host)
  BY BegunAlone
<1> HIDE DEF b
<1>3. ASSUME NEW h \in Handle, Use(s, h) PROVE Alone'
  <2>1. Do(s, Bound(b, h), {}) /\ renames' = renames
    BY <1>3 DEF Use, b
  <2>2. Bound(b, h) \in OpenTx /\ Bound(b, h).view = b.view /\ Bound(b, h).writes = b.writes
    BY <1>1, BoundType
  <2>3. Done(Bound(b, h), {}).view = b.view /\ Done(Bound(b, h), {}).writes = b.writes
    BY <2>2, DoneNothing
  <2>4. ~overlapped => Agrees(Bound(b, h).view, renames') /\ Mirrors(Done(Bound(b, h), {}), host)
    BY <1>2, <2>1, <2>2, <2>3 DEF Mirrors
  <2> QED
    BY <2>1, <2>2, <2>4, DoKeepsAlone
<1>4. ASSUME NEW h \in Handle, FirstWrite(s, h) PROVE Alone'
  <2> DEFINE t == Bound(b, h)
             e == t.entries[h]
             key == GetKeyColumns(t, e.base)
             u == WithDelta(LookedUp(t), key)
  <2>1. /\ ~t.view.created /\ SameIdentity(t, e)
        /\ Do(s, u, {"delta"}) /\ renames' = renames
    BY <1>4 DEF FirstWrite, b
  <2>2. /\ t \in OpenTx /\ h \in DOMAIN t.entries /\ Sound(t, host, renames, MaxOps[s])
        /\ t.view = b.view /\ t.writes = b.writes
    BY <1>1, BoundType, BoundSound
  <2> HIDE DEF t
  <2>3. e \in TableEntry
    BY <2>2 DEF OpenTx
  <2>4. key \in SUBSET Column
    BY <2>1, <2>3 DEF SameIdentity, TableEntry
  <2>5. /\ t.view.declared # {} => key = Positions(e.base.names, t.view.declared)
        /\ t.view.declared # {} => key # {}
    <3>1. Declared(t) = t.view.declared
      BY <2>2 DEF Sound, Current
    <3>2. ~Vanished(e.base.names, t.view.declared)
      BY <2>1, <3>1 DEF SameIdentity, KeyIsBroken
    <3> QED
      BY <2>1, <3>1, <3>2 DEF GetKeyColumns, Positions, Vanished
  <2>6. renames = 0 => e.base.names = t.view.base.names
    BY <2>2 DEF Sound, NamesKept
  <2> HIDE DEF e, key
  <2>7. /\ u \in OpenTx /\ u.writes = t.writes
        /\ u.view = [t.view EXCEPT !.created = TRUE, !.shape = key]
    BY <2>2, <2>4, WithDeltaType
  <2>8. {"delta"} \in SUBSET Resource
    BY DEF Resource
  <2> HIDE DEF u
  <2>9. Done(u, {"delta"}).view = u.view /\ Done(u, {"delta"}).writes = t.writes \cup {"delta"}
    BY <2>7, <2>8, DoneType
  <2>10. /\ u.view.base = t.view.base /\ u.view.declared = t.view.declared /\ u.view.shape = key
    BY <2>2, <2>7 DEF OpenTx, Database
  <2>11. ~overlapped => Agrees(u.view, renames') /\ Mirrors(Done(u, {"delta"}), host)
    BY <1>2, <2>1, <2>2, <2>5, <2>6, <2>9, <2>10 DEF Agrees, Mirrors
  <2> QED
    BY <2>1, <2>7, <2>8, <2>11, DoKeepsAlone
<1>5. ASSUME NEW keys \in SUBSET ColName, Refresh(s, keys) PROVE Alone'
  <2> DEFINE u == WithDeclared(Invalidated(b), keys)
  <2>1. ~b.view.created /\ Do(s, u, {"declared"}) /\ renames' = renames
    BY <1>5 DEF Refresh, MayDeclare, b
  <2>2. u \in OpenTx /\ u.view = [b.view EXCEPT !.declared = keys] /\ u.writes = b.writes
    BY <1>1, WithDeclaredType
  <2>3. {"declared"} \in SUBSET Resource
    BY DEF Resource
  <2> HIDE DEF u
  <2>4. Done(u, {"declared"}).view = u.view /\ Done(u, {"declared"}).writes = b.writes \cup {"declared"}
    BY <2>2, <2>3, DoneType
  <2>5. /\ ~u.view.created /\ u.view.base = b.view.base /\ u.view.shape = b.view.shape
    BY <1>1, <2>1, <2>2 DEF OpenTx, Database
  <2>6. ~overlapped => Agrees(u.view, renames') /\ Mirrors(Done(u, {"declared"}), host)
    BY <1>2, <2>1, <2>4, <2>5 DEF Agrees, Mirrors
  <2> QED
    BY <2>1, <2>2, <2>3, <2>6, DoKeepsAlone
<1>6. ASSUME NEW base \in BaseTable, Do(s, [b EXCEPT !.view.base = base], {"base"}),
             renames' = 0 => renames = 0 /\ base.names = b.view.base.names
      PROVE  Alone'
  <2> DEFINE u == [b EXCEPT !.view.base = base]
  <2>1. /\ u \in OpenTx /\ u.view = [b.view EXCEPT !.base = base] /\ u.writes = b.writes
    BY <1>1 DEF OpenTx, Database
  <2>2. {"base"} \in SUBSET Resource
    BY DEF Resource
  <2>3. Do(s, u, {"base"})
    BY <1>6
  <2> HIDE DEF u
  <2>4. Done(u, {"base"}).view = u.view /\ Done(u, {"base"}).writes = b.writes \cup {"base"}
    BY <2>1, <2>2, DoneType
  <2>5. /\ u.view.created = b.view.created /\ u.view.shape = b.view.shape
        /\ u.view.declared = b.view.declared /\ u.view.base = base
    BY <1>1, <2>1 DEF OpenTx, Database
  <2>6. ~overlapped => Agrees(u.view, renames') /\ Mirrors(Done(u, {"base"}), host)
    BY <1>2, <1>6, <2>4, <2>5 DEF Agrees, Mirrors
  <2> QED
    BY <1>6, <2>1, <2>2, <2>3, <2>6, DoKeepsAlone
<1>7. b.view.base \in BaseTable
  BY <1>1 DEF OpenTx, Database
<1>8. ASSUME NEW c \in Column, NEW n \in ColName, RenameColumn(s, c, n) PROVE Alone'
  <2>1. [b.view.base EXCEPT !.names[c] = n] \in BaseTable
    BY <1>7 DEF BaseTable
  <2>2. Do(s, [b EXCEPT !.view.base = [b.view.base EXCEPT !.names[c] = n]], {"base"}) /\ renames' = renames + 1
    BY <1>8 DEF RenameColumn, b
  <2>3. renames' # 0
    BY <2>2, SMT DEF Inv, TypeOK
  <2> QED
    BY <1>6, <2>1, <2>2, <2>3
<1>9. ASSUME NEW key \in SUBSET Column, AddPrimaryKey(s, key) PROVE Alone'
  <2>1. /\ [b.view.base EXCEPT !.pk = key] \in BaseTable
        /\ [b.view.base EXCEPT !.pk = key].names = b.view.base.names
    BY <1>7 DEF BaseTable
  <2>2. Do(s, [b EXCEPT !.view.base = [b.view.base EXCEPT !.pk = key]], {"base"}) /\ renames' = renames
    BY <1>9 DEF AddPrimaryKey, b
  <2> QED
    BY <1>6, <2>1, <2>2
<1> QED
  BY <1>3, <1>4, <1>5, <1>8, <1>9

LEMMA NextKeepsAlone == Inv /\ Alone /\ [Next]_vars => Alone'
<1> SUFFICES ASSUME Inv, Alone, [Next]_vars PROVE Alone'
  OBVIOUS
<1>1. CASE UNCHANGED vars
  BY <1>1 DEF vars, Alone
<1>2. ASSUME NEW s \in Session, Rollback(s) PROVE Alone'
  <2>1. /\ tx' = [tx EXCEPT ![s] = Closed] /\ UNCHANGED <<host, overlapped, renames>>
    BY <1>2 DEF Rollback
  <2>2. \A o \in Session : tx'[o] = tx[o] \/ ~tx'[o].open
    BY <2>1 DEF Inv, TypeOK, Closed
  <2> QED
    BY <2>1, <2>2 DEF Alone
<1>3. CASE Next
  BY <1>2, <1>3, CommitKeepsAlone, StatementKeepsAlone DEF Next
<1> QED
  BY <1>1, <1>3

\* Without a race between transactions a table with a declared key never gets a
\* keyless delta, and without a rename of the base's columns its delta is keyed
\* on the declared ones.
THEOREM AgreesUnlessRaced == Spec => []IdentityAgrees
<1>1. Init => Alone
  BY DEF Init, Alone, Agrees, Closed
<1>2. Alone => IdentityAgrees
  BY DEF Alone, Agrees, IdentityAgrees
<1> QED
  BY <1>1, <1>2, InitInv, NextKeepsInv, NextKeepsAlone, PTL DEF Spec
=============================================================================
