------------------------ MODULE ScenarioLifecycleProofs ------------------------
(***************************************************************************)
(* Proofs about ScenarioLifecycle, for any sessions, names, rows and       *)
(* statements: what holds of the registry however transactions overlap,    *)
(* and what holds as long as they do not.                                  *)
(***************************************************************************)
EXTENDS ScenarioLifecycle, FiniteSetTheorems, TLAPS

Registry(i) == <<"registry", i>>
Naming(n) == <<"name", n>>
Table(i) == <<"table", i>>
Line(i, r) == <<"row", i, r>>

-----------------------------------------------------------------------------
(* What the statements write.                                              *)

LEMMA WritesAreResources ==
    ASSUME NEW i \in Id, NEW n \in Name, NEW r \in Row, NEW rows \in SUBSET Row
    PROVE  /\ Registry(i) \in Resource
           /\ Naming(n) \in Resource
           /\ Table(i) \in Resource
           /\ Line(i, r) \in Resource
           /\ RowsOf(i, rows) \subseteq Resource
BY DEF Resource, Registry, Naming, Table, Line, RowsOf

LEMMA RowsOnly ==
    ASSUME NEW i, NEW rows
    PROVE  /\ \A j : Registry(j) \notin RowsOf(i, rows)
           /\ \A n : Naming(n) \notin RowsOf(i, rows)
           /\ \A j : Table(j) \notin RowsOf(i, rows)
           /\ \A j, r : Line(j, r) \in RowsOf(i, rows) <=> j = i /\ r \in rows
BY DEF Registry, Naming, Table, Line, RowsOf

LEMMA CreateWritesWhat ==
    ASSUME NEW i, NEW n, NEW inherited
    PROVE  /\ \A j : Registry(j) \in CreateWrites(i, n, inherited) <=> j = i
           /\ \A m : Naming(m) \in CreateWrites(i, n, inherited) <=> m = n
           /\ \A j : Table(j) \in CreateWrites(i, n, inherited) <=> j = i /\ inherited # None
           /\ \A j, r : Line(j, r) \in CreateWrites(i, n, inherited) <=> j = i /\ inherited # None /\ r \in inherited
<1>1. /\ \A j : Registry(j) # Naming(n) /\ (Registry(j) = Registry(i) <=> j = i)
      /\ \A m : Naming(m) # Registry(i) /\ (Naming(m) = Naming(n) <=> m = n)
      /\ \A j : Table(j) # Registry(i) /\ Table(j) # Naming(n) /\ (Table(j) = Table(i) <=> j = i)
      /\ \A j : Registry(j) # Table(i) /\ Naming(j) # Table(i)
      /\ \A j, r : Line(j, r) # Registry(i) /\ Line(j, r) # Naming(n) /\ Line(j, r) # Table(i)
  BY DEF Registry, Naming, Table, Line
<1>2. CreateWrites(i, n, inherited) =
        {Registry(i), Naming(n)} \cup (IF inherited = None THEN {} ELSE {Table(i)} \cup RowsOf(i, inherited))
  BY DEF CreateWrites, CopyWrites, Registry, Naming, Table
<1> QED  BY <1>1, <1>2, RowsOnly

-----------------------------------------------------------------------------
(* Types.                                                                  *)

Done(t, db, w, m) ==
    [t EXCEPT !.view = db, !.writes = @ \cup w, !.merges = @ \cup m, !.ops = @ + 1]

\* The type of everything but the history of merges, which Good bounds.
Typed ==
    /\ host \in Database
    /\ applied \in [Id -> Nat]
    /\ tx \in [Session -> Transaction]
    /\ handles \subseteq Handle
    /\ known \subseteq Id
    /\ nextId \in 1..(MaxId + 1)
    /\ overlapped \in BOOLEAN

LEMMA DoneFields ==
    ASSUME NEW t \in Transaction, NEW db, NEW w, NEW m
    PROVE  /\ Done(t, db, w, m).open = t.open
           /\ Done(t, db, w, m).view = db
           /\ Done(t, db, w, m).writes = t.writes \cup w
           /\ Done(t, db, w, m).missed = t.missed
           /\ Done(t, db, w, m).merges = t.merges \cup m
           /\ Done(t, db, w, m).ops = t.ops + 1
BY DEF Done, Transaction

LEMMA DoneType ==
    ASSUME NEW t \in Transaction, NEW db \in Database, NEW w \in SUBSET Resource, NEW m \in SUBSET Id,
           t.ops < MaxOps
    PROVE  Done(t, db, w, m) \in Transaction
<1>1. t.ops + 1 \in 0..MaxOps
  BY LifecycleAssumption DEF Transaction
<1>2. t.writes \cup w \in SUBSET Resource /\ t.merges \cup m \in SUBSET Id
  BY DEF Transaction
<1> QED  BY <1>1, <1>2 DEF Done, Transaction

LEMMA BegunType ==
    ASSUME Typed, NEW s \in Session
    PROVE  /\ Begun(s) \in Transaction
           /\ Begun(s).open = TRUE
           /\ tx[s].open => Begun(s) = tx[s]
           /\ ~tx[s].open => /\ Begun(s).view = host
                             /\ Begun(s).writes = {}
                             /\ Begun(s).missed = {}
                             /\ Begun(s).merges = {}
                             /\ Begun(s).ops = 0
<1>1. tx[s] \in Transaction /\ host \in Database
  BY DEF Typed
<1>2. CASE tx[s].open
  BY <1>1, <1>2 DEF Begun, Transaction
<1>3. CASE ~tx[s].open
  <2>1. Begun(s) = [open |-> TRUE, view |-> host, writes |-> {}, missed |-> {}, merges |-> {}, ops |-> 0]
    BY <1>3 DEF Begun, Closed
  <2>2. 0 \in 0..MaxOps
    BY LifecycleAssumption
  <2> QED  BY <1>1, <1>3, <2>1, <2>2 DEF Transaction
<1> QED  BY <1>2, <1>3

LEMMA ClosedType == Closed \in Transaction /\ Closed.open = FALSE
<1>1. Empty \in Database
  BY DEF Empty, Database
<1>2. 0 \in 0..MaxOps
  BY LifecycleAssumption
<1> QED  BY <1>1, <1>2 DEF Closed, Transaction

\* What a statement does to the transactions.
LEMMA StatementType ==
    ASSUME Typed, NEW s \in Session, NEW db \in Database, NEW w \in SUBSET Resource, NEW m \in SUBSET Id,
           DoMerging(s, db, w, m)
    PROVE  /\ Begun(s).ops < MaxOps
           /\ ~Conflicts(w, Begun(s).missed)
           /\ tx' \in [Session -> Transaction]
           /\ tx'[s] = Done(Begun(s), db, w, m)
           /\ \A o \in Session \ {s} : tx'[o] = tx[o]
           /\ host' = host /\ applied' = applied /\ known' = known
           /\ overlapped' \in BOOLEAN
<1>1. /\ Begun(s).ops < MaxOps
      /\ tx' = [tx EXCEPT ![s] = Done(Begun(s), db, w, m)]
  BY DEF DoMerging, Done
<1>2. Done(Begun(s), db, w, m) \in Transaction
  BY <1>1, BegunType, DoneType
<1>3. tx' \in [Session -> Transaction]
  BY <1>1, <1>2 DEF Typed
<1> QED  BY <1>1, <1>3 DEF DoMerging, Typed

-----------------------------------------------------------------------------
(* The invariant, of a database and of a transaction upon it.              *)

\* Two databases give a scenario both have the same name.
Agree(d, e) == \A i \in Id : d.reg[i] # None /\ e.reg[i] # None => d.reg[i].name = e.reg[i].name

\* Names are unique, ids have been given out, merged scenarios are frozen.
Proper(d, n) ==
    /\ \A i, j \in Id : d.reg[i] # None /\ d.reg[j] # None /\ d.reg[i].name = d.reg[j].name => i = j
    /\ \A i \in Id : d.reg[i] # None => i < n
    /\ \A i \in Id : d.reg[i] # None /\ d.reg[i].merged => d.reg[i].frozen

\* A scenario applied to its base is merged or gone.
AppliedIsMerged(d, a, n) ==
    \A i \in Id : a[i] = 0 \/ (a[i] = 1 /\ i < n /\ (d.reg[i] = None \/ d.reg[i].merged))

\* A name the transaction took names nobody else in the host.
NamesTaken(t, d) ==
    \A j \in Id : d.reg[j] # None /\ Naming(d.reg[j].name) \in t.writes => Registry(j) \in t.writes

\* A scenario it wrote is in the host, or its name was taken.
WrittenIsKnown(t, d) ==
    \A i \in Id : Registry(i) \in t.writes /\ t.view.reg[i] # None =>
                     d.reg[i] # None \/ Naming(t.view.reg[i].name) \in t.writes

\* While it goes on, it sees the host but for what it wrote or missed ...
SeesTheRest(t, d) ==
    t.ops < MaxOps =>
        \A i \in Id : Registry(i) \notin t.writes \cup t.missed => t.view.reg[i] = d.reg[i]

\* ... and the scenarios it does not see have names it missed.
MissedNames(t, d) ==
    t.ops < MaxOps =>
        \A i \in Id : d.reg[i] # None =>
            Registry(i) \in t.writes \/ t.view.reg[i] # None \/ Naming(d.reg[i].name) \in t.missed

\* What it wrote was not applied to its base before, nor is it twice.
MergesOnce(t, a, n) ==
    /\ \A i \in Id : Registry(i) \in t.writes => i < n
    /\ \A i \in Id : Registry(i) \in t.writes /\ t.view.reg[i] # None /\ ~t.view.reg[i].merged => a[i] = 0
    /\ \A i \in t.merges : /\ Registry(i) \in t.writes
                           /\ a[i] = 0
                           /\ t.view.reg[i] = None \/ t.view.reg[i].merged

Good(t, d, a, n) ==
    /\ Proper(t.view, n)
    /\ Agree(t.view, d)
    /\ NamesTaken(t, d)
    /\ WrittenIsKnown(t, d)
    /\ SeesTheRest(t, d)
    /\ MissedNames(t, d)
    /\ MergesOnce(t, a, n)

-----------------------------------------------------------------------------
(* Statements.                                                             *)

\* A statement that creates nothing: freeze, unfreeze, drop, merge, a write.
Alters(v, db, w, m) ==
    /\ \A i \in Id : db.reg[i] # None => v.reg[i] # None /\ db.reg[i].name = v.reg[i].name
    /\ \A i \in Id : db.reg[i] # v.reg[i] => Registry(i) \in w
    /\ \A i \in Id : Registry(i) \in w => v.reg[i] # None
    /\ \A x \in Name : Naming(x) \notin w
    /\ \A i \in Id : db.reg[i] # None /\ db.reg[i].merged => db.reg[i].frozen
    /\ \A i \in Id : db.reg[i] # None /\ v.reg[i].merged => db.reg[i].merged
    /\ \A i \in m : /\ Registry(i) \in w /\ ~v.reg[i].merged
                     /\ db.reg[i] # None /\ db.reg[i].merged

LEMMA AltersGood ==
    ASSUME NEW t \in Transaction, NEW d \in Database, NEW a \in [Id -> Nat], NEW n \in 1..(MaxId + 1),
           Proper(d, n), AppliedIsMerged(d, a, n), Good(t, d, a, n),
           NEW db \in Database, NEW w \in SUBSET Resource, NEW m \in SUBSET Id,
           Alters(t.view, db, w, m), t.ops < MaxOps, ~Conflicts(w, t.missed)
    PROVE  Good(Done(t, db, w, m), d, a, n)
<1> DEFINE u == Done(t, db, w, m)
<1>1. /\ u.view = db /\ u.writes = t.writes \cup w /\ u.missed = t.missed
      /\ u.merges = t.merges \cup m /\ u.ops = t.ops + 1
  BY DoneFields
<1>2. t.merges \in SUBSET Id /\ t.ops \in Nat /\ MaxOps \in Nat /\ t.view \in Database
  BY LifecycleAssumption DEF Transaction
<1>3. \A i \in Id : Registry(i) \in w => Registry(i) \notin t.missed
  BY DEF Conflicts
<1>4. \A i \in Id : d.reg[i] \in Entry \cup {None} /\ db.reg[i] \in Entry \cup {None}
                      /\ t.view.reg[i] \in Entry \cup {None}
  BY <1>2 DEF Database
<1>5. \A i \in Id : d.reg[i] # None => d.reg[i].name \in Name
  BY <1>4 DEF Entry
<1>6. \A i \in Id : db.reg[i] # None => db.reg[i].name \in Name
  BY <1>4 DEF Entry
<1> HIDE DEF u
<1>10. Proper(u.view, n)
  BY <1>1 DEF Good, Proper, Alters
<1>11. Agree(u.view, d)
  BY <1>1 DEF Good, Agree, Alters
<1>12. NamesTaken(u, d)
  BY <1>1, <1>5 DEF Good, NamesTaken, Alters
<1>13. WrittenIsKnown(u, d)
  <2> SUFFICES ASSUME NEW i \in Id, Registry(i) \in u.writes, u.view.reg[i] # None, d.reg[i] = None
               PROVE  Naming(u.view.reg[i].name) \in u.writes
    BY DEF WrittenIsKnown
  <2>1. t.view.reg[i] # None /\ db.reg[i].name = t.view.reg[i].name
    BY <1>1 DEF Alters
  <2>2. Registry(i) \in t.writes
    BY <1>1, <1>3, <2>1 DEF Good, SeesTheRest
  <2> QED  BY <1>1, <2>1, <2>2 DEF Good, WrittenIsKnown
<1>14. SeesTheRest(u, d)
  BY <1>1, <1>2 DEF Good, SeesTheRest, Alters
<1>15. MissedNames(u, d)
  BY <1>1, <1>2 DEF Good, MissedNames, Alters
<1>16. MergesOnce(u, a, n)
  <2>1. \A i \in Id : Registry(i) \in w => i < n
    BY DEF Good, Alters, Proper
  <2>2. ASSUME NEW i \in Id, Registry(i) \in w, t.view.reg[i] # None, ~t.view.reg[i].merged
        PROVE  a[i] = 0
    <3>1. CASE Registry(i) \in t.writes
      BY <2>2, <3>1 DEF Good, MergesOnce
    <3>2. CASE Registry(i) \notin t.writes
      <4>1. t.view.reg[i] = d.reg[i]
        BY <1>3, <2>2, <3>2 DEF Good, SeesTheRest
      <4> QED  BY <2>2, <4>1 DEF AppliedIsMerged
    <3> QED  BY <3>1, <3>2
  <2>3. \A i \in Id : Registry(i) \in u.writes => i < n
    BY <1>1, <2>1 DEF Good, MergesOnce
  <2>4. ASSUME NEW i \in Id, Registry(i) \in u.writes, u.view.reg[i] # None, ~u.view.reg[i].merged
        PROVE  a[i] = 0
    <3>1. t.view.reg[i] # None /\ ~t.view.reg[i].merged
      BY <1>1, <2>4 DEF Alters
    <3> QED  BY <1>1, <2>2, <2>4, <3>1 DEF Good, MergesOnce
  <2>5. ASSUME NEW i \in u.merges
        PROVE  Registry(i) \in u.writes /\ a[i] = 0 /\ (u.view.reg[i] = None \/ u.view.reg[i].merged)
    <3>1. CASE i \in m
      <4>1. Registry(i) \in w /\ ~t.view.reg[i].merged /\ db.reg[i] # None /\ db.reg[i].merged
        BY <3>1 DEF Alters
      <4>2. i \in Id /\ t.view.reg[i] # None
        BY <3>1, <4>1 DEF Alters
      <4> QED  BY <1>1, <2>2, <4>1, <4>2
    <3>2. CASE i \in t.merges
      <4>1. Registry(i) \in t.writes /\ a[i] = 0 /\ (t.view.reg[i] = None \/ t.view.reg[i].merged)
        BY <3>2 DEF Good, MergesOnce
      <4>2. i \in Id
        BY <1>2, <3>2
      <4> QED  BY <1>1, <4>1, <4>2 DEF Alters
    <3> QED  BY <1>1, <2>5, <3>1, <3>2
  <2> QED  BY <2>3, <2>4, <2>5 DEF MergesOnce
<1> QED  BY <1>10, <1>11, <1>12, <1>13, <1>14, <1>15, <1>16 DEF Good, u

\* scenario_create, of id n and name x.
Creates(v, db, w, n, x) ==
    /\ \A j \in Id \ {n} : db.reg[j] = v.reg[j]
    /\ db.reg[n] # None /\ db.reg[n].name = x /\ ~db.reg[n].merged
    /\ \A j \in Id : v.reg[j] # None => v.reg[j].name # x
    /\ \A j \in Id : Registry(j) \in w <=> j = n
    /\ \A y \in Name : Naming(y) \in w <=> y = x

LEMMA CreatesGood ==
    ASSUME NEW t \in Transaction, NEW d \in Database, NEW a \in [Id -> Nat], NEW n \in Id, NEW x \in Name,
           Proper(d, n), AppliedIsMerged(d, a, n), Good(t, d, a, n),
           NEW db \in Database, NEW w \in SUBSET Resource,
           Creates(t.view, db, w, n, x), t.ops < MaxOps, ~Conflicts(w, t.missed)
    PROVE  Good(Done(t, db, w, {}), d, a, n + 1)
<1> DEFINE u == Done(t, db, w, {})
<1>1. /\ u.view = db /\ u.writes = t.writes \cup w /\ u.missed = t.missed
      /\ u.merges = t.merges /\ u.ops = t.ops + 1
  <2>1. t.merges \cup {} = t.merges
    OBVIOUS
  <2> QED  BY <2>1 DEF Done, Transaction
<1>2. t.merges \in SUBSET Id /\ t.ops \in Nat /\ MaxOps \in Nat /\ t.view \in Database
  BY LifecycleAssumption DEF Transaction
<1>3. Naming(x) \notin t.missed
  BY DEF Conflicts, Creates
<1>4. \A i \in Id : d.reg[i] \in Entry \cup {None} /\ db.reg[i] \in Entry \cup {None}
                      /\ t.view.reg[i] \in Entry \cup {None}
  BY <1>2 DEF Database
<1>5. \A i \in Id : d.reg[i] # None => d.reg[i].name \in Name
  BY <1>4 DEF Entry
<1>6. \A i \in Id : i \in Nat /\ n \in Nat
  BY LifecycleAssumption DEF Id
<1>7. t.view.reg[n] = None /\ d.reg[n] = None
  BY <1>6 DEF Good, Proper
<1> HIDE DEF u
<1>10. Proper(u.view, n + 1)
  <2>1. \A i, j \in Id : db.reg[i] # None /\ db.reg[j] # None /\ db.reg[i].name = db.reg[j].name => i = j
    BY DEF Good, Proper, Creates
  <2>2. \A i \in Id : db.reg[i] # None => i < n + 1
    BY <1>6 DEF Good, Proper, Creates
  <2>3. \A i \in Id : db.reg[i] # None /\ db.reg[i].merged => db.reg[i].frozen
    BY DEF Good, Proper, Creates
  <2> QED  BY <1>1, <2>1, <2>2, <2>3 DEF Proper
<1>11. Agree(u.view, d)
  BY <1>1, <1>7 DEF Good, Agree, Creates
<1>12. NamesTaken(u, d)
  <2> SUFFICES ASSUME NEW j \in Id, d.reg[j] # None, Naming(d.reg[j].name) \in u.writes
               PROVE  Registry(j) \in u.writes
    BY DEF NamesTaken
  <2>1. CASE Naming(d.reg[j].name) \in t.writes
    BY <1>1, <2>1 DEF Good, NamesTaken
  <2>2. CASE Naming(d.reg[j].name) \in w
    <3>1. d.reg[j].name = x
      BY <1>5, <2>2 DEF Creates
    <3>2. t.view.reg[j] = None
      BY <3>1 DEF Good, Agree, Creates
    <3> QED  BY <1>1, <1>3, <3>1, <3>2 DEF Good, MissedNames
  <2> QED  BY <1>1, <2>1, <2>2
<1>13. WrittenIsKnown(u, d)
  <2> SUFFICES ASSUME NEW i \in Id, Registry(i) \in u.writes, u.view.reg[i] # None, d.reg[i] = None
               PROVE  Naming(u.view.reg[i].name) \in u.writes
    BY DEF WrittenIsKnown
  <2>1. CASE i = n
    BY <1>1, <2>1 DEF Creates
  <2>2. CASE i # n
    BY <1>1, <2>2 DEF Good, WrittenIsKnown, Creates
  <2> QED  BY <2>1, <2>2
<1>14. SeesTheRest(u, d)
  BY <1>1, <1>2 DEF Good, SeesTheRest, Creates
<1>15. MissedNames(u, d)
  BY <1>1, <1>2 DEF Good, MissedNames, Creates
<1>16. MergesOnce(u, a, n + 1)
  <2>1. \A i \in Id : Registry(i) \in u.writes => i < n + 1
    BY <1>1, <1>6 DEF Good, MergesOnce, Creates
  <2>2. \A i \in Id : Registry(i) \in u.writes /\ u.view.reg[i] # None /\ ~u.view.reg[i].merged => a[i] = 0
    BY <1>1, <1>6 DEF Good, MergesOnce, Creates, AppliedIsMerged
  <2>3. ASSUME NEW i \in u.merges
        PROVE  Registry(i) \in u.writes /\ a[i] = 0 /\ (u.view.reg[i] = None \/ u.view.reg[i].merged)
    <3>1. i \in Id /\ Registry(i) \in t.writes /\ a[i] = 0 /\ (t.view.reg[i] = None \/ t.view.reg[i].merged)
      BY <1>1, <1>2, <2>3 DEF Good, MergesOnce
    <3>2. i # n
      BY <1>6, <3>1 DEF Good, MergesOnce
    <3> QED  BY <1>1, <3>1, <3>2 DEF Creates
  <2> QED  BY <2>1, <2>2, <2>3 DEF MergesOnce
<1> QED  BY <1>10, <1>11, <1>12, <1>13, <1>14, <1>15, <1>16 DEF Good, u

\* The ids given out only grow.
LEMMA GoodLater ==
    ASSUME NEW t \in Transaction, NEW d \in Database, NEW a, NEW n \in Id, Good(t, d, a, n),
           Proper(d, n), AppliedIsMerged(d, a, n)
    PROVE  Good(t, d, a, n + 1) /\ Proper(d, n + 1) /\ AppliedIsMerged(d, a, n + 1)
<1>1. \A i \in Id : i \in Nat /\ n \in Nat
  BY LifecycleAssumption DEF Id
<1>2. \A i \in Id : i < n => i < n + 1
  BY <1>1
<1>3. Proper(t.view, n + 1) /\ Proper(d, n + 1) /\ AppliedIsMerged(d, a, n + 1)
  BY <1>2 DEF Good, Proper, AppliedIsMerged
<1>4. MergesOnce(t, a, n + 1)
  BY <1>2 DEF Good, MergesOnce
<1> QED  BY <1>3, <1>4 DEF Good

-----------------------------------------------------------------------------
(* Commits.                                                                *)

\* The host and its history once t has committed.
After(t, d, e) == \A i \in Id : e.reg[i] = IF Registry(i) \in t.writes THEN t.view.reg[i] ELSE d.reg[i]
Counted(t, a, b) == \A i \in Id : b[i] = a[i] + (IF i \in t.merges THEN 1 ELSE 0)

LEMMA HostAfterCommit ==
    ASSUME NEW t \in Transaction, NEW d \in Database, NEW a \in [Id -> Nat], NEW n \in 1..(MaxId + 1),
           NEW e \in Database, NEW b \in [Id -> Nat],
           Proper(d, n), AppliedIsMerged(d, a, n), Good(t, d, a, n), After(t, d, e), Counted(t, a, b)
    PROVE  Proper(e, n) /\ AppliedIsMerged(e, b, n)
<1>1. \A i \in Id : d.reg[i] \in Entry \cup {None} /\ t.view.reg[i] \in Entry \cup {None}
  BY DEF Database, Transaction
<1>2. ASSUME NEW i \in Id, NEW j \in Id, Registry(i) \in t.writes, Registry(j) \notin t.writes,
             t.view.reg[i] # None, d.reg[j] # None
      PROVE  t.view.reg[i].name # d.reg[j].name
  <2>1. CASE d.reg[i] # None
    BY <1>2, <2>1 DEF Good, Agree, Proper
  <2>2. CASE Naming(t.view.reg[i].name) \in t.writes
    BY <1>2, <2>2 DEF Good, NamesTaken
  <2> QED  BY <1>2, <2>1, <2>2 DEF Good, WrittenIsKnown
<1>3. \A i, j \in Id : e.reg[i] # None /\ e.reg[j] # None /\ e.reg[i].name = e.reg[j].name => i = j
  BY <1>2 DEF After, Good, Proper
<1>4. Proper(e, n)
  BY <1>3 DEF After, Good, Proper
<1>5. ASSUME NEW i \in Id
      PROVE  b[i] = 0 \/ (b[i] = 1 /\ i < n /\ (e.reg[i] = None \/ e.reg[i].merged))
  <2>1. CASE i \in t.merges
    BY <2>1 DEF After, Counted, Good, MergesOnce
  <2>2. CASE i \notin t.merges
    <3>1. b[i] = a[i]
      BY <2>2 DEF Counted
    <3> QED  BY <3>1 DEF After, AppliedIsMerged, Good, MergesOnce
  <2> QED  BY <2>1, <2>2
<1> QED  BY <1>4, <1>5 DEF AppliedIsMerged

LEMMA OthersAfterCommit ==
    ASSUME NEW t \in Transaction, NEW u \in Transaction,
           NEW d \in Database, NEW a \in [Id -> Nat], NEW n \in 1..(MaxId + 1),
           NEW e \in Database, NEW b \in [Id -> Nat],
           Good(t, d, a, n), Good(u, d, a, n), Agree(t.view, u.view), After(t, d, e), Counted(t, a, b),
           ~Conflicts(u.writes, t.writes), NEW missed,
           u.ops < MaxOps => missed = u.missed \cup t.writes
    PROVE  Good([u EXCEPT !.missed = missed], e, b, n)
<1> DEFINE v == [u EXCEPT !.missed = missed]
<1>1. /\ v.view = u.view /\ v.writes = u.writes /\ v.merges = u.merges /\ v.ops = u.ops
      /\ v.missed = missed
  BY DEF Transaction
<1>2. \A q : q \in u.writes => q \notin t.writes
  BY DEF Conflicts
<1>3. \A i \in u.merges : i \in Id
  BY DEF Transaction
<1>4. \A i \in Id : d.reg[i] \in Entry \cup {None} /\ t.view.reg[i] \in Entry \cup {None}
  BY DEF Database, Transaction
<1> HIDE DEF v
<1>5. ASSUME NEW j \in Id, e.reg[j] # None
      PROVE  \/ d.reg[j] # None /\ d.reg[j].name = e.reg[j].name
             \/ Registry(j) \in t.writes /\ Naming(e.reg[j].name) \in t.writes
  BY <1>5 DEF After, Good, Agree, WrittenIsKnown
<1>10. Proper(v.view, n)
  BY <1>1 DEF Good
<1>11. Agree(v.view, e)
  BY <1>1 DEF Good, Agree, After
<1>12. NamesTaken(v, e)
  BY <1>1, <1>2, <1>5 DEF Good, NamesTaken
<1>13. WrittenIsKnown(v, e)
  BY <1>1, <1>2 DEF Good, WrittenIsKnown, After
<1>14. SeesTheRest(v, e)
  BY <1>1 DEF Good, SeesTheRest, After
<1>15. MissedNames(v, e)
  BY <1>1, <1>5 DEF Good, MissedNames
<1>16. MergesOnce(v, b, n)
  <2>1. \A i \in Id : Registry(i) \in u.writes => b[i] = a[i]
    BY <1>2 DEF Good, MergesOnce, Counted
  <2> QED  BY <1>1, <1>3, <2>1 DEF Good, MergesOnce
<1> QED  BY <1>10, <1>11, <1>12, <1>13, <1>14, <1>15, <1>16 DEF Good, v

-----------------------------------------------------------------------------
(* The invariant.                                                          *)

\* A handle's name is its scenario's, if the database knows the scenario.
Means(h, d) == d.reg[h.id] # None => d.reg[h.id].name = h.name

Inv ==
    /\ Typed
    /\ Proper(host, nextId)
    /\ AppliedIsMerged(host, applied, nextId)
    /\ \A s \in Session : tx[s].open => Good(tx[s], host, applied, nextId)
    /\ \A s, o \in Session : tx[s].open /\ tx[o].open => Agree(tx[s].view, tx[o].view)
    /\ \A h \in handles : /\ h.id < nextId
                          /\ Means(h, host)
                          /\ \A s \in Session : tx[s].open => Means(h, tx[s].view)

LEMMA InitInv == Init => Inv
<1> SUFFICES ASSUME Init
             PROVE  Inv
  OBVIOUS
<1>1. Empty \in Database /\ \A i \in Id : Empty.reg[i] = None
  BY DEF Empty, Database
<1>2. Closed \in Transaction /\ Closed.open = FALSE
  BY ClosedType
<1>3. 1 \in 1..(MaxId + 1)
  BY LifecycleAssumption
<1>4. Typed
  BY <1>1, <1>2, <1>3 DEF Init, Typed
<1>5. \A s \in Session : ~tx[s].open
  BY <1>2 DEF Init
<1>6. Proper(host, nextId) /\ AppliedIsMerged(host, applied, nextId)
  BY <1>1 DEF Init, Proper, AppliedIsMerged
<1>7. handles = {}
  BY DEF Init
<1> QED  BY <1>4, <1>5, <1>6, <1>7 DEF Inv

\* A transaction that begins sees the host.
LEMMA BegunGood ==
    ASSUME Inv, NEW s \in Session
    PROVE  /\ Good(Begun(s), host, applied, nextId)
           /\ \A o \in Session : tx[o].open => Agree(View(s), tx[o].view)
           /\ \A h \in handles : Means(h, View(s))
<1>1. Typed
  BY DEF Inv
<1>2. CASE tx[s].open
  <2>1. Begun(s) = tx[s]
    BY <1>1, <1>2, BegunType
  <2> QED  BY <1>2, <2>1 DEF Inv, View
<1>3. CASE ~tx[s].open
  <2>1. /\ Begun(s).view = host /\ Begun(s).writes = {} /\ Begun(s).merges = {}
    BY <1>1, <1>3, BegunType
  <2>2. Good(Begun(s), host, applied, nextId)
    BY <2>1 DEF Inv, Good, Agree, NamesTaken, WrittenIsKnown, SeesTheRest, MissedNames, MergesOnce
  <2>3. ASSUME NEW o \in Session, tx[o].open
        PROVE  Agree(host, tx[o].view)
    BY <2>3 DEF Inv, Good, Agree
  <2>4. \A h \in handles : Means(h, host)
    BY DEF Inv
  <2> QED  BY <2>1, <2>2, <2>3, <2>4 DEF View
<1> QED  BY <1>2, <1>3

\* What is left to show of a statement.
LEMMA StatementInv ==
    ASSUME Inv, NEW s \in Session, NEW db \in Database, NEW w \in SUBSET Resource, NEW m \in SUBSET Id,
           DoMerging(s, db, w, m), handles' = handles, nextId' \in 1..(MaxId + 1), nextId' >= nextId,
           Good(Done(Begun(s), db, w, m), host, applied, nextId'),
           Proper(host, nextId'), AppliedIsMerged(host, applied, nextId'),
           \A o \in Session : tx[o].open => Good(tx[o], host, applied, nextId'),
           \A o \in Session : tx[o].open => Agree(db, tx[o].view),
           \A h \in handles : Means(h, db)
    PROVE  Inv'
<1>1. Typed
  BY DEF Inv
<1>2. /\ tx' \in [Session -> Transaction]
      /\ tx'[s] = Done(Begun(s), db, w, m)
      /\ \A o \in Session \ {s} : tx'[o] = tx[o]
      /\ host' = host /\ applied' = applied /\ known' = known
      /\ overlapped' \in BOOLEAN
  BY <1>1, StatementType
<1>3. tx'[s].view = db
  <2>1. Begun(s) \in Transaction
    BY <1>1, BegunType
  <2>2. Done(Begun(s), db, w, m).view = db
    BY <2>1 DEF Done, Transaction
  <2> QED  BY <1>2, <2>2
<1>4. Typed'
  BY <1>1, <1>2 DEF Typed
<1>5. ASSUME NEW o \in Session, tx'[o].open
      PROVE  Good(tx'[o], host, applied, nextId')
  BY <1>2, <1>5
<1>6. ASSUME NEW o \in Session, NEW q \in Session, tx'[o].open, tx'[q].open
      PROVE  Agree(tx'[o].view, tx'[q].view)
  <2>1. CASE o = s /\ q = s
    BY <1>3, <2>1 DEF Agree
  <2>2. CASE o = s /\ q # s
    BY <1>2, <1>3, <1>6, <2>2
  <2>3. CASE o # s /\ q = s
    <3>1. Agree(db, tx[o].view)
      BY <1>2, <1>6, <2>3
    <3> QED  BY <1>2, <1>3, <2>3, <3>1 DEF Agree
  <2>4. CASE o # s /\ q # s
    BY <1>2, <1>6, <2>4 DEF Inv
  <2> QED  BY <2>1, <2>2, <2>3, <2>4
<1>7. ASSUME NEW h \in handles
      PROVE  h.id < nextId' /\ Means(h, host)
  <2>1. h.id < nextId /\ Means(h, host)
    BY DEF Inv
  <2>2. h.id \in Nat /\ nextId \in Nat /\ nextId' \in Nat
    BY <1>1, LifecycleAssumption DEF Typed, Handle, Id
  <2> QED  BY <2>1, <2>2
<1>8. ASSUME NEW h \in handles, NEW o \in Session, tx'[o].open
      PROVE  Means(h, tx'[o].view)
  <2>1. CASE o = s
    BY <1>3, <2>1
  <2>2. CASE o # s
    BY <1>2, <1>8, <2>2 DEF Inv
  <2> QED  BY <2>1, <2>2
<1> QED  BY <1>2, <1>4, <1>5, <1>6, <1>7, <1>8 DEF Inv, Means

LEMMA AltersInv ==
    ASSUME Inv, NEW s \in Session, NEW db \in Database, NEW w \in SUBSET Resource, NEW m \in SUBSET Id,
           DoMerging(s, db, w, m), Alters(View(s), db, w, m), UNCHANGED <<handles, nextId>>
    PROVE  Inv'
<1>1. /\ Typed /\ Proper(host, nextId) /\ AppliedIsMerged(host, applied, nextId)
      /\ \A o \in Session : tx[o].open => Good(tx[o], host, applied, nextId)
  BY DEF Inv
<1>2. /\ host \in Database /\ applied \in [Id -> Nat] /\ nextId \in 1..(MaxId + 1)
      /\ handles \subseteq Handle
  BY <1>1 DEF Typed
<1>3. Begun(s) \in Transaction /\ Begun(s).ops < MaxOps /\ ~Conflicts(w, Begun(s).missed)
  BY <1>1, BegunType, StatementType
<1>4. /\ Good(Begun(s), host, applied, nextId)
      /\ \A o \in Session : tx[o].open => Agree(View(s), tx[o].view)
      /\ \A h \in handles : Means(h, View(s))
  BY BegunGood
<1>5. Alters(Begun(s).view, db, w, m)
  BY DEF View
<1>6. Good(Done(Begun(s), db, w, m), host, applied, nextId)
  BY <1>1, <1>2, <1>3, <1>4, <1>5, AltersGood
<1>7. \A o \in Session : tx[o].open => Agree(db, tx[o].view)
  BY <1>4 DEF Alters, Agree
<1>8. \A h \in handles : Means(h, db)
  <2>1. \A h \in handles : h.id \in Id
    BY <1>2 DEF Handle
  <2> QED  BY <1>4, <2>1 DEF Alters, Means
<1>9. nextId >= nextId
  BY <1>2
<1> QED  BY <1>1, <1>2, <1>6, <1>7, <1>8, <1>9, StatementInv

-----------------------------------------------------------------------------
(* The statements preserve it.                                             *)

LEMMA ViewType ==
    ASSUME Typed, NEW s \in Session
    PROVE  /\ View(s) \in Database
           /\ \A i \in Id : View(s).reg[i] \in Entry \cup {None}
           /\ \A i \in Id : View(s).delta[i] \in (SUBSET Row) \cup {None}
           /\ \A i \in Id : Rows(View(s), i) \in SUBSET Row
<1>1. View(s) \in Database
  BY BegunType DEF View, Transaction
<1> QED  BY <1>1 DEF Database, Rows

LEMMA DropInv ==
    ASSUME Inv, NEW s \in Session, NEW i \in Id, Drop(s, i)
    PROVE  Inv'
<1> DEFINE v == View(s)
           db == [v EXCEPT !.reg[i] = None, !.delta[i] = None]
           w == {<<"registry", i>>} \cup (IF v.delta[i] = None THEN {} ELSE {<<"table", i>>})
<1>1. v \in Database
  BY ViewType DEF Inv
<1>2. DoMerging(s, db, w, {}) /\ UNCHANGED <<handles, nextId>> /\ i \in Registered(v)
  BY DEF Drop, Do
<1>3. db \in Database /\ db.reg[i] = None /\ \A j \in Id \ {i} : db.reg[j] = v.reg[j]
  BY <1>1 DEF Database
<1>4. w \in SUBSET Resource
  BY DEF Resource
<1>5. /\ \A j : Registry(j) \in w <=> j = i
      /\ \A x : Naming(x) \notin w
  BY DEF Registry, Naming
<1>6. v.reg[i] # None
  BY <1>2 DEF Registered
<1>7. \A j \in Id : v.reg[j] # None /\ v.reg[j].merged => v.reg[j].frozen
  BY BegunGood DEF View, Good, Proper
<1> HIDE DEF v, db, w
<1>8. Alters(v, db, w, {})
  BY <1>3, <1>5, <1>6, <1>7 DEF Alters
<1> QED  BY <1>2, <1>3, <1>4, <1>8, AltersInv DEF v

LEMMA SetFrozenInv ==
    ASSUME Inv, NEW s \in Session, NEW i \in Registered(View(s)), NEW frozen \in BOOLEAN,
           View(s).reg[i].merged => frozen, SetFrozen(s, i, frozen)
    PROVE  Inv'
<1> DEFINE v == View(s)
           db == [v EXCEPT !.reg[i].frozen = frozen]
           w == {<<"registry", i>>}
<1>1. /\ v \in Database /\ i \in Id /\ v.reg[i] \in Entry /\ v.reg[i] # None
      /\ v.reg[i].merged => frozen
  BY ViewType DEF Inv, Registered
<1>2. DoMerging(s, db, w, {}) /\ UNCHANGED <<handles, nextId>>
  BY DEF SetFrozen, Do
<1>3. \A j \in Id : v.reg[j] # None /\ v.reg[j].merged => v.reg[j].frozen
  BY BegunGood DEF View, Good, Proper
<1> HIDE DEF v
<1>4. db.reg[i] \in Entry /\ db.reg[i].name = v.reg[i].name
  BY <1>1 DEF Database, Entry
<1>5. db.reg[i].frozen = frozen /\ db.reg[i].merged = v.reg[i].merged
  BY <1>1 DEF Database, Entry
<1>6. db \in Database /\ \A j \in Id \ {i} : db.reg[j] = v.reg[j]
  BY <1>1, <1>4 DEF Database
<1>7. /\ w \in SUBSET Resource
      /\ \A j : Registry(j) \in w <=> j = i
      /\ \A x : Naming(x) \notin w
  BY <1>1 DEF Resource, Registry, Naming
<1> HIDE DEF db, w
<1>8. db.reg[i] # None
  BY <1>4, NoneAssumption
<1>9. Alters(v, db, w, {})
  BY <1>1, <1>3, <1>4, <1>5, <1>6, <1>7, <1>8 DEF Alters
<1> QED  BY <1>2, <1>6, <1>7, <1>9, AltersInv DEF v

LEMMA FreezeInv ==
    ASSUME Inv, NEW s \in Session, NEW i \in Id, Freeze(s, i) \/ Unfreeze(s, i)
    PROVE  Inv'
<1>1. CASE Freeze(s, i)
  BY <1>1, SetFrozenInv DEF Freeze
<1>2. CASE Unfreeze(s, i)
  BY <1>2, SetFrozenInv DEF Unfreeze
<1> QED  BY <1>1, <1>2

LEMMA MergeInv ==
    ASSUME Inv, NEW s \in Session, NEW i \in Id, Merge(s, i)
    PROVE  Inv'
<1> DEFINE v == View(s)
           w == MergeWrites(v, i)
           db == [v EXCEPT !.reg[i].merged = TRUE, !.reg[i].frozen = TRUE,
                           !.delta[i] = IF @ = None THEN None ELSE {}]
<1>1. /\ i \in Registered(v) /\ ~v.reg[i].merged
      /\ DoMerging(s, db, w, {i}) /\ UNCHANGED <<handles, nextId>>
  BY DEF Merge, MergeAllowed
<1>2. v \in Database /\ v.reg[i] \in Entry /\ v.reg[i] # None /\ Rows(v, i) \in SUBSET Row
  BY <1>1, ViewType DEF Inv, Registered
<1>3. \A j \in Id : v.reg[j] # None /\ v.reg[j].merged => v.reg[j].frozen
  BY BegunGood DEF View, Good, Proper
<1> HIDE DEF v
<1>4. db.reg[i] \in Entry /\ db.reg[i].name = v.reg[i].name /\ db.reg[i].merged /\ db.reg[i].frozen
  BY <1>2 DEF Database, Entry
<1>5. db \in Database /\ \A j \in Id \ {i} : db.reg[j] = v.reg[j]
  BY <1>2, <1>4 DEF Database
<1>6. /\ w \in SUBSET Resource
      /\ \A j : Registry(j) \in w <=> j = i
      /\ \A x : Naming(x) \notin w
  BY <1>2, RowsOnly DEF MergeWrites, RowsOf, Resource, Registry, Naming
<1> HIDE DEF db, w
<1>7. db.reg[i] # None
  BY <1>4, NoneAssumption
<1>8. Alters(v, db, w, {i})
  BY <1>1, <1>2, <1>3, <1>4, <1>5, <1>6, <1>7 DEF Alters
<1> QED  BY <1>1, <1>5, <1>6, <1>8, AltersInv DEF v

LEMMA WriteRowInv ==
    ASSUME Inv, NEW s \in Session, NEW h \in handles, NEW r \in Row, WriteRow(s, h, r)
    PROVE  Inv'
<1> DEFINE v == View(s)
           i == h.id
           rows == IF r \in Rows(v, i) THEN v.delta[i] \ {r} ELSE Rows(v, i) \cup {r}
           w == FirstWrite(v, i) \cup RowsOf(i, {r})
           db == [v EXCEPT !.delta[i] = IF r \in Rows(v, i) THEN @ \ {r} ELSE Rows(v, i) \cup {r}]
<1>1. DoMerging(s, db, w, {}) /\ UNCHANGED <<handles, nextId>>
  BY DEF WriteRow, Do
<1>2. i \in Id
  BY DEF Inv, Typed, Handle
<1>3. v \in Database /\ Rows(v, i) \in SUBSET Row /\ v.delta[i] \in (SUBSET Row) \cup {None}
  BY <1>2, ViewType DEF Inv
<1>4. rows \in SUBSET Row
  BY <1>3 DEF Rows
<1>5. db \in Database /\ db.reg = v.reg
  BY <1>2, <1>3, <1>4 DEF Database
<1>6. /\ w \in SUBSET Resource
      /\ \A j : Registry(j) \notin w
      /\ \A x : Naming(x) \notin w
  BY <1>2, RowsOnly DEF FirstWrite, RowsOf, Resource, Registry, Naming
<1>7. \A j \in Id : v.reg[j] # None /\ v.reg[j].merged => v.reg[j].frozen
  BY BegunGood DEF View, Good, Proper
<1> HIDE DEF v, i, rows, w, db
<1>8. Alters(v, db, w, {})
  BY <1>5, <1>6, <1>7 DEF Alters
<1> QED  BY <1>1, <1>5, <1>6, <1>8, AltersInv DEF v

LEMMA CreateInv ==
    ASSUME Inv, NEW s \in Session, NEW x \in Name, NEW p \in Id \cup {None}, Create(s, x, p)
    PROVE  Inv'
<1> DEFINE v == View(s)
           n == nextId
           inherited == IF p = None THEN None ELSE v.delta[p]
           e == [name |-> x, frozen |-> FALSE, merged |-> FALSE, parent |-> p]
           db == [v EXCEPT !.reg[n] = e, !.delta[n] = inherited]
           w == CreateWrites(n, x, inherited)
<1>1. /\ n \in Id /\ Named(v, x) = {} /\ nextId' = n + 1 /\ handles' = handles
      /\ DoMerging(s, db, w, {})
  BY DEF Create, Do, NextId
<1>2. /\ Typed /\ Proper(host, n) /\ AppliedIsMerged(host, applied, n)
      /\ host \in Database /\ applied \in [Id -> Nat] /\ handles \subseteq Handle
      /\ tx \in [Session -> Transaction]
      /\ \A o \in Session : tx[o].open => Good(tx[o], host, applied, n)
  BY DEF Inv, Typed
<1>3. v \in Database /\ inherited \in (SUBSET Row) \cup {None}
  BY <1>2, ViewType
<1>4. e \in Entry
  BY DEF Entry
<1>5. db \in Database /\ db.reg[n] = e /\ \A j \in Id \ {n} : db.reg[j] = v.reg[j]
  <2> HIDE DEF v, n, inherited, e
  <2> QED  BY <1>1, <1>3, <1>4 DEF Database
<1>6. w \in SUBSET Resource
  BY <1>1, <1>3 DEF CreateWrites, CopyWrites, RowsOf, Resource
<1>7. /\ \A j : Registry(j) \in w <=> j = n
      /\ \A y : Naming(y) \in w <=> y = x
  BY CreateWritesWhat
<1>8. \A j \in Id : v.reg[j] # None => v.reg[j].name # x
  BY <1>1 DEF Named, Registered
<1>9. e.name = x /\ ~e.merged /\ e # None
  BY <1>4, NoneAssumption
<1>10. Begun(s) \in Transaction /\ Begun(s).ops < MaxOps /\ ~Conflicts(w, Begun(s).missed)
  <2>1. Begun(s) \in Transaction
    BY <1>2, BegunType
  <2> HIDE DEF w, db
  <2> QED  BY <1>1, <2>1 DEF DoMerging
<1>11. /\ Good(Begun(s), host, applied, n)
       /\ \A o \in Session : tx[o].open => Agree(v, tx[o].view)
       /\ \A h \in handles : Means(h, v) /\ h.id < n
  BY BegunGood DEF Inv
<1>12. n + 1 \in 1..(MaxId + 1) /\ n + 1 >= n /\ n \in Nat
  BY <1>1, LifecycleAssumption DEF Id
<1>13. v = Begun(s).view
  BY DEF View
<1> HIDE DEF v, n, inherited, e, db, w
<1>14. Creates(Begun(s).view, db, w, n, x)
  BY <1>4, <1>5, <1>7, <1>8, <1>9, <1>13 DEF Creates
<1>15. Good(Done(Begun(s), db, w, {}), host, applied, n + 1)
  BY <1>1, <1>2, <1>5, <1>6, <1>10, <1>11, <1>14, CreatesGood
<1>16. \A o \in Session : tx[o].open => Good(tx[o], host, applied, n + 1)
  BY <1>1, <1>2, GoodLater
<1>17. Proper(host, n + 1) /\ AppliedIsMerged(host, applied, n + 1)
  BY <1>1, <1>2, <1>10, <1>11, GoodLater
<1>18. ASSUME NEW o \in Session, tx[o].open
       PROVE  Agree(db, tx[o].view)
  <2>1. Agree(v, tx[o].view) /\ Proper(tx[o].view, n)
    BY <1>2, <1>11, <1>18 DEF Good
  <2>2. tx[o].view.reg[n] = None
    BY <1>1, <1>12, <2>1 DEF Proper
  <2> QED  BY <1>5, <2>1, <2>2 DEF Agree
<1>19. ASSUME NEW h \in handles
       PROVE  Means(h, db)
  <2>1. h.id \in Id /\ h.id # n
    BY <1>2, <1>11, <1>12 DEF Handle, Id
  <2> QED  BY <1>5, <1>11, <2>1 DEF Means
<1>20. nextId' \in 1..(MaxId + 1) /\ nextId' >= nextId /\ nextId' = n + 1
  BY <1>1, <1>12 DEF n
<1> QED  BY <1>1, <1>5, <1>6, <1>15, <1>16, <1>17, <1>18, <1>19, <1>20, StatementInv

-----------------------------------------------------------------------------
(* So do the ends of transactions, and attaching.                          *)

LEMMA CommittedType ==
    ASSUME NEW t \in Transaction, host \in Database
    PROVE  Committed(t) \in Database /\ After(t, host, Committed(t))
<1>1. \A i \in Id : /\ t.view.reg[i] \in Entry \cup {None} /\ host.reg[i] \in Entry \cup {None}
                    /\ t.view.delta[i] \in (SUBSET Row) \cup {None}
                    /\ host.delta[i] \in (SUBSET Row) \cup {None}
  BY DEF Transaction, Database
<1>2. \A i \in Id : Rows(t.view, i) \in SUBSET Row
  BY <1>1 DEF Rows
<1>3. Committed(t).reg \in [Id -> Entry \cup {None}]
  BY <1>1 DEF Committed
<1>4. Committed(t).delta \in [Id -> (SUBSET Row) \cup {None}]
  BY <1>1, <1>2 DEF Committed
<1>5. Committed(t) = [reg |-> Committed(t).reg, delta |-> Committed(t).delta]
  BY DEF Committed
<1>6. Committed(t) \in Database
  BY <1>3, <1>4, <1>5 DEF Database
<1>7. After(t, host, Committed(t))
  BY DEF Committed, After, Registry
<1> QED  BY <1>6, <1>7

LEMMA CommitInv ==
    ASSUME Inv, NEW s \in Session, Commit(s)
    PROVE  Inv'
<1> DEFINE t == tx[s]
<1>1. /\ t.open /\ host' = Committed(t)
      /\ applied' = [i \in Id |-> applied[i] + (IF i \in t.merges THEN 1 ELSE 0)]
      /\ tx' = [o \in Session |-> IF o = s THEN Closed ELSE AfterCommitOf(t.writes, tx[o])]
      /\ known' = known \cup Registered(host')
      /\ UNCHANGED <<handles, nextId, overlapped>>
  BY DEF Commit
<1>2. /\ t \in Transaction /\ host \in Database /\ applied \in [Id -> Nat] /\ nextId \in 1..(MaxId + 1)
      /\ \A o \in Session : tx[o] \in Transaction
      /\ handles \subseteq Handle
  BY DEF Inv, Typed
<1>3. /\ Proper(host, nextId) /\ AppliedIsMerged(host, applied, nextId) /\ Good(t, host, applied, nextId)
      /\ \A o \in Session : tx[o].open => Good(tx[o], host, applied, nextId) /\ Agree(t.view, tx[o].view)
  BY <1>1 DEF Inv
<1>4. host' \in Database /\ After(t, host, host')
  BY <1>1, <1>2, CommittedType
<1>5. applied' \in [Id -> Nat] /\ Counted(t, applied, applied')
  BY <1>1, <1>2 DEF Counted
<1> HIDE DEF t
<1>6. Proper(host', nextId) /\ AppliedIsMerged(host', applied', nextId)
  BY <1>2, <1>3, <1>4, <1>5, HostAfterCommit
<1>7. ASSUME NEW o \in Session
      PROVE  /\ tx'[o] \in Transaction
             /\ tx'[o].open => /\ tx[o].open
                               /\ tx'[o].view = tx[o].view
                               /\ Good(tx'[o], host', applied', nextId)
  <2>1. CASE ~tx[o].open \/ o = s \/ Conflicts(tx[o].writes, t.writes)
    <3>1. tx'[o] = Closed \/ (tx'[o] = tx[o] /\ ~tx[o].open)
      BY <1>1, <2>1 DEF AfterCommitOf
    <3> QED  BY <1>2, <3>1, ClosedType
  <2>2. CASE tx[o].open /\ o # s /\ ~Conflicts(tx[o].writes, t.writes)
    <3> DEFINE u == tx[o]
               missed == IF u.ops < MaxOps THEN u.missed \cup t.writes ELSE {}
    <3>1. tx'[o] = [u EXCEPT !.missed = missed]
      BY <1>1, <2>2 DEF AfterCommitOf
    <3>2. u \in Transaction /\ Good(u, host, applied, nextId) /\ Agree(t.view, u.view)
      BY <1>2, <1>3, <2>2
    <3>3. missed \in SUBSET Resource
      BY <1>2, <3>2 DEF Transaction
    <3>4. u.ops < MaxOps => missed = u.missed \cup t.writes
      OBVIOUS
    <3> HIDE DEF u, missed
    <3>5. [u EXCEPT !.missed = missed] \in Transaction /\ [u EXCEPT !.missed = missed].view = u.view
      BY <3>2, <3>3 DEF Transaction
    <3>6. ~Conflicts(u.writes, t.writes)
      BY <2>2 DEF u
    <3>7. Good([u EXCEPT !.missed = missed], host', applied', nextId)
      BY <1>2, <1>3, <1>4, <1>5, <3>2, <3>4, <3>6, OthersAfterCommit
    <3> QED  BY <2>2, <3>1, <3>5, <3>7 DEF u
  <2> QED  BY <2>1, <2>2
<1>8. tx' \in [Session -> Transaction]
  BY <1>1, <1>7
<1>9. Typed'
  BY <1>1, <1>2, <1>4, <1>5, <1>8 DEF Inv, Typed, Registered
<1>10. \A h \in handles : Means(h, host')
  <2> SUFFICES ASSUME NEW h \in handles
               PROVE  Means(h, host')
    OBVIOUS
  <2>1. Means(h, host) /\ Means(h, t.view)
    BY <1>1 DEF Inv, t
  <2>2. h.id \in Id
    BY <1>2 DEF Handle
  <2> QED  BY <1>4, <2>1, <2>2 DEF After, Means
<1>11. \A o, q \in Session : tx'[o].open /\ tx'[q].open => Agree(tx'[o].view, tx'[q].view)
  BY <1>7 DEF Inv
<1>12. \A h \in handles : \A o \in Session : tx'[o].open => Means(h, tx'[o].view)
  BY <1>7 DEF Inv, Means
<1>13. \A h \in handles : h.id < nextId
  BY DEF Inv
<1> QED  BY <1>1, <1>6, <1>7, <1>9, <1>10, <1>11, <1>12, <1>13 DEF Inv, Means

LEMMA RollbackInv ==
    ASSUME Inv, NEW s \in Session, Rollback(s)
    PROVE  Inv'
<1>1. /\ tx' = [tx EXCEPT ![s] = Closed]
      /\ UNCHANGED <<host, applied, handles, known, nextId, overlapped>>
  BY DEF Rollback
<1>2. Typed'
  BY <1>1, ClosedType DEF Inv, Typed
<1>3. \A o \in Session : tx'[o].open => tx'[o] = tx[o]
  BY <1>1, ClosedType DEF Inv, Typed
<1> QED  BY <1>1, <1>2, <1>3 DEF Inv, Means

\* The transaction once it has looked a scenario up.
Looked(t) == [t EXCEPT !.ops = IF @ < MaxOps THEN @ + 1 ELSE @]

LEMMA LookedGood ==
    ASSUME NEW t \in Transaction, NEW d, NEW a, NEW n, Good(t, d, a, n)
    PROVE  /\ Looked(t) \in Transaction
           /\ Looked(t).open = t.open /\ Looked(t).view = t.view /\ Looked(t).writes = t.writes
           /\ Good(Looked(t), d, a, n)
<1> DEFINE k == IF t.ops < MaxOps THEN t.ops + 1 ELSE t.ops
<1>1. k \in 0..MaxOps /\ (k < MaxOps => t.ops < MaxOps)
  BY LifecycleAssumption DEF Transaction
<1>2. Looked(t) = [t EXCEPT !.ops = k]
  BY DEF Looked
<1> HIDE DEF k
<1>3. /\ Looked(t) \in Transaction
      /\ Looked(t).open = t.open /\ Looked(t).view = t.view /\ Looked(t).writes = t.writes
      /\ Looked(t).missed = t.missed /\ Looked(t).merges = t.merges /\ Looked(t).ops = k
  BY <1>1, <1>2 DEF Transaction
<1>4. SeesTheRest(Looked(t), d) /\ MissedNames(Looked(t), d)
  BY <1>1, <1>3 DEF Good, SeesTheRest, MissedNames
<1> QED  BY <1>3, <1>4 DEF Good, NamesTaken, WrittenIsKnown, MergesOnce

LEMMA AttachInv ==
    ASSUME Inv, NEW s \in Session, NEW i \in Id, Attach(s, i)
    PROVE  Inv'
<1> DEFINE g == [id |-> i, name |-> View(s).reg[i].name]
<1>1. /\ View(s).reg[i] # None /\ handles' = handles \cup {g} /\ overlapped' \in BOOLEAN
      /\ tx' = [tx EXCEPT ![s] = Looked(Begun(s))]
      /\ UNCHANGED <<host, applied, known, nextId>>
  BY DEF Attach, Looked, Registered, Inv, Typed
<1>2. View(s) = Begun(s).view /\ Begun(s) \in Transaction /\ View(s).reg[i].name \in Name
  BY <1>1, BegunType, ViewType DEF View, Inv, Entry
<1>3. /\ Good(Begun(s), host, applied, nextId)
      /\ \A o \in Session : tx[o].open => Agree(View(s), tx[o].view)
      /\ \A h \in handles : Means(h, View(s))
  BY BegunGood
<1>4. /\ Looked(Begun(s)) \in Transaction /\ Looked(Begun(s)).view = View(s)
      /\ Good(Looked(Begun(s)), host, applied, nextId)
  BY <1>2, <1>3, LookedGood
<1>5. /\ tx' \in [Session -> Transaction] /\ tx'[s] = Looked(Begun(s))
      /\ \A o \in Session \ {s} : tx'[o] = tx[o]
  BY <1>1, <1>4 DEF Inv, Typed
<1>6. Typed'
  BY <1>1, <1>2, <1>5 DEF Inv, Typed, Handle
<1>7. g.id = i /\ g.name = View(s).reg[i].name /\ i < nextId /\ Means(g, host)
  BY <1>1, <1>2, <1>3 DEF Good, Proper, Agree, Means
<1>8. \A o \in Session : tx[o].open => Means(g, tx[o].view)
  BY <1>1, <1>3 DEF Agree, Means
<1> HIDE DEF g
<1>9. \A o \in Session : tx'[o].open => Good(tx'[o], host, applied, nextId)
  BY <1>4, <1>5 DEF Inv
<1>10. \A o, q \in Session : tx'[o].open /\ tx'[q].open => Agree(tx'[o].view, tx'[q].view)
  <2> SUFFICES ASSUME NEW o \in Session, NEW q \in Session, tx'[o].open, tx'[q].open
               PROVE  Agree(tx'[o].view, tx'[q].view)
    OBVIOUS
  <2>1. CASE o = s /\ q = s
    BY <2>1 DEF Agree
  <2>2. CASE o = s /\ q # s
    BY <1>3, <1>4, <1>5, <2>2
  <2>3. CASE o # s /\ q = s
    BY <1>3, <1>4, <1>5, <2>3 DEF Agree
  <2>4. CASE o # s /\ q # s
    BY <1>5, <2>4 DEF Inv
  <2> QED  BY <2>1, <2>2, <2>3, <2>4
<1>11. ASSUME NEW h \in handles', NEW o \in Session, tx'[o].open
       PROVE  Means(h, tx'[o].view)
  <2>1. CASE o = s
    <3>1. Means(g, View(s))
      BY <1>7 DEF Means
    <3> QED  BY <1>1, <1>3, <1>4, <1>5, <2>1, <3>1
  <2>2. CASE o # s
    BY <1>1, <1>5, <1>8, <1>11, <2>2 DEF Inv
  <2> QED  BY <2>1, <2>2
<1>12. \A h \in handles' : h.id < nextId /\ Means(h, host)
  BY <1>1, <1>7 DEF Inv
<1> QED  BY <1>1, <1>6, <1>9, <1>10, <1>11, <1>12 DEF Inv, Means

LEMMA DetachInv ==
    ASSUME Inv, NEW h, Detach(h)
    PROVE  Inv'
<1>1. /\ handles' \subseteq handles
      /\ UNCHANGED <<host, applied, tx, known, nextId, overlapped>>
  BY DEF Detach
<1> QED  BY <1>1 DEF Inv, Typed, Means

LEMMA NextInv == Inv /\ [Next]_vars => Inv'
<1> SUFFICES ASSUME Inv, [Next]_vars
             PROVE  Inv'
  OBVIOUS
<1>1. CASE \E s \in Session : Commit(s) \/ Rollback(s)
  BY <1>1, CommitInv, RollbackInv
<1>2. CASE \E s \in Session, n \in Name, p \in Id \cup {None} : Create(s, n, p)
  BY <1>2, CreateInv
<1>3. CASE \E s \in Session, i \in Id : Drop(s, i) \/ Freeze(s, i) \/ Unfreeze(s, i) \/ Merge(s, i)
  BY <1>3, DropInv, FreezeInv, MergeInv
<1>4. CASE \E s \in Session, i \in Id : Attach(s, i)
  BY <1>4, AttachInv
<1>5. CASE \E h \in handles : Detach(h)
  BY <1>5, DetachInv
<1>6. CASE \E s \in Session, h \in handles, r \in Row : WriteRow(s, h, r)
  BY <1>6, WriteRowInv
<1>7. CASE UNCHANGED vars
  BY <1>7 DEF vars, Inv, Typed, Means
<1> QED  BY <1>1, <1>2, <1>3, <1>4, <1>5, <1>6, <1>7 DEF Next

\* The strengthened invariant holds of every behaviour.
THEOREM InvAlways == Spec => []Inv
<1> QED  BY InitInv, NextInv, PTL DEF Spec

-----------------------------------------------------------------------------
(* What follows.                                                           *)

\* Every variable keeps its type; in particular no scenario is ever applied
\* to its base twice.
THEOREM TypeCorrect == Spec => []TypeOK
<1>1. Inv => TypeOK
  <2> SUFFICES ASSUME Inv
               PROVE  TypeOK
    OBVIOUS
  <2>1. \A i \in Id : applied[i] \in 0..2
    BY DEF Inv, AppliedIsMerged
  <2> QED  BY <2>1 DEF Inv, Typed, TypeOK
<1> QED  BY <1>1, InvAlways, PTL

\* A name resolves to one scenario: the index on the names catches two
\* creations that do not see each other.
THEOREM NamesAlwaysUnique == Spec => []NamesAreUnique
<1>1. Inv => NamesAreUnique
  <2> SUFFICES ASSUME Inv, NEW n \in Name
               PROVE  Cardinality(Named(host, n)) <= 1
    BY DEF NamesAreUnique
  <2>1. \A i, j \in Named(host, n) : i = j
    BY DEF Inv, Proper, Named, Registered
  <2>2. CASE Named(host, n) = {}
    BY <2>2, FS_EmptySet
  <2>3. CASE Named(host, n) # {}
    <3>1. PICK i : i \in Named(host, n)
      BY <2>3
    <3>2. Named(host, n) = {i}
      BY <2>1, <3>1
    <3> QED  BY <3>2, FS_Singleton
  <2> QED  BY <2>2, <2>3
<1> QED  BY <1>1, InvAlways, PTL

\* A merged scenario is frozen and was applied to its base once, although a
\* freeze, an unfreeze and a merge check what they read and not what they
\* write: they meet at the registry row all of them write.
THEOREM MergedAlwaysClosed == Spec => []MergedIsClosed
<1>1. Inv => MergedIsClosed
  BY DEF Inv, Proper, AppliedIsMerged, MergedIsClosed, Registered
<1> QED  BY <1>1, InvAlways, PTL

\* An attached handle never comes to mean another scenario, although nothing
\* keeps its scenario from being dropped and its name from being used again.
THEOREM HandleAlwaysMeansItsScenario == Spec => []HandleMeansItsScenario
<1>1. Inv => HandleMeansItsScenario
  BY DEF Inv, Means, HandleMeansItsScenario, Registered
<1> QED  BY <1>1, InvAlways, PTL

-----------------------------------------------------------------------------
(* Transactions that do not overlap.                                       *)

\* A merged scenario is empty, a delta has its scenario if that is one of k, the
\* scenarios ever registered, and a branch has its parent.
Sound(d, k, n) ==
    /\ \A i \in Id : d.reg[i] # None /\ d.reg[i].merged => Rows(d, i) = {}
    /\ \A i \in k : d.delta[i] # None => d.reg[i] # None
    /\ \A i \in Id : d.delta[i] # None => i < n
    /\ \A i \in Id : d.reg[i] # None /\ d.reg[i].parent # None => d.reg[d.reg[i].parent] # None

\* The handles of those scenarios have them, ...
Attached(hs, d, k) == \A h \in hs : h.id \in k => d.reg[h.id] # None

\* ... and a transaction brings none of them back.
Revives(d, e, k) == \E i \in k : d.reg[i] = None /\ e.reg[i] # None

\* e differs from d only in what is written.
Traces(d, e, writes) ==
    \A i \in Id :
        /\ Registry(i) \notin writes => e.reg[i] = d.reg[i]
        /\ Table(i) \notin writes =>
               /\ e.delta[i] = None <=> d.delta[i] = None
               /\ \A r \in Row : Line(i, r) \notin writes => (r \in Rows(e, i) <=> r \in Rows(d, i))

Serial ==
    ~overlapped =>
        /\ \A i \in known : i \in Id /\ i < nextId
        /\ Registered(host) \subseteq known
        /\ Sound(host, known, nextId)
        /\ Attached(handles, host, known)
        /\ \A s, o \in Session : tx[s].open /\ tx[o].open => s = o
        /\ \A s \in Session : tx[s].open => /\ Sound(tx[s].view, known, nextId)
                                            /\ Traces(host, tx[s].view, tx[s].writes)
                                            /\ Attached(handles, tx[s].view, known)
                                            /\ ~Revives(host, tx[s].view, known)

LEMMA InitSerial == Init => Serial
<1> SUFFICES ASSUME Init
             PROVE  Serial
  OBVIOUS
<1>1. \A i \in Id : host.reg[i] = None /\ host.delta[i] = None
  BY DEF Init, Empty
<1>2. known = {} /\ handles = {}
  BY DEF Init
<1>3. Sound(host, known, nextId) /\ Registered(host) = {}
  BY <1>1, <1>2 DEF Sound, Registered
<1>4. \A s \in Session : ~tx[s].open
  BY ClosedType DEF Init
<1> QED  BY <1>2, <1>3, <1>4 DEF Serial, Attached

\* What a statement finds.
LEMMA SerialView ==
    ASSUME Inv, Serial, NEW s \in Session, ~overlapped, ~Overlaps(s)
    PROVE  /\ Sound(View(s), known, nextId)
           /\ Traces(host, View(s), Begun(s).writes)
           /\ Attached(handles, View(s), known)
           /\ ~Revives(host, View(s), known)
           /\ \A h \in handles : h.id \in Id /\ Means(h, View(s))
           /\ \A o \in Session \ {s} : ~tx[o].open
           /\ \A i \in known : i \in Id /\ i < nextId
<1>1. Typed
  BY DEF Inv
<1>2. \A h \in handles : h.id \in Id /\ Means(h, View(s))
  BY <1>1, BegunGood DEF Typed, Handle
<1>3. CASE tx[s].open
  <2>1. Begun(s) = tx[s]
    BY <1>1, <1>3, BegunType
  <2> QED  BY <1>2, <1>3, <2>1 DEF Serial, View
<1>4. CASE ~tx[s].open
  <2>1. Begun(s).view = host
    BY <1>1, <1>4, BegunType
  <2>2. \A o \in Session : ~tx[o].open
    BY <1>4 DEF Overlaps
  <2>3. Traces(host, host, Begun(s).writes) /\ ~Revives(host, host, known)
    BY DEF Traces, Revives
  <2> QED  BY <1>2, <2>1, <2>2, <2>3 DEF Serial, View
<1> QED  BY <1>3, <1>4

\* What is left to show of a statement.
LEMMA StatementSerial ==
    ASSUME Inv, Serial, ~overlapped', NEW s \in Session, NEW db \in Database, NEW w, NEW m,
           DoMerging(s, db, w, m), handles' = handles, nextId' \in Nat, nextId' >= nextId,
           ~Overlaps(s) /\ ~overlapped => /\ Sound(db, known, nextId')
                                          /\ Traces(View(s), db, w)
                                          /\ Attached(handles, db, known)
                                          /\ ~Revives(View(s), db, known)
    PROVE  Serial'
<1>1. /\ ~Overlaps(s) /\ ~overlapped
      /\ tx' = [tx EXCEPT ![s] = Done(Begun(s), db, w, m)]
      /\ host' = host /\ known' = known
  BY DEF DoMerging, Done
<1>2. /\ Sound(db, known, nextId') /\ Traces(View(s), db, w)
      /\ Attached(handles, db, known) /\ ~Revives(View(s), db, known)
  BY <1>1
<1>3. /\ Traces(host, View(s), Begun(s).writes) /\ ~Revives(host, View(s), known)
      /\ \A o \in Session \ {s} : ~tx[o].open
  BY <1>1, SerialView
<1>4. Begun(s) \in Transaction
  BY BegunType DEF Inv
<1>5. tx \in [Session -> Transaction]
  BY DEF Inv, Typed
<1>6. /\ tx'[s].view = db /\ tx'[s].writes = Begun(s).writes \cup w
      /\ \A o \in Session \ {s} : tx'[o] = tx[o]
  <2>1. /\ Done(Begun(s), db, w, m).view = db
        /\ Done(Begun(s), db, w, m).writes = Begun(s).writes \cup w
    BY <1>4 DEF Done, Transaction
  <2> QED  BY <1>1, <1>5, <2>1
<1>7. Traces(host, db, Begun(s).writes \cup w) /\ ~Revives(host, db, known)
  <2>1. Traces(host, db, Begun(s).writes \cup w)
    BY <1>2, <1>3 DEF Traces
  <2>2. ~Revives(host, db, known)
    BY <1>2, <1>3 DEF Revives
  <2> QED  BY <2>1, <2>2
<1>8. \A o \in Session : tx'[o].open => o = s
  BY <1>3, <1>6
<1>9. Attached(handles', host', known')
  BY <1>1 DEF Serial
<1>10. /\ \A i \in known : i \in Id /\ i < nextId'
       /\ \A i \in Id : i < nextId => i < nextId'
  BY <1>1, LifecycleAssumption DEF Serial, Inv, Typed, Id
<1>11. Sound(host, known, nextId')
  BY <1>1, <1>10 DEF Serial, Sound
<1>12. Attached(handles', db, known')
  BY <1>1, <1>2
<1>13. ASSUME NEW q \in Session, tx'[q].open
       PROVE  /\ Sound(tx'[q].view, known', nextId')
              /\ Traces(host', tx'[q].view, tx'[q].writes)
              /\ Attached(handles', tx'[q].view, known')
              /\ ~Revives(host', tx'[q].view, known')
  <2>1. q = s
    BY <1>8, <1>13
  <2> QED  BY <1>1, <1>2, <1>6, <1>7, <1>12, <2>1
<1>14. Registered(host') \subseteq known'
  BY <1>1 DEF Serial
<1> QED  BY <1>1, <1>8, <1>9, <1>10, <1>11, <1>13, <1>14 DEF Serial

LEMMA DropSerial ==
    ASSUME Inv, Serial, ~overlapped', NEW s \in Session, NEW i \in Id, Drop(s, i)
    PROVE  Serial'
<1> DEFINE v == View(s)
           db == [v EXCEPT !.reg[i] = None, !.delta[i] = None]
           w == {<<"registry", i>>} \cup (IF v.delta[i] = None THEN {} ELSE {<<"table", i>>})
<1>1. v \in Database /\ handles \subseteq Handle
  BY ViewType DEF Inv, Typed
<1>2. /\ DoMerging(s, db, w, {}) /\ handles' = handles
      /\ nextId' = nextId /\ nextId \in Nat
      /\ i \in Registered(v) /\ ~ThrowIfAttached(v.reg[i].name) /\ ~HasChildren(v, i)
  BY LifecycleAssumption DEF Drop, Do, DropAllowed, Inv, Typed
<1>3. /\ db \in Database /\ db.reg[i] = None /\ db.delta[i] = None
      /\ \A j \in Id \ {i} : db.reg[j] = v.reg[j] /\ db.delta[j] = v.delta[j]
  BY <1>1 DEF Database
<1>4. /\ \A j : Registry(j) \in w <=> j = i
      /\ \A j : Table(j) \in w <=> j = i /\ v.delta[i] # None
  BY DEF Registry, Table
<1>5. ASSUME ~Overlaps(s), ~overlapped
      PROVE  /\ Sound(db, known, nextId)
             /\ Traces(v, db, w)
             /\ Attached(handles, db, known)
             /\ ~Revives(v, db, known)
  <2>1. /\ Sound(v, known, nextId) /\ Attached(handles, v, known)
        /\ \A h \in handles : h.id \in Id /\ Means(h, v)
        /\ \A j \in known : j \in Id
    BY <1>5, SerialView
  <2> HIDE DEF v, db, w
  <2>2. \A j \in Id : v.reg[j] # None => v.reg[j].parent # i /\ v.reg[j].parent \in Id \cup {None}
    BY <1>1, <1>2 DEF HasChildren, Registered, Database, Entry
  <2>3. Sound(db, known, nextId)
    BY <1>3, <2>1, <2>2 DEF Sound, Rows
  <2>4. Traces(v, db, w)
    BY <1>3, <1>4 DEF Traces, Rows
  <2>5. \A h \in handles : h.id # i
    BY <1>2, <2>1 DEF ThrowIfAttached, Means, Registered
  <2>6. Attached(handles, db, known)
    BY <1>3, <2>1, <2>5 DEF Attached
  <2>7. ~Revives(v, db, known)
    BY <1>3, <2>1 DEF Revives
  <2> QED  BY <2>3, <2>4, <2>6, <2>7
<1> HIDE DEF db, w
<1>6. nextId' \in Nat /\ nextId' >= nextId
  BY <1>2
<1> QED  BY <1>2, <1>3, <1>5, <1>6, StatementSerial

LEMMA SetFrozenSerial ==
    ASSUME Inv, Serial, ~overlapped', NEW s \in Session, NEW i \in Registered(View(s)),
           NEW frozen \in BOOLEAN, SetFrozen(s, i, frozen)
    PROVE  Serial'
<1> DEFINE v == View(s)
           db == [v EXCEPT !.reg[i].frozen = frozen]
           w == {<<"registry", i>>}
<1>1. v \in Database /\ i \in Id /\ v.reg[i] \in Entry /\ handles \subseteq Handle
  BY ViewType DEF Inv, Typed, Registered
<1>2. /\ DoMerging(s, db, w, {}) /\ handles' = handles
      /\ nextId' \in Nat /\ nextId' >= nextId /\ nextId' = nextId
  BY LifecycleAssumption DEF SetFrozen, Do, Inv, Typed
<1>3. /\ db.reg[i] \in Entry /\ db.reg[i].merged = v.reg[i].merged /\ db.reg[i].parent = v.reg[i].parent
  BY <1>1 DEF Database, Entry
<1>4. db \in Database /\ db.delta = v.delta /\ \A j \in Id \ {i} : db.reg[j] = v.reg[j]
  BY <1>1, <1>3 DEF Database
<1>5. Registry(i) \in w
  BY DEF Registry
<1> HIDE DEF db, w
<1>6. v.reg[i] # None /\ db.reg[i] # None
  BY <1>1, <1>3, NoneAssumption
<1>7. \A j \in Id : v.reg[j] # None => v.reg[j].parent \in Id \cup {None}
  BY <1>1 DEF Database, Entry
<1>8. ASSUME ~Overlaps(s), ~overlapped
      PROVE  /\ Sound(db, known, nextId)
             /\ Traces(v, db, w)
             /\ Attached(handles, db, known)
             /\ ~Revives(v, db, known)
  <2>1. Sound(v, known, nextId) /\ Attached(handles, v, known) /\ \A j \in known : j \in Id
    BY <1>8, SerialView
  <2> HIDE DEF v
  <2>2. Sound(db, known, nextId)
    BY <1>3, <1>4, <1>6, <1>7, <2>1 DEF Sound, Rows
  <2>3. Traces(v, db, w)
    BY <1>4, <1>5 DEF Traces, Rows
  <2>4. Attached(handles, db, known) /\ ~Revives(v, db, known)
    BY <1>4, <1>6, <2>1 DEF Attached, Revives
  <2> QED  BY <2>2, <2>3, <2>4
<1> QED  BY <1>2, <1>4, <1>8, StatementSerial

LEMMA MergeSerial ==
    ASSUME Inv, Serial, ~overlapped', NEW s \in Session, NEW i \in Id, Merge(s, i)
    PROVE  Serial'
<1> DEFINE v == View(s)
           w == MergeWrites(v, i)
           db == [v EXCEPT !.reg[i].merged = TRUE, !.reg[i].frozen = TRUE,
                           !.delta[i] = IF @ = None THEN None ELSE {}]
<1>1. /\ i \in Registered(v)
      /\ DoMerging(s, db, w, {i}) /\ handles' = handles
      /\ nextId' \in Nat /\ nextId' >= nextId /\ nextId' = nextId
  BY LifecycleAssumption DEF Merge, Inv, Typed
<1>2. v \in Database /\ v.reg[i] \in Entry /\ Rows(v, i) \in SUBSET Row /\ handles \subseteq Handle
  BY <1>1, ViewType DEF Inv, Typed, Registered
<1>3. db.reg[i] \in Entry /\ db.reg[i].parent = v.reg[i].parent
  BY <1>2 DEF Database, Entry
<1>4. /\ db \in Database
      /\ \A j \in Id \ {i} : db.reg[j] = v.reg[j] /\ db.delta[j] = v.delta[j]
      /\ v.delta[i] = None => db.delta[i] = None
      /\ v.delta[i] # None => db.delta[i] = {}
  BY <1>2, <1>3 DEF Database
<1>5. /\ Registry(i) \in w
      /\ \A r \in Rows(v, i) : Line(i, r) \in w
  BY RowsOnly DEF MergeWrites, Registry
<1> HIDE DEF db, w
<1>6. v.reg[i] # None /\ db.reg[i] # None /\ {} # None
  BY <1>2, <1>3, NoneAssumption
<1>7. \A j \in Id : v.reg[j] # None => v.reg[j].parent \in Id \cup {None}
  BY <1>2 DEF Database, Entry
<1>8. Rows(db, i) = {} /\ \A j \in Id \ {i} : Rows(db, j) = Rows(v, j)
  BY <1>4 DEF Rows
<1>9. ASSUME ~Overlaps(s), ~overlapped
      PROVE  /\ Sound(db, known, nextId)
             /\ Traces(v, db, w)
             /\ Attached(handles, db, known)
             /\ ~Revives(v, db, known)
  <2>1. Sound(v, known, nextId) /\ Attached(handles, v, known) /\ \A j \in known : j \in Id
    BY <1>9, SerialView
  <2> HIDE DEF v
  <2>2. Sound(db, known, nextId)
    BY <1>3, <1>4, <1>6, <1>7, <1>8, <2>1 DEF Sound
  <2>3. Traces(v, db, w)
    BY <1>4, <1>5, <1>6, <1>8 DEF Traces
  <2>4. Attached(handles, db, known) /\ ~Revives(v, db, known)
    BY <1>4, <1>6, <2>1 DEF Attached, Revives
  <2> QED  BY <2>2, <2>3, <2>4
<1> QED  BY <1>1, <1>4, <1>9, StatementSerial

LEMMA WriteRowSerial ==
    ASSUME Inv, Serial, ~overlapped', NEW s \in Session, NEW h \in handles, NEW r \in Row, WriteRow(s, h, r)
    PROVE  Serial'
<1> DEFINE v == View(s)
           i == h.id
           w == FirstWrite(v, i) \cup RowsOf(i, {r})
           db == [v EXCEPT !.delta[i] = IF r \in Rows(v, i) THEN @ \ {r} ELSE Rows(v, i) \cup {r}]
<1>1. /\ DoMerging(s, db, w, {}) /\ handles' = handles /\ Writable(v, i)
      /\ nextId' \in Nat /\ nextId' >= nextId /\ nextId' = nextId
  BY LifecycleAssumption DEF WriteRow, Do, Inv, Typed
<1>2. i \in Id /\ i < nextId
  BY DEF Inv, Typed, Handle
<1>3. v \in Database /\ Rows(v, i) \in SUBSET Row
  BY <1>2, ViewType DEF Inv
<1> HIDE DEF v, i
<1>4. /\ db.delta[i] \in SUBSET Row
      /\ \A q \in Row \ {r} : q \in db.delta[i] <=> q \in Rows(v, i)
  <2>1. CASE r \in Rows(v, i)
    BY <1>2, <1>3, <2>1 DEF Database, Rows
  <2>2. CASE r \notin Rows(v, i)
    BY <1>2, <1>3, <2>2 DEF Database
  <2> QED  BY <2>1, <2>2
<1>5. db \in Database /\ db.reg = v.reg /\ \A j \in Id \ {i} : db.delta[j] = v.delta[j]
  BY <1>2, <1>3, <1>4 DEF Database
<1>6. /\ Line(i, r) \in w
      /\ v.delta[i] = None => Table(i) \in w
  BY RowsOnly DEF FirstWrite, Table
<1>7. \A j \in Id : v.reg[j] # None /\ v.reg[j].merged => v.reg[j].frozen
  BY BegunGood DEF View, Good, Proper, v
<1> HIDE DEF db, w
<1>8. db.delta[i] # None /\ Rows(db, i) = db.delta[i] /\ \A j \in Id \ {i} : Rows(db, j) = Rows(v, j)
  BY <1>4, <1>5, NoneAssumption DEF Rows
<1>9. ASSUME ~Overlaps(s), ~overlapped
      PROVE  /\ Sound(db, known, nextId)
             /\ Traces(v, db, w)
             /\ Attached(handles, db, known)
             /\ ~Revives(v, db, known)
  <2>1. Sound(v, known, nextId) /\ Attached(handles, v, known) /\ \A j \in known : j \in Id
    BY <1>9, SerialView DEF v
  <2>2. /\ i \in known => v.reg[i] # None
        /\ v.reg[i] # None => ~v.reg[i].merged
    BY <1>1, <1>2, <1>7, <2>1 DEF Writable, Registered, Attached, i
  <2>3. Sound(db, known, nextId)
    BY <1>1, <1>2, <1>5, <1>8, <2>1, <2>2 DEF Sound
  <2>4. Traces(v, db, w)
    BY <1>4, <1>5, <1>6, <1>8 DEF Traces
  <2>5. Attached(handles, db, known) /\ ~Revives(v, db, known)
    BY <1>5, <2>1 DEF Attached, Revives
  <2> QED  BY <2>3, <2>4, <2>5
<1> QED  BY <1>1, <1>5, <1>9, StatementSerial DEF v

LEMMA CreateSerial ==
    ASSUME Inv, Serial, ~overlapped', NEW s \in Session, NEW x \in Name, NEW p \in Id \cup {None},
           Create(s, x, p)
    PROVE  Serial'
<1> DEFINE v == View(s)
           n == nextId
           inherited == IF p = None THEN None ELSE v.delta[p]
           e == [name |-> x, frozen |-> FALSE, merged |-> FALSE, parent |-> p]
           db == [v EXCEPT !.reg[n] = e, !.delta[n] = inherited]
           w == CreateWrites(n, x, inherited)
<1>1. /\ n \in Id /\ handles' = handles
      /\ DoMerging(s, db, w, {})
      /\ nextId' = n + 1
  BY DEF Create, Do, NextId
<1>2. v \in Database /\ inherited \in (SUBSET Row) \cup {None} /\ handles \subseteq Handle
  BY ViewType DEF Inv, Typed
<1>3. e \in Entry /\ e.parent = p /\ ~e.merged
  BY DEF Entry
<1>4. /\ \A j : Registry(j) \in w <=> j = n
      /\ \A j : Table(j) \in w <=> j = n /\ inherited # None
  BY CreateWritesWhat
<1>5. n \in Id /\ n \in Nat /\ v.reg[n] = None
  BY <1>1, BegunGood, LifecycleAssumption DEF Create, NextId, View, Good, Proper, Id
<1> HIDE DEF v, n, inherited, e
<1>6. /\ db \in Database /\ db.reg[n] = e /\ db.delta[n] = inherited
      /\ \A j \in Id \ {n} : db.reg[j] = v.reg[j] /\ db.delta[j] = v.delta[j]
  BY <1>2, <1>3, <1>5 DEF Database
<1> HIDE DEF db, w
<1>7. e # None
  BY <1>3, NoneAssumption
<1>8. \A j \in Id : v.reg[j] # None => v.reg[j].parent \in Id \cup {None}
  BY <1>2 DEF Database, Entry
<1>9. p # None => p \in Id \ {n} /\ v.reg[p] # None
  BY <1>5 DEF Create, Registered, v
<1>10. ASSUME ~Overlaps(s), ~overlapped
       PROVE  /\ Sound(db, known, nextId')
              /\ Traces(v, db, w)
              /\ Attached(handles, db, known)
              /\ ~Revives(v, db, known)
  <2>1. /\ Sound(v, known, n) /\ Attached(handles, v, known)
        /\ \A j \in known : j \in Id /\ j < n
    BY <1>10, SerialView DEF v, n
  <2>2. v.delta[n] = None
    BY <1>5, <2>1 DEF Sound
  <2>3. Sound(db, known, n + 1)
    <3>1. \A j \in Id : db.reg[j] # None /\ db.reg[j].merged => Rows(db, j) = {}
      BY <1>3, <1>5, <1>6, <2>1 DEF Sound, Rows
    <3>2. \A j \in known : db.delta[j] # None => db.reg[j] # None
      BY <1>6, <1>7, <2>1 DEF Sound
    <3>3. \A j \in Id : db.delta[j] # None => j < n + 1
      BY <1>5, <1>6, <2>1, LifecycleAssumption DEF Sound, Id
    <3>4. \A j \in Id : db.reg[j] # None /\ db.reg[j].parent # None => db.reg[db.reg[j].parent] # None
      <4> SUFFICES ASSUME NEW j \in Id, db.reg[j] # None, db.reg[j].parent # None
                   PROVE  db.reg[db.reg[j].parent] # None
        OBVIOUS
      <4>1. CASE j = n
        <5>1. db.reg[j].parent = p /\ p # None
          BY <1>3, <1>6, <4>1
        <5> QED  BY <1>6, <1>9, <5>1
      <4>2. CASE j # n
        <5>1. v.reg[j] # None /\ v.reg[j].parent # None /\ db.reg[j].parent = v.reg[j].parent
          BY <1>6, <4>2
        <5>2. v.reg[j].parent \in Id /\ v.reg[v.reg[j].parent] # None
          BY <1>8, <2>1, <5>1 DEF Sound
        <5> QED  BY <1>6, <1>7, <5>1, <5>2
      <4> QED  BY <4>1, <4>2
    <3> QED  BY <3>1, <3>2, <3>3, <3>4 DEF Sound
  <2>4. Traces(v, db, w)
    BY <1>4, <1>6, <2>2 DEF Traces, Rows
  <2>5. \A j \in known : j \in Id \ {n}
    BY <1>5, <2>1
  <2>6. Attached(handles, db, known) /\ ~Revives(v, db, known)
    BY <1>6, <2>1, <2>5 DEF Attached, Revives
  <2> QED  BY <1>1, <2>3, <2>4, <2>6
<1>11. nextId' \in Nat /\ nextId' >= nextId
  BY <1>1, <1>5 DEF n
<1> QED  BY <1>1, <1>6, <1>10, <1>11, StatementSerial DEF v

\* A transaction that met no other leaves its view behind.
LEMMA CommittedView ==
    ASSUME NEW t \in Transaction, host \in Database, Traces(host, t.view, t.writes)
    PROVE  Committed(t) = t.view
<1>1. t.view \in Database
  BY DEF Transaction
<1>2. \A i \in Id : /\ t.view.delta[i] \in (SUBSET Row) \cup {None}
                    /\ host.delta[i] \in (SUBSET Row) \cup {None}
  BY <1>1 DEF Database
<1>3. Committed(t).reg = t.view.reg
  BY <1>1 DEF Committed, Traces, Registry, Database
<1>4. ASSUME NEW i \in Id
      PROVE  Committed(t).delta[i] = t.view.delta[i]
  <2>1. CASE Table(i) \in t.writes
    BY <2>1 DEF Committed, Table
  <2>2. CASE Table(i) \notin t.writes /\ host.delta[i] = None
    BY <2>2 DEF Committed, Table, Traces
  <2>3. CASE Table(i) \notin t.writes /\ host.delta[i] # None
    <3> DEFINE written == {r \in Row : <<"row", i, r>> \in t.writes}
    <3>1. Committed(t).delta[i] = (host.delta[i] \ written) \cup (Rows(t.view, i) \cap written)
      BY <2>3 DEF Committed, Table
    <3>2. /\ t.view.delta[i] # None
          /\ \A r \in Row : Line(i, r) \notin t.writes => (r \in Rows(t.view, i) <=> r \in Rows(host, i))
      BY <2>3 DEF Traces
    <3>3. /\ Rows(host, i) = host.delta[i] /\ Rows(t.view, i) = t.view.delta[i]
          /\ host.delta[i] \in SUBSET Row /\ t.view.delta[i] \in SUBSET Row
      BY <1>2, <2>3, <3>2 DEF Rows
    <3>4. \A r \in Row : r \in written <=> Line(i, r) \in t.writes
      BY DEF Line
    <3> HIDE DEF written
    <3> QED  BY <3>1, <3>2, <3>3, <3>4
  <2> QED  BY <2>1, <2>2, <2>3
<1>5. Committed(t).delta = t.view.delta
  BY <1>1, <1>4 DEF Committed, Database
<1> QED  BY <1>1, <1>3, <1>5 DEF Committed, Database

LEMMA CommitSerial ==
    ASSUME Inv, Serial, ~overlapped', NEW s \in Session, Commit(s)
    PROVE  Serial'
<1>1. /\ tx[s].open /\ host' = Committed(tx[s]) /\ ~overlapped /\ handles' = handles
      /\ nextId' = nextId /\ known' = known \cup Registered(host')
      /\ tx' = [o \in Session |-> IF o = s THEN Closed ELSE AfterCommitOf(tx[s].writes, tx[o])]
  BY DEF Commit
<1>2. tx[s] \in Transaction /\ host \in Database
  BY DEF Inv, Typed
<1>3. host' = tx[s].view
  BY <1>1, <1>2, CommittedView DEF Serial
<1>4. /\ Sound(tx[s].view, known, nextId) /\ Attached(handles, tx[s].view, known)
      /\ \A i \in known : i \in Id /\ i < nextId
  BY <1>1 DEF Serial
<1>5. \A o \in Session : ~tx'[o].open
  <2>1. \A o \in Session \ {s} : ~tx[o].open
    BY <1>1 DEF Serial
  <2> QED  BY <1>1, <2>1, ClosedType DEF AfterCommitOf
<1>6. \A i \in known' : i \in known \/ (i \in Id /\ host'.reg[i] # None)
  BY <1>1 DEF Registered
<1>7. Sound(host', known', nextId')
  BY <1>1, <1>3, <1>4, <1>6 DEF Sound
<1>8. Attached(handles', host', known')
  BY <1>1, <1>3, <1>4, <1>6 DEF Attached
<1>9. \A i \in known' : i \in Id /\ i < nextId'
  BY <1>1, <1>3, <1>4, <1>6 DEF Inv, Good, Proper
<1> QED  BY <1>1, <1>5, <1>7, <1>8, <1>9 DEF Serial

LEMMA RollbackSerial ==
    ASSUME Inv, Serial, ~overlapped', NEW s \in Session, Rollback(s)
    PROVE  Serial'
<1>1. /\ tx' = [tx EXCEPT ![s] = Closed] /\ ~overlapped
      /\ host' = host /\ handles' = handles /\ known' = known /\ nextId' = nextId
  BY DEF Rollback
<1>2. \A o \in Session : tx'[o].open => tx'[o] = tx[o]
  BY <1>1, ClosedType DEF Inv, Typed
<1> QED  BY <1>1, <1>2 DEF Serial

LEMMA AttachSerial ==
    ASSUME Inv, Serial, ~overlapped', NEW s \in Session, NEW i \in Id, Attach(s, i)
    PROVE  Serial'
<1> DEFINE g == [id |-> i, name |-> View(s).reg[i].name]
           t == Looked(Begun(s))
<1>1. /\ View(s).reg[i] # None /\ handles' = handles \cup {g}
      /\ ~Overlaps(s) /\ ~overlapped
      /\ tx' = [tx EXCEPT ![s] = t]
      /\ UNCHANGED <<host, known, nextId>>
  BY DEF Attach, Looked, Registered
<1>2. Begun(s) \in Transaction /\ tx \in [Session -> Transaction]
  BY BegunType DEF Inv, Typed
<1>3. t.view = View(s) /\ t.writes = Begun(s).writes
  BY <1>2, BegunGood, LookedGood DEF View
<1>4. /\ Sound(View(s), known, nextId) /\ Traces(host, View(s), Begun(s).writes)
      /\ Attached(handles, View(s), known) /\ ~Revives(host, View(s), known)
      /\ \A o \in Session \ {s} : ~tx[o].open
  BY <1>1, SerialView
<1>5. Attached(handles, host, known)
  BY <1>1 DEF Serial
<1> HIDE DEF t
<1>6. Attached(handles', View(s), known) /\ Attached(handles', host, known)
  BY <1>1, <1>4, <1>5 DEF Attached, Revives
<1>7. tx'[s] = t /\ \A o \in Session \ {s} : tx'[o] = tx[o]
  BY <1>1, <1>2
<1>8. \A o \in Session : tx'[o].open => o = s
  BY <1>4, <1>7
<1>9. /\ \A j \in known' : j \in Id /\ j < nextId'
      /\ Registered(host') \subseteq known'
      /\ Sound(host', known', nextId')
  BY <1>1 DEF Serial
<1>10. ASSUME NEW q \in Session, tx'[q].open
       PROVE  /\ Sound(tx'[q].view, known', nextId')
              /\ Traces(host', tx'[q].view, tx'[q].writes)
              /\ Attached(handles', tx'[q].view, known')
              /\ ~Revives(host', tx'[q].view, known')
  <2>1. q = s
    BY <1>8, <1>10
  <2> QED  BY <1>1, <1>3, <1>4, <1>6, <1>7, <2>1
<1>11. Attached(handles', host', known')
  BY <1>1, <1>6
<1> QED  BY <1>8, <1>9, <1>10, <1>11 DEF Serial

LEMMA DetachSerial ==
    ASSUME Inv, Serial, ~overlapped', NEW h, Detach(h)
    PROVE  Serial'
<1>1. /\ handles' \subseteq handles /\ ~overlapped
      /\ UNCHANGED <<host, tx, known, nextId>>
  BY DEF Detach
<1>2. \A d : Attached(handles, d, known) => Attached(handles', d, known)
  BY <1>1 DEF Attached
<1> QED  BY <1>1, <1>2 DEF Serial

LEMMA NextSerial == Inv /\ Serial /\ [Next]_vars => Serial'
<1> SUFFICES ASSUME Inv, Serial, [Next]_vars, ~overlapped'
             PROVE  Serial'
  BY DEF Serial
<1>1. CASE \E s \in Session : Commit(s) \/ Rollback(s)
  BY <1>1, CommitSerial, RollbackSerial
<1>2. CASE \E s \in Session, n \in Name, p \in Id \cup {None} : Create(s, n, p)
  BY <1>2, CreateSerial
<1>3. CASE \E s \in Session, i \in Id : Drop(s, i) \/ Freeze(s, i) \/ Unfreeze(s, i) \/ Merge(s, i)
  BY <1>3, DropSerial, SetFrozenSerial, MergeSerial DEF Freeze, Unfreeze
<1>4. CASE \E s \in Session, i \in Id : Attach(s, i)
  BY <1>4, AttachSerial
<1>5. CASE \E h \in handles : Detach(h)
  BY <1>5, DetachSerial
<1>6. CASE \E s \in Session, h \in handles, r \in Row : WriteRow(s, h, r)
  BY <1>6, WriteRowSerial
<1>7. CASE UNCHANGED vars
  BY <1>7 DEF vars, Serial
<1> QED  BY <1>1, <1>2, <1>3, <1>4, <1>5, <1>6, <1>7 DEF Next

\* As long as transactions do not overlap, a merged scenario stays empty, a
\* dropped one takes its delta along and no branch outlives its parent: the
\* guards of the verbs and the handles' names suffice, although an ATTACH in a
\* transaction that is rolled back leaves a handle nothing stands behind.
THEOREM SerialAlwaysSound == Spec => []SerialRegistryIsSound
<1>1. Init => Inv /\ Serial
  BY InitInv, InitSerial
<1>2. (Inv /\ Serial) /\ [Next]_vars => (Inv /\ Serial)'
  BY NextInv, NextSerial
<1>3. Inv /\ Serial => SerialRegistryIsSound
  <2> SUFFICES ASSUME Inv, Serial, ~overlapped
               PROVE  MergedIsEmpty /\ NoOrphanDelta /\ NoDanglingParent
    BY DEF SerialRegistryIsSound
  <2>1. Sound(host, known, nextId) /\ \A i \in known : i \in Id
    BY DEF Serial
  <2>2. \A i \in Id : host.reg[i] # None => host.reg[i].parent \in Id \cup {None}
    BY DEF Inv, Typed, Database, Entry
  <2> QED  BY <2>1, <2>2 DEF Sound, MergedIsEmpty, NoOrphanDelta, NoDanglingParent, Registered
<1> QED  BY <1>1, <1>2, <1>3, PTL DEF Spec

=============================================================================
