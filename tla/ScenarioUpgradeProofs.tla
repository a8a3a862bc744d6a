------------------------- MODULE ScenarioUpgradeProofs -------------------------
(***************************************************************************)
(* Proofs about ScenarioUpgrade, for any number of sessions, rows and      *)
(* copies.                                                                 *)
(***************************************************************************)
EXTENDS ScenarioUpgrade, TLAPS

-----------------------------------------------------------------------------
(* Deltas as values.                                                       *)

\* A delta that only gained changes, in the layout it had.
Grows(from, to) ==
    /\ to.layout = from.layout
    /\ IF IsLegacyKeylessDelta(from) THEN \A r \in Row : from.rows[r] <= to.rows[r]
       ELSE \A r \in Row : from.inserted[r] <= to.inserted[r] /\ from.deleted[r] <= to.deleted[r]

LEMMA DeltaShape ==
    ASSUME NEW d \in Delta
    PROVE  \/ /\ IsLegacyKeylessDelta(d)
              /\ d = Legacy(d.rows)
              /\ d.rows \in Copies
           \/ /\ ~IsLegacyKeylessDelta(d)
              /\ d.layout = "bag"
              /\ d = Bag(d.inserted, d.deleted)
              /\ d.inserted \in Copies
              /\ d.deleted \in Copies
BY DEF Delta, Legacy, Bag, IsLegacyKeylessDelta

LEMMA NetType ==
    ASSUME NEW d \in Delta PROVE Net(d) \in [Row -> Int]
BY DeltaShape DEF Net, Minus, Copies

LEMMA GrowsOn ==
    ASSUME NEW a \in Delta, NEW b \in Delta, NEW c \in Delta, Grows(a, b), Grows(b, c)
    PROVE  Grows(a, c)
<1>1. CASE IsLegacyKeylessDelta(a)
  BY <1>1, DeltaShape DEF Grows, IsLegacyKeylessDelta, Copies
<1>2. CASE ~IsLegacyKeylessDelta(a)
  BY <1>2, DeltaShape DEF Grows, IsLegacyKeylessDelta, Copies
<1> QED
  BY <1>1, <1>2

LEMMA InsertedDelta ==
    ASSUME NEW d \in Delta, NEW r \in Row
    PROVE  /\ Inserted(d, r) \in Delta
           /\ Grows(d, Inserted(d, r))
           /\ \A q \in Row : Net(Inserted(d, r))[q] = Net(d)[q] + (IF q = r THEN 1 ELSE 0)
<1>1. CASE IsLegacyKeylessDelta(d)
  <2> DEFINE rows == [d.rows EXCEPT ![r] = @ + 1]
  <2>1. d = Legacy(d.rows) /\ d.rows \in Copies
    BY <1>1, DeltaShape
  <2>2. Inserted(d, r) = Legacy(rows)
    BY <1>1, <2>1 DEF Inserted, Legacy
  <2>3. rows \in Copies
    BY <2>1 DEF Copies
  <2>4. Inserted(d, r) \in Delta
    BY <2>2, <2>3 DEF Delta
  <2>5. Grows(d, Inserted(d, r))
    BY <1>1, <2>1, <2>2 DEF Legacy, Grows, IsLegacyKeylessDelta, Copies
  <2>6. \A q \in Row : Net(Inserted(d, r))[q] = Net(d)[q] + (IF q = r THEN 1 ELSE 0)
    BY <1>1, <2>1, <2>2 DEF Legacy, Net, IsLegacyKeylessDelta, Copies
  <2> QED
    BY <2>4, <2>5, <2>6
<1>2. CASE ~IsLegacyKeylessDelta(d)
  <2> DEFINE inserted == [d.inserted EXCEPT ![r] = @ + 1]
  <2>1. d = Bag(d.inserted, d.deleted) /\ d.inserted \in Copies /\ d.deleted \in Copies
    BY <1>2, DeltaShape
  <2>2. Inserted(d, r) = Bag(inserted, d.deleted)
    BY <1>2, <2>1 DEF Inserted, Bag
  <2>3. inserted \in Copies
    BY <2>1 DEF Copies
  <2>4. Inserted(d, r) \in Delta
    BY <2>1, <2>2, <2>3 DEF Delta
  <2>5. Grows(d, Inserted(d, r))
    BY <1>2, <2>1, <2>2 DEF Bag, Grows, IsLegacyKeylessDelta, Copies
  <2>6. Net(Inserted(d, r)) = Minus(inserted, d.deleted) /\ Net(d) = Minus(d.inserted, d.deleted)
    BY <1>2, <2>2 DEF Net, Bag, IsLegacyKeylessDelta
  <2>7. \A q \in Row : Minus(inserted, d.deleted)[q]
                         = Minus(d.inserted, d.deleted)[q] + (IF q = r THEN 1 ELSE 0)
    BY <2>1 DEF Minus, Copies
  <2> QED
    BY <2>4, <2>5, <2>6, <2>7
<1> QED
  BY <1>1, <1>2

LEMMA DeletedDelta ==
    ASSUME NEW d \in Delta, NEW r \in Row, NEW n \in Nat, ~IsLegacyKeylessDelta(d)
    PROVE  /\ Deleted(d, r, n) \in Delta
           /\ Grows(d, Deleted(d, r, n))
           /\ \A q \in Row : Net(Deleted(d, r, n))[q] = Net(d)[q] - (IF q = r THEN n ELSE 0)
<1> DEFINE deleted == [d.deleted EXCEPT ![r] = @ + n]
<1>1. d = Bag(d.inserted, d.deleted) /\ d.inserted \in Copies /\ d.deleted \in Copies
  BY DeltaShape
<1>2. Deleted(d, r, n) = Bag(d.inserted, deleted)
  BY <1>1 DEF Deleted, Bag
<1>3. deleted \in Copies
  BY <1>1 DEF Copies
<1>4. Deleted(d, r, n) \in Delta
  BY <1>1, <1>2, <1>3 DEF Delta
<1>5. Grows(d, Deleted(d, r, n))
  BY <1>1, <1>2 DEF Bag, Grows, IsLegacyKeylessDelta, Copies
<1>6. Net(Deleted(d, r, n)) = Minus(d.inserted, deleted) /\ Net(d) = Minus(d.inserted, d.deleted)
  BY <1>2 DEF Net, Bag, IsLegacyKeylessDelta
<1>7. \A q \in Row : Minus(d.inserted, deleted)[q]
                       = Minus(d.inserted, d.deleted)[q] - (IF q = r THEN n ELSE 0)
  BY <1>1 DEF Minus, Copies
<1> QED
  BY <1>4, <1>5, <1>6, <1>7

\* The upgrade changes the layout and no count.
LEMMA UpgradedDelta ==
    ASSUME NEW d \in Delta, IsLegacyKeylessDelta(d)
    PROVE  /\ Upgraded(d) \in Delta
           /\ ~IsLegacyKeylessDelta(Upgraded(d))
           /\ Net(Upgraded(d)) = Net(d)
<1>1. d.rows \in Copies /\ Nothing \in Copies
  BY DeltaShape DEF Nothing, Copies
<1>2. Minus(d.rows, Nothing) = d.rows
  BY <1>1 DEF Minus, Nothing, Copies
<1> QED
  BY <1>1, <1>2 DEF Upgraded, Bag, Delta, Net, IsLegacyKeylessDelta

\* Appends of two transactions to one table add up.
LEMMA RebasedDelta ==
    ASSUME NEW from \in Delta, NEW to \in Delta, NEW upon \in Delta,
           Grows(from, to), from.layout = upon.layout
    PROVE  /\ Rebased(from, to, upon) \in Delta
           /\ \A q \in Row : Net(Rebased(from, to, upon))[q] = Net(upon)[q] + (Net(to)[q] - Net(from)[q])
<1>1. CASE IsLegacyKeylessDelta(upon)
  <2>1. from.rows \in Copies /\ to.rows \in Copies /\ upon.rows \in Copies
    BY <1>1, DeltaShape DEF IsLegacyKeylessDelta, Grows
  <2>2. Plus(upon.rows, Minus(to.rows, from.rows)) \in Copies
    BY <1>1, <2>1 DEF Plus, Minus, Copies, Grows, IsLegacyKeylessDelta
  <2>3. /\ Net(upon) = upon.rows /\ Net(to) = to.rows /\ Net(from) = from.rows
        /\ Net(Rebased(from, to, upon)) = Plus(upon.rows, Minus(to.rows, from.rows))
    BY <1>1 DEF Rebased, Legacy, Net, IsLegacyKeylessDelta, Grows
  <2>4. \A q \in Row : Plus(upon.rows, Minus(to.rows, from.rows))[q]
                         = upon.rows[q] + (to.rows[q] - from.rows[q])
    BY DEF Plus, Minus
  <2> QED
    BY <1>1, <2>2, <2>3, <2>4 DEF Rebased, Delta
<1>2. CASE ~IsLegacyKeylessDelta(upon)
  <2> DEFINE inserted == Plus(upon.inserted, Minus(to.inserted, from.inserted))
             deleted == Plus(upon.deleted, Minus(to.deleted, from.deleted))
  <2>1. /\ from.inserted \in Copies /\ to.inserted \in Copies /\ upon.inserted \in Copies
        /\ from.deleted \in Copies /\ to.deleted \in Copies /\ upon.deleted \in Copies
    BY <1>2, DeltaShape DEF IsLegacyKeylessDelta, Grows
  <2>2. inserted \in Copies
    BY <1>2, <2>1 DEF Plus, Minus, Copies, Grows, IsLegacyKeylessDelta
  <2>3. deleted \in Copies
    BY <1>2, <2>1 DEF Plus, Minus, Copies, Grows, IsLegacyKeylessDelta
  <2>4. Rebased(from, to, upon) = Bag(inserted, deleted)
    BY <1>2 DEF Rebased
  <2>5. Net(Rebased(from, to, upon)) = Minus(inserted, deleted)
    BY <2>4 DEF Net, Bag, IsLegacyKeylessDelta
  <2>6. /\ Net(upon) = Minus(upon.inserted, upon.deleted)
        /\ Net(to) = Minus(to.inserted, to.deleted)
        /\ Net(from) = Minus(from.inserted, from.deleted)
    BY <1>2 DEF Net, IsLegacyKeylessDelta, Grows
  <2>7. \A q \in Row : Minus(inserted, deleted)[q]
          = Minus(upon.inserted, upon.deleted)[q]
              + (Minus(to.inserted, to.deleted)[q] - Minus(from.inserted, from.deleted)[q])
    BY <2>1 DEF Plus, Minus, Copies
  <2> QED
    BY <2>2, <2>3, <2>4, <2>5, <2>6, <2>7 DEF Delta
<1> QED
  BY <1>1, <1>2

-----------------------------------------------------------------------------
(* Transactions.                                                           *)

\* What a transaction sees is its snapshot with what its user's statements did.
Does(t) ==
    /\ IF t.swapped THEN IsLegacyKeylessDelta(t.began) /\ ~IsLegacyKeylessDelta(t.seen)
       ELSE Grows(t.began, t.seen)
    /\ \A q \in Row : Net(t.seen)[q] = Net(t.began)[q] + t.did[q]

WriterIsTheUsersIn(t) == t.writer = "host" /\ ~t.auto => "host" \in t.wrote

\* A transaction as it should be: it swaps the delta only while no older
\* transaction is open.
TxOK(t) ==
    /\ t \in OpenTx
    /\ Does(t)
    /\ WriterIsTheUsersIn(t)
    /\ t.swapped => t.older = {}

\* What a statement leaves alone.
Keeps(t, u) == /\ t.older = u.older /\ t.began = u.began
               /\ t.missed = u.missed /\ t.behind = u.behind

Statement(s) ==
    \/ WriteHost(s)
    \/ WriteOther(s)
    \/ \E r \in Row : Insert(s, r)
    \/ \E r \in Row, n \in 1..MaxCopies : Delete(s, r, n)
    \/ \E readonly \in BOOLEAN : Attach(s, readonly)

\* Changes to a delta on top of those a transaction has made.
LEMMA DoesMore ==
    ASSUME NEW t0 \in OpenTx, NEW t \in OpenTx, Does(t0),
           t.began = t0.began, t.swapped = t0.swapped, Grows(t0.seen, t.seen),
           \A q \in Row : Net(t.seen)[q] - Net(t0.seen)[q] = t.did[q] - t0.did[q]
    PROVE  Does(t)
<1>1. /\ t0.seen \in Delta /\ t0.began \in Delta /\ t.seen \in Delta
      /\ t0.did \in [Row -> Int] /\ t.did \in [Row -> Int]
  BY DEF OpenTx
<1>2. \A q \in Row : Net(t.seen)[q] = Net(t.began)[q] + t.did[q]
  <2> TAKE q \in Row
  <2>1. Net(t.seen)[q] \in Int /\ Net(t0.seen)[q] \in Int /\ Net(t0.began)[q] \in Int
    BY <1>1, NetType
  <2>2. t.did[q] \in Int /\ t0.did[q] \in Int
    BY <1>1
  <2>3. Net(t0.seen)[q] = Net(t0.began)[q] + t0.did[q]
    BY DEF Does
  <2>4. Net(t.seen)[q] - Net(t0.seen)[q] = t.did[q] - t0.did[q]
    OBVIOUS
  <2> QED
    BY <2>1, <2>2, <2>3, <2>4
<1>3. CASE t0.swapped
  BY <1>2, <1>3 DEF Does, Grows, IsLegacyKeylessDelta
<1>4. CASE ~t0.swapped
  <2>1. Grows(t0.began, t0.seen)
    BY <1>4 DEF Does
  <2>2. Grows(t.began, t.seen)
    BY <1>1, <2>1, GrowsOn
  <2> QED
    BY <1>2, <1>4, <2>2 DEF Does
<1> QED
  BY <1>3, <1>4

\* Every statement leaves its transaction as it should be.
LEMMA StatementKeeps ==
    ASSUME NEW s \in Session, Statement(s), TxOK(tx[s])
    PROVE  \E t : Do(s, t) /\ TxOK(t) /\ Keeps(t, tx[s])
<1> DEFINE t0 == tx[s]
<1>0. t0 \in OpenTx /\ Does(t0) /\ WriterIsTheUsersIn(t0) /\ (t0.swapped => t0.older = {})
  BY DEF TxOK
<1>1. CASE WriteHost(s)
  <2>1. HostWritten(t0) \in OpenTx
    BY <1>0 DEF HostWritten, OpenTx
  <2>2. Does(HostWritten(t0))
    BY <1>0 DEF Does, HostWritten, OpenTx
  <2>3. /\ Keeps(HostWritten(t0), t0) /\ HostWritten(t0).swapped = t0.swapped
        /\ HostWritten(t0).older = t0.older /\ "host" \in HostWritten(t0).wrote
    BY <1>0 DEF HostWritten, OpenTx, Keeps
  <2>4. TxOK(HostWritten(t0))
    BY <1>0, <2>1, <2>2, <2>3 DEF TxOK, WriterIsTheUsersIn
  <2>5. Do(s, HostWritten(t0))
    BY <1>1 DEF WriteHost
  <2> QED
    BY <2>3, <2>4, <2>5
<1>2. CASE WriteOther(s)
  <2> DEFINE t == [t0 EXCEPT !.writer = "other", !.wrote = @ \cup {"other"}]
  <2>1. t \in OpenTx
    BY <1>0 DEF OpenTx
  <2>2. Does(t)
    BY <1>0 DEF Does, OpenTx
  <2>3. Keeps(t, t0) /\ t.older = t0.older /\ t.swapped = t0.swapped /\ t.writer = "other"
    BY <1>0 DEF OpenTx, Keeps
  <2>4. TxOK(t)
    BY <1>0, <2>1, <2>2, <2>3 DEF TxOK, WriterIsTheUsersIn
  <2>5. Do(s, t)
    BY <1>2 DEF WriteOther
  <2> QED
    BY <2>3, <2>4, <2>5
<1>3. ASSUME NEW r \in Row, Insert(s, r)
      PROVE  \E t : Do(s, t) /\ TxOK(t) /\ Keeps(t, t0)
  <2> DEFINE t == [HostWritten(t0) EXCEPT !.seen = Inserted(@, r), !.did[r] = @ + 1]
             seen == Inserted(t0.seen, r)
             did == [t0.did EXCEPT ![r] = @ + 1]
  <2>1. t0.seen \in Delta /\ t0.did \in [Row -> Int]
    BY <1>0 DEF OpenTx
  <2>2. t = [t0 EXCEPT !.writer = "host", !.wrote = @ \cup {"host"},
                       !.seen = seen, !.did = did]
    BY <1>0 DEF HostWritten, OpenTx
  <2>3. seen \in Delta /\ did \in [Row -> Int]
    BY <2>1, InsertedDelta
  <2>4. /\ t \in OpenTx
        /\ t.began = t0.began /\ t.seen = seen /\ t.did = did
        /\ t.swapped = t0.swapped /\ Keeps(t, t0) /\ t.older = t0.older /\ "host" \in t.wrote
    <3>1. t0 \in OpenTx
      BY <1>0
    <3> HIDE DEF t0, t, did, seen
    <3>2. t = [t0 EXCEPT !.writer = "host", !.wrote = t0.wrote \cup {"host"}, !.seen = seen, !.did = did]
      BY <2>2
    <3>3. t \in OpenTx
      BY <2>3, <3>1, <3>2 DEF OpenTx
    <3>4. t.began = t0.began /\ t.seen = seen /\ t.did = did
      BY <3>1, <3>2 DEF OpenTx
    <3>5. t.swapped = t0.swapped /\ Keeps(t, t0) /\ t.older = t0.older /\ "host" \in t.wrote
      BY <3>1, <3>2 DEF OpenTx, Keeps
    <3> QED
      BY <3>3, <3>4, <3>5
  <2>5. \A q \in Row : Net(t.seen)[q] - Net(t0.seen)[q] = t.did[q] - t0.did[q]
    <3>1. \A q \in Row : Net(t0.seen)[q] \in Int /\ t0.did[q] \in Int
      BY <2>1, NetType
    <3>2. \A q \in Row : Net(seen)[q] = Net(t0.seen)[q] + (IF q = r THEN 1 ELSE 0)
      BY <2>1, InsertedDelta
    <3>3. \A q \in Row : did[q] = t0.did[q] + (IF q = r THEN 1 ELSE 0)
      BY <2>1
    <3> HIDE DEF t, did, seen
    <3> QED
      BY <2>4, <3>1, <3>2, <3>3
  <2>6. Grows(t0.seen, t.seen)
    BY <2>1, <2>4, InsertedDelta
  <2>7. Does(t)
    BY <1>0, <2>4, <2>5, <2>6, DoesMore
  <2>8. Do(s, t)
    BY <1>3 DEF Insert
  <2> QED
    BY <1>0, <2>4, <2>7, <2>8 DEF WriterIsTheUsersIn, TxOK
<1>4. ASSUME NEW r \in Row, NEW n \in 1..MaxCopies, Delete(s, r, n)
      PROVE  \E t : Do(s, t) /\ TxOK(t) /\ Keeps(t, t0)
  <2> DEFINE t == [HostWritten(t0) EXCEPT !.seen = Deleted(@, r, n), !.did[r] = @ - n]
             seen == Deleted(t0.seen, r, n)
             did == [t0.did EXCEPT ![r] = @ - n]
  <2>0. n \in Nat
    OBVIOUS
  <2>1. t0.seen \in Delta /\ t0.did \in [Row -> Int] /\ ~IsLegacyKeylessDelta(t0.seen)
    BY <1>0, <1>4 DEF OpenTx, Delete
  <2>2. t = [t0 EXCEPT !.writer = "host", !.wrote = @ \cup {"host"},
                       !.seen = seen, !.did = did]
    BY <1>0 DEF HostWritten, OpenTx
  <2>3. seen \in Delta /\ did \in [Row -> Int]
    BY <2>0, <2>1, DeletedDelta
  <2>4. /\ t \in OpenTx
        /\ t.began = t0.began /\ t.seen = seen /\ t.did = did
        /\ t.swapped = t0.swapped /\ Keeps(t, t0) /\ t.older = t0.older /\ "host" \in t.wrote
    <3>1. t0 \in OpenTx
      BY <1>0
    <3> HIDE DEF t0, t, did, seen
    <3>2. t = [t0 EXCEPT !.writer = "host", !.wrote = t0.wrote \cup {"host"}, !.seen = seen, !.did = did]
      BY <2>2
    <3>3. t \in OpenTx
      BY <2>3, <3>1, <3>2 DEF OpenTx
    <3>4. t.began = t0.began /\ t.seen = seen /\ t.did = did
      BY <3>1, <3>2 DEF OpenTx
    <3>5. t.swapped = t0.swapped /\ Keeps(t, t0) /\ t.older = t0.older /\ "host" \in t.wrote
      BY <3>1, <3>2 DEF OpenTx, Keeps
    <3> QED
      BY <3>3, <3>4, <3>5
  <2>5. \A q \in Row : Net(t.seen)[q] - Net(t0.seen)[q] = t.did[q] - t0.did[q]
    <3>1. \A q \in Row : Net(t0.seen)[q] \in Int /\ t0.did[q] \in Int
      BY <2>1, NetType
    <3>2. \A q \in Row : Net(seen)[q] = Net(t0.seen)[q] - (IF q = r THEN n ELSE 0)
      BY <2>0, <2>1, DeletedDelta
    <3>3. \A q \in Row : did[q] = t0.did[q] - (IF q = r THEN n ELSE 0)
      BY <2>0, <2>1
    <3> HIDE DEF t, did, seen
    <3> QED
      BY <2>0, <2>4, <3>1, <3>2, <3>3
  <2>6. Grows(t0.seen, t.seen)
    BY <2>0, <2>1, <2>4, DeletedDelta
  <2>7. Does(t)
    BY <1>0, <2>4, <2>5, <2>6, DoesMore
  <2>8. Do(s, t)
    BY <1>4 DEF Delete
  <2> QED
    BY <1>0, <2>4, <2>7, <2>8 DEF WriterIsTheUsersIn, TxOK
<1>5. ASSUME NEW readonly \in BOOLEAN, Attach(s, readonly)
      PROVE  \E t : Do(s, t) /\ TxOK(t) /\ Keeps(t, t0)
  <2>1. CASE ~MayUpgrade(t0, readonly)
    <3>1. Do(s, t0)
      BY <1>5, <2>1 DEF Attach
    <3> QED
      BY <3>1 DEF Keeps
  <2>2. CASE MayUpgrade(t0, readonly)
    <3> DEFINE t == [t0 EXCEPT !.writer = "host",
                               !.seen = IF Conflict(t0) THEN @ ELSE Upgraded(@),
                               !.swapped = ~Conflict(t0)]
    <3>1. Do(s, t)
      BY <1>5, <2>2 DEF Attach
    <3>2. /\ t0.seen \in Delta /\ t0.began \in Delta /\ IsLegacyKeylessDelta(t0.seen)
          /\ t0.older = {} /\ HostIsTheWriter(t0)
      BY <1>0, <2>2 DEF OpenTx, MayUpgrade, OlderTransactionActive
    <3>3. ~t0.swapped /\ IsLegacyKeylessDelta(t0.began)
      BY <1>0, <3>2 DEF Does, Grows, IsLegacyKeylessDelta
    <3>4. /\ Keeps(t, t0) /\ t.began = t0.began /\ t.did = t0.did /\ t.older = t0.older
          /\ t.auto = t0.auto /\ t.wrote = t0.wrote
      BY <1>0 DEF OpenTx, Keeps
    <3>5. /\ t.swapped = ~Conflict(t0)
          /\ t.seen = IF Conflict(t0) THEN t0.seen ELSE Upgraded(t0.seen)
      BY <1>0 DEF OpenTx
    <3>6. t \in OpenTx
      BY <1>0, <3>2, UpgradedDelta DEF OpenTx, Conflict
    <3>7. Does(t)
      <4>1. Net(t.seen) = Net(t0.seen)
        BY <3>2, <3>5, UpgradedDelta
      <4>2. CASE Conflict(t0)
        BY <1>0, <3>3, <3>4, <3>5, <4>2 DEF Does
      <4>3. CASE ~Conflict(t0)
        BY <1>0, <3>2, <3>3, <3>4, <3>5, <4>1, <4>3, UpgradedDelta DEF Does
      <4> QED
        BY <4>2, <4>3
    <3>8. WriterIsTheUsersIn(t)
      BY <1>0, <3>2, <3>4 DEF WriterIsTheUsersIn, HostIsTheWriter
    <3> QED
      BY <3>1, <3>2, <3>4, <3>6, <3>7, <3>8 DEF TxOK
  <2> QED
    BY <2>1, <2>2
<1> QED
  BY <1>1, <1>2, <1>3, <1>4, <1>5 DEF Statement

-----------------------------------------------------------------------------
(* The inductive invariant: the transactions, the account of the committed *)
(* delta, what each transaction missed of it, and the order in which the   *)
(* open ones began.                                                        *)

Ordered ==
    \A s \in Active :
        /\ tx[s].older \subseteq Active \ {s}
        /\ \A o \in Active \ {s} : s \in tx[o].older \/ o \in tx[s].older

\* The committed delta is a transaction's snapshot and what it missed, until
\* the layout changes; then it is behind.  The layout never changes back.
Account(t) ==
    /\ t.began.layout = host.layout => \A q \in Row : Net(host)[q] = Net(t.began)[q] + t.missed[q]
    /\ t.began.layout # host.layout => t.behind /\ ~IsLegacyKeylessDelta(host)

IInv ==
    /\ TypeOK
    /\ \A s \in Active : TxOK(tx[s]) /\ Account(tx[s])
    /\ EveryCopyIsAccountedFor
    /\ Ordered

LEMMA Initially == Init => IInv
<1> SUFFICES ASSUME Init PROVE IInv
  OBVIOUS
<1>1. PICK rows \in [Row -> 0..1] : host = Legacy(rows)
  BY DEF Init
<1>2. rows \in Copies
  BY DEF Copies
<1>3. Active = {}
  BY DEF Init, Active, Closed
<1>4. TypeOK
  <2>1. host \in Delta
    BY <1>1, <1>2 DEF Delta
  <2>2. log \in [Row -> Int]
    BY <1>1, <1>2 DEF Init, Legacy, Copies
  <2>3. lost \in [Row -> Int]
    BY DEF Init, Nothing
  <2> QED
    BY <2>1, <2>2, <2>3 DEF Init, TypeOK
<1>5. EveryCopyIsAccountedFor
  <2>1. Minus(rows, Nothing) = rows
    BY DEF Minus, Nothing
  <2> QED
    BY <1>1, <2>1 DEF Init, EveryCopyIsAccountedFor, Net, IsLegacyKeylessDelta, Legacy
<1> QED
  BY <1>3, <1>4, <1>5 DEF IInv, Ordered

LEMMA OpenIsOpen == ASSUME TypeOK PROVE \A s \in Session : tx[s].open => tx[s] \in OpenTx
BY DEF TypeOK, Closed

\* A statement changes one transaction and neither who is open nor the order.
LEMMA StatementStep ==
    ASSUME IInv, NEW s \in Session, Statement(s)
    PROVE  IInv'
<1>1. tx[s].open /\ s \in Active
  BY DEF Statement, WriteHost, WriteOther, Insert, Delete, Attach, Active
<1>2. PICK t0 : Do(s, t0) /\ TxOK(t0) /\ Keeps(t0, tx[s])
  BY <1>1, StatementKeeps DEF IInv
<1> DEFINE t == [t0 EXCEPT !.spent = t0.auto]
<1>3. tx' = [tx EXCEPT ![s] = t] /\ UNCHANGED <<host, log, lost>>
  BY <1>2 DEF Do
<1>4. TxOK(t) /\ t.open /\ Keeps(t, tx[s])
  BY <1>2 DEF TxOK, OpenTx, Does, WriterIsTheUsersIn, Keeps
<1>5. tx'[s] = t /\ \A o \in Session \ {s} : tx'[o] = tx[o]
  BY <1>3 DEF IInv, TypeOK
<1>6. Active' = Active
  BY <1>1, <1>4, <1>5 DEF Active
<1>7. TypeOK'
  BY <1>3, <1>4 DEF IInv, TypeOK, TxOK
<1>8. \A o \in Active' : TxOK(tx[o])'
  <2> SUFFICES ASSUME NEW o \in Active PROVE TxOK(tx'[o])
    BY <1>6 DEF TxOK, OpenTx, Does, WriterIsTheUsersIn
  <2>1. CASE o = s
    BY <1>4, <1>5, <2>1
  <2>2. CASE o # s
    BY <1>5, <2>2 DEF IInv, Active
  <2> QED
    BY <2>1, <2>2
<1>9. EveryCopyIsAccountedFor'
  BY <1>3 DEF IInv, EveryCopyIsAccountedFor
<1>10. Ordered'
  <2>1. \A o \in Active : tx'[o].older = tx[o].older
    BY <1>4, <1>5 DEF Active, Keeps
  <2> QED
    BY <1>6, <2>1, Zenon DEF IInv, Ordered
<1>11. \A o \in Active' : Account(tx[o])'
  <2> SUFFICES ASSUME NEW o \in Active PROVE Account(tx[o])'
    BY <1>6
  <2>1. /\ Account(tx[o]) /\ host' = host
        /\ tx'[o].began = tx[o].began /\ tx'[o].missed = tx[o].missed /\ tx'[o].behind = tx[o].behind
    BY <1>3, <1>4, <1>5 DEF IInv, Keeps, Active
  <2> QED
    BY <2>1 DEF Account
<1> QED
  BY <1>7, <1>8, <1>9, <1>10, <1>11 DEF IInv

\* The transaction that begins is younger than every open one.
LEMMA BeginStep ==
    ASSUME IInv, NEW s \in Session, NEW auto \in BOOLEAN, Begin(s, auto)
    PROVE  IInv'
<1> DEFINE t == Opened(auto, Active)
<1>1. s \notin Active /\ Active \subseteq Session
  BY DEF Begin, Active
<1>2. t \in OpenTx
  BY <1>1 DEF Opened, OpenTx, IInv, TypeOK, Nothing
<1>3. TxOK(t)
  <2>1. host \in Delta
    BY DEF IInv, TypeOK
  <2>2. Grows(host, host)
    BY <2>1, DeltaShape DEF Grows, Copies
  <2>3. \A q \in Row : Net(host)[q] = Net(host)[q] + Nothing[q]
    BY <2>1, NetType DEF Nothing
  <2> QED
    BY <1>2, <2>2, <2>3 DEF TxOK, Does, WriterIsTheUsersIn, Opened
<1>4. tx'[s] = t /\ \A o \in Session \ {s} : tx'[o] = tx[o]
  BY DEF Begin, IInv, TypeOK
<1>5. t.open /\ t.older = Active
  BY DEF Opened
<1>6. Active' = Active \cup {s}
  BY <1>4, <1>5 DEF Active
<1>7. TypeOK'
  BY <1>2 DEF Begin, IInv, TypeOK
<1>8. \A o \in Active' : TxOK(tx[o])'
  <2> SUFFICES ASSUME NEW o \in Active \cup {s} PROVE TxOK(tx'[o])
    BY <1>6 DEF TxOK, OpenTx, Does, WriterIsTheUsersIn
  <2>1. CASE o = s
    BY <1>3, <1>4, <2>1
  <2>2. CASE o # s
    BY <1>1, <1>4, <2>2 DEF IInv
  <2> QED
    BY <2>1, <2>2
<1>9. EveryCopyIsAccountedFor'
  BY DEF Begin, IInv, EveryCopyIsAccountedFor
<1>10. Ordered'
  BY <1>1, <1>4, <1>5, <1>6 DEF IInv, Ordered
<1>11. \A o \in Active' : Account(tx[o])'
  <2> SUFFICES ASSUME NEW o \in Active \cup {s} PROVE Account(tx[o])'
    BY <1>6
  <2>0. host' = host /\ Net(host) \in [Row -> Int]
    BY NetType DEF Begin, IInv, TypeOK
  <2>1. CASE o = s
    <3>1. t.began = host /\ t.missed = Nothing
      BY DEF Opened
    <3> QED
      BY <1>4, <2>0, <2>1, <3>1 DEF Account, Nothing
  <2>2. CASE o # s
    <3>1. Account(tx[o]) /\ tx'[o] = tx[o]
      BY <1>1, <1>4, <2>2 DEF IInv
    <3> QED
      BY <2>0, <3>1 DEF Account
  <2> QED
    BY <2>1, <2>2
<1> QED
  BY <1>7, <1>8, <1>9, <1>10, <1>11 DEF IInv

\* What the end of another transaction changes in one.
LEMMA EndedIsTyped ==
    ASSUME NEW t \in OpenTx, NEW older \in SUBSET Session, NEW missed \in [Row -> Int],
           NEW behind \in BOOLEAN
    PROVE  [t EXCEPT !.older = older, !.missed = missed, !.behind = behind] \in OpenTx
BY DEF OpenTx

\* A transaction that ends leaves the others as they are, in their order.
LEMMA EndKeeps ==
    ASSUME IInv, NEW s \in Session, tx[s].open,
           NEW did \in [Row -> Int], NEW swapped \in BOOLEAN, tx' = Ended(s, did, swapped)
    PROVE  /\ tx' \in [Session -> {Closed} \cup OpenTx]
           /\ \A o \in Active' : TxOK(tx[o])'
           /\ Ordered'
           /\ \A o \in Active' : /\ o \in Active \ {s}
                                 /\ tx'[o].began = tx[o].began
                                 /\ \A q \in Row : tx'[o].missed[q] = tx[o].missed[q] + did[q]
                                 /\ tx'[o].behind <=> tx[o].behind \/ (swapped /\ s \in tx[o].older)
<1>1. ~tx'[s].open
  BY DEF Ended, Closed
<1>2. \A o \in Active \ {s} :
         /\ tx'[o] = [tx[o] EXCEPT !.older = @ \ {s}, !.missed = Plus(@, did),
                                   !.behind = @ \/ (swapped /\ s \in tx[o].older)]
         /\ tx[o] \in OpenTx
  BY OpenIsOpen DEF IInv, Ended, Active
<1>3. \A o \in Session \ Active : o # s => tx'[o] = tx[o]
  BY DEF Ended, Active
<1>4. \A o \in Active \ {s} : /\ tx'[o] \in OpenTx
                              /\ tx'[o].open
                              /\ tx'[o].older = tx[o].older \ {s}
                              /\ tx'[o].missed = Plus(tx[o].missed, did)
                              /\ tx'[o].behind <=> tx[o].behind \/ (swapped /\ s \in tx[o].older)
  <2> TAKE o \in Active \ {s}
  <2> DEFINE missed == Plus(tx[o].missed, did)
             behind == tx[o].behind \/ (swapped /\ s \in tx[o].older)
  <2>1. /\ tx'[o] = [tx[o] EXCEPT !.older = @ \ {s}, !.missed = missed, !.behind = behind]
        /\ tx[o] \in OpenTx
    BY <1>2
  <2>2. missed \in [Row -> Int]
    <3>1. tx[o].missed \in [Row -> Int]
      BY <2>1 DEF OpenTx
    <3> QED
      BY <3>1 DEF Plus
  <2>3. behind \in BOOLEAN
    OBVIOUS
  <2> HIDE DEF missed, behind
  <2>4. tx'[o].open /\ tx'[o].older = tx[o].older \ {s} /\ tx'[o].missed = missed
    BY <2>1 DEF OpenTx
  <2>6. tx'[o] \in OpenTx
    <3> DEFINE older == tx[o].older \ {s}
    <3>1. older \in SUBSET Session
      BY <2>1 DEF OpenTx
    <3>2. tx'[o] = [tx[o] EXCEPT !.older = older, !.missed = missed, !.behind = behind]
      BY <2>1
    <3> HIDE DEF older
    <3>3. [tx[o] EXCEPT !.older = older, !.missed = missed, !.behind = behind] \in OpenTx
      BY <2>1, <2>2, <2>3, <3>1, EndedIsTyped, Zenon
    <3> QED
      BY <3>2, <3>3
  <2>5. tx'[o].behind = behind
    BY <2>1 DEF OpenTx
  <2> QED
    BY <2>4, <2>5, <2>6 DEF missed, behind
<1>5. Active' = Active \ {s}
  BY <1>1, <1>3, <1>4 DEF Active
<1>6. tx' \in [Session -> {Closed} \cup OpenTx]
  <2>1. \A o \in Session : tx'[o] \in {Closed} \cup OpenTx
    <3> TAKE o \in Session
    <3>1. CASE o = s
      BY <3>1 DEF Ended
    <3>2. CASE o # s /\ o \in Active
      BY <1>4, <3>2
    <3>3. CASE o # s /\ o \notin Active
      BY <1>3, <3>3 DEF IInv, TypeOK
    <3> QED
      BY <3>1, <3>2, <3>3
  <2> QED
    BY <2>1 DEF Ended
<1>7. \A o \in Active' : TxOK(tx[o])'
  <2> SUFFICES ASSUME NEW o \in Active \ {s} PROVE TxOK(tx'[o])
    BY <1>5 DEF TxOK, OpenTx, Does, WriterIsTheUsersIn
  <2>1. TxOK(tx[o])
    BY DEF IInv
  <2>2. /\ tx'[o].swapped = tx[o].swapped /\ tx'[o].began = tx[o].began
        /\ tx'[o].seen = tx[o].seen /\ tx'[o].did = tx[o].did
        /\ tx'[o].writer = tx[o].writer /\ tx'[o].auto = tx[o].auto
        /\ tx'[o].wrote = tx[o].wrote
    <3> DEFINE missed == Plus(tx[o].missed, did)
               behind == tx[o].behind \/ (swapped /\ s \in tx[o].older)
    <3>1. /\ tx'[o] = [tx[o] EXCEPT !.older = @ \ {s}, !.missed = missed, !.behind = behind]
          /\ tx[o] \in OpenTx
      BY <1>2
    <3> HIDE DEF missed, behind
    <3> QED
      BY <3>1 DEF OpenTx
  <2> QED
    BY <1>4, <2>1, <2>2 DEF TxOK, Does, WriterIsTheUsersIn
<1>8. Ordered'
  BY <1>4, <1>5 DEF IInv, Ordered
<1>9. ASSUME NEW o \in Active'
      PROVE  /\ o \in Active \ {s}
             /\ tx'[o].began = tx[o].began
             /\ \A q \in Row : tx'[o].missed[q] = tx[o].missed[q] + did[q]
             /\ tx'[o].behind <=> tx[o].behind \/ (swapped /\ s \in tx[o].older)
  <2>1. o \in Active \ {s}
    BY <1>5, <1>9
  <2>2. \A q \in Row : Plus(tx[o].missed, did)[q] = tx[o].missed[q] + did[q]
    BY DEF Plus
  <2>3. tx'[o].began = tx[o].began
    <3> DEFINE missed == Plus(tx[o].missed, did)
               behind == tx[o].behind \/ (swapped /\ s \in tx[o].older)
    <3>1. /\ tx'[o] = [tx[o] EXCEPT !.older = @ \ {s}, !.missed = missed, !.behind = behind]
          /\ tx[o] \in OpenTx
      BY <1>2, <2>1
    <3> HIDE DEF missed, behind
    <3> QED
      BY <3>1 DEF OpenTx
  <2> QED
    BY <1>4, <2>1, <2>2, <2>3
<1> QED
  BY <1>6, <1>7, <1>8, <1>9

LEMMA CommitStep ==
    ASSUME IInv, NEW s \in Session, Commit(s)
    PROVE  IInv'
<1> DEFINE t == tx[s]
<1>0. s \in Active
  BY DEF Commit, Active
<1>1. t \in OpenTx /\ TxOK(t) /\ Does(t) /\ Account(t)
  BY <1>0, OpenIsOpen DEF Commit, IInv, TxOK
<1>2. /\ host \in Delta /\ t.began \in Delta /\ t.seen \in Delta
      /\ log \in [Row -> Int] /\ lost \in [Row -> Int]
      /\ t.did \in [Row -> Int] /\ t.missed \in [Row -> Int] /\ t.swapped \in BOOLEAN
  BY <1>1 DEF IInv, TypeOK, OpenTx
<1>3. log' \in [Row -> Int] /\ \A q \in Row : log'[q] = log[q] + t.did[q]
  BY <1>2 DEF Commit, Plus
<1>4. \A q \in Row : Net(t.seen)[q] = Net(t.began)[q] + t.did[q]
  BY <1>1 DEF Does
<1>5. \A d \in Delta : Net(d) \in [Row -> Int]
  BY NetType
<1>6. lost' \in [Row -> Int]
  BY <1>2 DEF Commit, Plus
<1>7. \A q \in Row : Net(host)[q] = log[q] - lost[q]
  BY DEF IInv, EveryCopyIsAccountedFor, Minus
<1>8. CASE t.swapped
  <2>1. host' = t.seen /\ \A q \in Row : lost'[q] = lost[q] + t.missed[q]
    BY <1>8 DEF Commit, Plus
  <2>2. IsLegacyKeylessDelta(t.began) /\ ~IsLegacyKeylessDelta(t.seen) /\ t.older = {}
    BY <1>1, <1>8 DEF Does, TxOK
  <2>3. t.began.layout = host.layout
    BY <2>2 DEF Commit, Dropped
  <2>4. ASSUME NEW q \in Row
        PROVE  Net(host')[q] = log'[q] - lost'[q]
    <3>1. /\ Net(host)[q] \in Int /\ Net(t.seen)[q] \in Int /\ Net(t.began)[q] \in Int
          /\ t.did[q] \in Int /\ t.missed[q] \in Int /\ log[q] \in Int /\ lost[q] \in Int
      BY <1>2, <1>5
    <3>2. Net(host)[q] = Net(t.began)[q] + t.missed[q]
      BY <1>1, <2>3 DEF Account
    <3>3. Net(host')[q] = Net(t.began)[q] + t.did[q]
      BY <1>4, <2>1
    <3> QED
      BY <1>3, <1>7, <2>1, <3>1, <3>2, <3>3
  <2>5. host' \in Delta /\ EveryCopyIsAccountedFor'
    <3>1. host' \in Delta /\ Net(host') \in [Row -> Int]
      BY <1>2, <1>5, <2>1
    <3>2. Net(host') = Minus(log', lost')
      BY <2>4, <3>1 DEF Minus
    <3> QED
      BY <3>1, <3>2 DEF EveryCopyIsAccountedFor, Net, Minus, IsLegacyKeylessDelta
  <2>6. /\ tx' \in [Session -> {Closed} \cup OpenTx]
        /\ \A o \in Active' : TxOK(tx[o])'
        /\ Ordered'
        /\ \A o \in Active' : /\ o \in Active \ {s}
                              /\ tx'[o].began = tx[o].began
                              /\ tx'[o].behind <=> tx[o].behind \/ (t.swapped /\ s \in tx[o].older)
    BY <1>2, EndKeeps DEF Commit
  <2>7. ASSUME NEW o \in Active'
        PROVE  Account(tx[o])'
    <3>1. o \in Active \ {s} /\ tx'[o].began = tx[o].began
      BY <2>6
    <3>2. s \in tx[o].older
      BY <1>0, <2>2, <3>1 DEF IInv, Ordered
    <3>3. tx'[o].behind
      BY <1>8, <2>6, <3>2
    <3>4. IsLegacyKeylessDelta(tx[o].began)
      BY <2>2, <2>3, <3>1 DEF IInv, Account, IsLegacyKeylessDelta
    <3>5. ~IsLegacyKeylessDelta(host')
      BY <2>1, <2>2
    <3>6. tx'[o].began.layout # host'.layout
      BY <3>1, <3>4, <3>5 DEF IsLegacyKeylessDelta
    <3> QED
      BY <3>3, <3>5, <3>6 DEF Account, IsLegacyKeylessDelta
  <2> QED
    BY <1>3, <1>6, <2>5, <2>6, <2>7 DEF IInv, TypeOK
<1>9. CASE ~t.swapped
  <2>0. lost' = lost
    BY <1>9 DEF Commit
  <2>1. /\ host' \in Delta /\ host'.layout = host.layout
        /\ \A q \in Row : Net(host')[q] = Net(host)[q] + t.did[q]
    <3>1. CASE t.seen = t.began
      <4>1. host' = host
        BY <1>9, <3>1 DEF Commit
      <4>2. \A q \in Row : t.did[q] = 0
        <5> TAKE q \in Row
        <5>1. Net(t.began)[q] \in Int /\ t.did[q] \in Int
          BY <1>2, <1>5
        <5>2. Net(t.began)[q] = Net(t.began)[q] + t.did[q]
          BY <1>4, <3>1
        <5> QED
          BY <5>1, <5>2
      <4>3. \A q \in Row : Net(host)[q] \in Int
        BY <1>2, <1>5
      <4> QED
        BY <1>2, <4>1, <4>2, <4>3
    <3>2. CASE t.seen # t.began
      <4>1. host' = Rebased(t.began, t.seen, host)
        BY <1>9, <3>2 DEF Commit
      <4>2. Grows(t.began, t.seen) /\ t.began.layout = host.layout
        BY <1>1, <1>9, <3>2 DEF Commit, Does, Dropped
      <4>3. /\ Rebased(t.began, t.seen, host) \in Delta
            /\ \A q \in Row : Net(Rebased(t.began, t.seen, host))[q]
                                = Net(host)[q] + (Net(t.seen)[q] - Net(t.began)[q])
        BY <1>2, <4>2, RebasedDelta
      <4>4. ASSUME NEW q \in Row
            PROVE  Net(host')[q] = Net(host)[q] + t.did[q]
        <5>1. /\ Net(host)[q] \in Int /\ Net(t.seen)[q] \in Int
              /\ Net(t.began)[q] \in Int /\ t.did[q] \in Int
          BY <1>2, <1>5
        <5>2. Net(host')[q] = Net(host)[q] + (Net(t.seen)[q] - Net(t.began)[q])
          BY <4>1, <4>3
        <5> QED
          BY <1>4, <5>1, <5>2
      <4>5. host'.layout = host.layout
        BY <1>2, <4>1, DeltaShape DEF Rebased, Legacy, Bag, IsLegacyKeylessDelta
      <4> QED
        BY <4>1, <4>3, <4>4, <4>5
    <3> QED
      BY <3>1, <3>2
  <2>2. EveryCopyIsAccountedFor'
    <3>1. Net(host') \in [Row -> Int]
      BY <1>5, <2>1
    <3>2. ASSUME NEW q \in Row
          PROVE  Net(host')[q] = log'[q] - lost'[q]
      <4>1. t.did[q] \in Int /\ log[q] \in Int /\ lost[q] \in Int
        BY <1>2
      <4> QED
        BY <1>3, <1>7, <2>0, <2>1, <4>1
    <3>3. Net(host') = Minus(log', lost')
      BY <3>1, <3>2 DEF Minus
    <3> QED
      BY <3>3 DEF EveryCopyIsAccountedFor, Net, Minus, IsLegacyKeylessDelta
  <2>3. /\ tx' \in [Session -> {Closed} \cup OpenTx]
        /\ \A o \in Active' : TxOK(tx[o])'
        /\ Ordered'
        /\ \A o \in Active' : /\ o \in Active \ {s}
                              /\ tx'[o].began = tx[o].began
                              /\ \A q \in Row : tx'[o].missed[q] = tx[o].missed[q] + t.did[q]
                              /\ tx'[o].behind <=> tx[o].behind \/ (t.swapped /\ s \in tx[o].older)
    BY <1>2, EndKeeps DEF Commit
  <2>4. ASSUME NEW o \in Active'
        PROVE  Account(tx[o])'
    <3>1. /\ o \in Active /\ tx'[o].began = tx[o].began
          /\ \A q \in Row : tx'[o].missed[q] = tx[o].missed[q] + t.did[q]
          /\ tx[o].behind => tx'[o].behind
      BY <2>3
    <3>2. tx[o] \in OpenTx /\ Account(tx[o])
      BY <3>1, OpenIsOpen DEF IInv, Active
    <3>3. tx'[o].began.layout = host'.layout => \A q \in Row : Net(host')[q] = Net(tx'[o].began)[q] + tx'[o].missed[q]
      <4> SUFFICES ASSUME tx[o].began.layout = host.layout, NEW q \in Row
                   PROVE  Net(host')[q] = Net(tx'[o].began)[q] + tx'[o].missed[q]
        BY <2>1, <3>1
      <4>1. /\ Net(tx[o].began)[q] \in Int /\ tx[o].missed[q] \in Int /\ t.did[q] \in Int
        BY <1>2, <1>5, <3>2 DEF OpenTx
      <4>2. Net(host)[q] = Net(tx[o].began)[q] + tx[o].missed[q]
        BY <3>2 DEF Account
      <4> QED
        BY <2>1, <3>1, <4>1, <4>2
    <3>4. tx'[o].began.layout # host'.layout => tx'[o].behind /\ ~IsLegacyKeylessDelta(host')
      BY <2>1, <3>1, <3>2 DEF Account, IsLegacyKeylessDelta
    <3> QED
      BY <3>3, <3>4 DEF Account, Net, Minus, IsLegacyKeylessDelta
  <2> QED
    BY <1>3, <1>6, <2>1, <2>2, <2>3, <2>4 DEF IInv, TypeOK
<1> QED
  BY <1>2, <1>8, <1>9

LEMMA RollbackStep ==
    ASSUME IInv, NEW s \in Session, Rollback(s)
    PROVE  IInv'
<1>0. /\ Nothing \in [Row -> Int] /\ \A q \in Row : Nothing[q] = 0
      /\ tx[s].open /\ tx' = Ended(s, Nothing, FALSE) /\ UNCHANGED <<host, log, lost>>
  BY DEF Rollback, Nothing
<1>1. /\ tx' \in [Session -> {Closed} \cup OpenTx]
      /\ \A o \in Active' : TxOK(tx[o])'
      /\ Ordered'
      /\ \A o \in Active' : /\ o \in Active \ {s}
                            /\ tx'[o].began = tx[o].began
                            /\ \A q \in Row : tx'[o].missed[q] = tx[o].missed[q] + Nothing[q]
                            /\ tx'[o].behind <=> tx[o].behind \/ (FALSE /\ s \in tx[o].older)
  BY <1>0, EndKeeps
<1>2. ASSUME NEW o \in Active'
      PROVE  Account(tx[o])'
  <2>1. o \in Active /\ tx[o] \in OpenTx /\ Account(tx[o]) /\ tx'[o].began = tx[o].began
    BY <1>1, OpenIsOpen DEF IInv, Active
  <2>2. ASSUME NEW q \in Row
        PROVE  tx'[o].missed[q] = tx[o].missed[q]
    <3>1. tx[o].missed[q] \in Int
      BY <2>1 DEF OpenTx
    <3>2. tx'[o].missed[q] = tx[o].missed[q] + Nothing[q] /\ Nothing[q] = 0
      BY <1>0, <1>1
    <3> QED
      BY <3>1, <3>2
  <2>3. tx'[o].behind <=> tx[o].behind
    BY <1>1
  <2> QED
    BY <1>0, <2>1, <2>2, <2>3 DEF Account
<1> QED
  BY <1>0, <1>1, <1>2 DEF IInv, TypeOK, EveryCopyIsAccountedFor

LEMMA Invariance == Spec => []IInv
<1>1. IInv /\ [Next]_vars => IInv'
  <2> SUFFICES ASSUME IInv, [Next]_vars PROVE IInv'
    OBVIOUS
  <2>1. CASE UNCHANGED vars
    BY <2>1 DEF vars, IInv, TypeOK, EveryCopyIsAccountedFor, Ordered, Active, TxOK, Does, WriterIsTheUsersIn, Account
  <2>2. CASE Next
    <3>1. PICK s \in Session :
            \/ \E auto \in BOOLEAN : Begin(s, auto)
            \/ Commit(s)
            \/ Rollback(s)
            \/ Statement(s)
      BY <2>2 DEF Next, Statement
    <3> QED
      BY <3>1, BeginStep, CommitStep, RollbackStep, StatementStep
  <2> QED
    BY <2>1, <2>2
<1> QED
  BY <1>1, Initially, PTL DEF Spec

-----------------------------------------------------------------------------
\* Every variable holds a value of its type: deltas in one of the two layouts,
\* transactions over sessions (ScenarioUpgrade).
THEOREM TypeCorrect == Spec => []TypeOK
<1>1. IInv => TypeOK
  BY DEF IInv
<1> QED
  BY <1>1, Invariance, PTL

\* scenario_delta.cpp:142-176: the upgrade loses exactly the copies others
\* committed between the start of its transaction and its commit, and the
\* writes before, beside and after it are all there, once.
THEOREM CopiesAccountedFor == Spec => []EveryCopyIsAccountedFor
<1>1. IInv => EveryCopyIsAccountedFor
  BY DEF IInv
<1> QED
  BY <1>1, Invariance, PTL

\* scenario_delta.cpp:224: a writer that lost its delta, and can only roll
\* back, began after the transaction that dropped it.
THEOREM OlderWriters == Spec => []OlderWritersCommit
<1>1. IInv => OlderWritersCommit
  BY DEF IInv, Account, Dropped, OlderWritersCommit
<1> QED
  BY <1>1, Invariance, PTL

\* scenario_delta.cpp:217: the upgrade never makes the host an explicit
\* transaction's writer behind its user's back.
THEOREM Writers == Spec => []WriterIsTheUsers
<1>1. IInv => WriterIsTheUsers
  BY DEF IInv, TxOK, WriterIsTheUsersIn, WriterIsTheUsers
<1> QED
  BY <1>1, Invariance, PTL
=============================================================================
