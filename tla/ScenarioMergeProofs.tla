------------------------- MODULE ScenarioMergeProofs -------------------------
(***************************************************************************)
(* Theorems about ScenarioMerge, for every set of keys and values, and     *)
(* about MCScenarioMerge, to which those of ScenarioLakeMergeProofs are    *)
(* carried over: the merge chosen at the start runs as if it were alone.   *)
(***************************************************************************)
EXTENDS MCScenarioMerge, TLAPS

-----------------------------------------------------------------------------
(* Type correctness.                                                       *)

LEMMA RowType ==
    ASSUME NEW v \in Val, NEW o \in {"I", "U"}
    PROVE  Stored(o, v) \in DeltaRow
BY DEF Stored, DeltaRow

LEMMA RowFields == \A o, v : Stored(o, v).op = o /\ Stored(o, v).val = v
BY DEF Stored

LEMMA TombstoneType == Stored("D", Null) \in DeltaRow
BY DEF Stored, DeltaRow

LEMMA NoRowType == NoRow \in DeltaRow
BY DEF NoRow, DeltaRow

LEMMA ClaimOpType == \A k : ClaimOp(k) \in {"I", "U"}
BY DEF ClaimOp

LEMMA UpdatedOpType == \A k : UpdatedOp(k) \in {"I", "U"}
BY DEF UpdatedOp, FromDelta

LEMMA VacatedType == \A k : Vacated(k) \in DeltaRow
BY TombstoneType, NoRowType DEF Vacated

\* The delta a chunk of inserts leaves, key by key.
LEMMA AfterInsertRows ==
    ASSUME TypeOK, NEW new \in InsertChunks
    PROVE  /\ AfterInsert(new) \in [Key -> DeltaRow]
           /\ DOMAIN new \subseteq FreeKeys
           /\ \A k \in DOMAIN new : /\ AfterInsert(new)[k] = Stored(ClaimOp(k), new[k])
                                    /\ new[k] \in Val
           /\ \A k \in Key \ DOMAIN new : AfterInsert(new)[k] = delta[k]
<1>1. PICK K \in NonEmpty(FreeKeys) : new \in [K -> Val]
  BY DEF InsertChunks
<1>2. DOMAIN new = K /\ K \subseteq FreeKeys /\ FreeKeys \subseteq Key
  BY <1>1 DEF NonEmpty, FreeKeys
<1>3. \A k \in K : new[k] \in Val /\ Stored(ClaimOp(k), new[k]) \in DeltaRow
  BY <1>1, ClaimOpType, RowType
<1>4. AfterInsert(new) = [k \in Key |-> IF k \in K THEN Stored(ClaimOp(k), new[k]) ELSE delta[k]]
  BY <1>2 DEF AfterInsert
<1> QED  BY <1>2, <1>3, <1>4 DEF TypeOK

\* The delta a chunk of updates leaves: rows at their new keys, then vacated
\* keys, then the rest.
LEMMA AfterUpdateRows ==
    ASSUME TypeOK, NEW post \in UpdateChunks
    PROVE  /\ AfterUpdate(post) \in [Key -> DeltaRow]
           /\ DOMAIN post \subseteq Key \ FreeKeys
           /\ \A j \in DOMAIN post :
                  /\ post[j].val \in Val
                  /\ post[j].key \in {j} \cup FreeKeys
                  /\ AfterUpdate(post)[post[j].key] =
                         Stored(IF post[j].key = j THEN UpdatedOp(j) ELSE ClaimOp(post[j].key), post[j].val)
                  /\ post[j].key # j => AfterUpdate(post)[j] = Vacated(j)
           /\ \A k \in Key : (\A j \in DOMAIN post : k # j /\ k # post[j].key) =>
                  AfterUpdate(post)[k] = delta[k]
<1>1. PICK K \in NonEmpty(Key \ FreeKeys) :
        /\ post \in [K -> PostImage]
        /\ \A k \in K : post[k].key \in {k} \cup FreeKeys
        /\ \A j, k \in K : post[j].key = post[k].key => j = k
  BY DEF UpdateChunks
<1>2. DOMAIN post = K /\ K \subseteq Key \ FreeKeys
  BY <1>1 DEF NonEmpty
<1>3. \A k \in K : post[k].key \in Key /\ post[k].val \in Val
  BY <1>1 DEF PostImage
<1> DEFINE at(k) == \E j \in K : post[j].key = k
           from(k) == CHOOSE j \in K : post[j].key = k
           there(k) == Stored(IF from(k) = k THEN UpdatedOp(k) ELSE ClaimOp(k), post[from(k)].val)
<1>4. AfterUpdate(post) =
        [k \in Key |-> IF at(k) THEN there(k) ELSE IF k \in K THEN Vacated(k) ELSE delta[k]]
  BY <1>2 DEF AfterUpdate
<1>5. \A j \in K : from(post[j].key) = j
  BY <1>1
<1>6. \A k : at(k) => from(k) \in K
  OBVIOUS
<1>7. \A k \in Key : at(k) => there(k) \in DeltaRow
  <2> SUFFICES ASSUME NEW k \in Key, at(k)
               PROVE  there(k) \in DeltaRow
    OBVIOUS
  <2>1. post[from(k)].val \in Val
    BY <1>3, <1>6
  <2> QED  BY <2>1, RowType, UpdatedOpType, ClaimOpType
<1>8. \A j \in K : post[j].key # j => ~at(j)
  <2> SUFFICES ASSUME NEW j \in K, post[j].key # j, NEW i \in K, post[i].key = j
               PROVE  FALSE
    OBVIOUS
  <2>1. j \in {i} \cup FreeKeys /\ j \notin FreeKeys
    BY <1>1, <1>2
  <2> QED  BY <2>1
<1>9. AfterUpdate(post) \in [Key -> DeltaRow]
  BY <1>4, <1>7, VacatedType DEF TypeOK
<1>10. ASSUME NEW j \in K
       PROVE  /\ post[j].val \in Val
              /\ post[j].key \in {j} \cup FreeKeys
              /\ AfterUpdate(post)[post[j].key] =
                     Stored(IF post[j].key = j THEN UpdatedOp(j) ELSE ClaimOp(post[j].key), post[j].val)
              /\ post[j].key # j => AfterUpdate(post)[j] = Vacated(j)
  <2>1. post[j].key \in Key /\ at(post[j].key) /\ j \in Key
    BY <1>2, <1>3
  <2>2. AfterUpdate(post)[post[j].key] = there(post[j].key)
    BY <1>4, <2>1
  <2>3. there(post[j].key) =
          Stored(IF post[j].key = j THEN UpdatedOp(j) ELSE ClaimOp(post[j].key), post[j].val)
    BY <1>5
  <2>4. post[j].key # j => AfterUpdate(post)[j] = Vacated(j)
    BY <1>4, <1>8, <2>1
  <2> HIDE DEF at, there, from
  <2> QED  BY <1>1, <1>3, <2>2, <2>3, <2>4
<1>11. \A k \in Key : (\A j \in K : k # j /\ k # post[j].key) => AfterUpdate(post)[k] = delta[k]
  BY <1>4
<1> QED  BY <1>2, <1>9, <1>10, <1>11

LEMMA WriteType ==
    ASSUME TypeOK, NEW after \in [Key -> DeltaRow], Write(after)
    PROVE  TypeOK'
BY DEF TypeOK, Write

LEMMA ResultType ==
    ASSUME TypeOK, NEW policy
    PROVE  Result(policy) \in Table
<1>1. \A k \in Key : delta[k].op \in {"I", "U"} => delta[k].val \in Val
  BY DEF TypeOK, DeltaRow
<1>2. \A k \in Key : main[k] \in Val \cup {Null}
  BY DEF TypeOK, Table
<1>3. \A k \in Key : k \in Appended(policy) => delta[k].val \in Val
  BY <1>1 DEF Appended
<1> QED  BY <1>2, <1>3 DEF Result, Table

\* The delta only ever holds I and U rows with a value and tombstones without
\* one, and the merge leaves the base a table.
THEOREM TypeCorrect == Spec => []TypeOK
<1>1. Init => TypeOK
  <2>1. NoRow \in DeltaRow
    BY DEF NoRow, DeltaRow
  <2> QED  BY <2>1 DEF Init, TypeOK
<1>2. TypeOK /\ [Next]_vars => TypeOK'
  <2> SUFFICES ASSUME TypeOK, [Next]_vars
               PROVE  TypeOK'
    OBVIOUS
  <2>1. ASSUME NEW k \in Key, NEW v \in Val \cup {Null}, BaseCommit(k, v)
        PROVE  TypeOK'
    BY <2>1 DEF BaseCommit, TypeOK, Table
  <2>2. ASSUME NEW new \in InsertChunks, Insert(new)
        PROVE  TypeOK'
    BY <2>2, AfterInsertRows, WriteType DEF Insert
  <2>3. ASSUME NEW post \in UpdateChunks, Update(post)
        PROVE  TypeOK'
    BY <2>3, AfterUpdateRows, WriteType DEF Update
  <2>4. ASSUME NEW k \in Key, Delete(k) \/ DeleteOwn(k)
        PROVE  TypeOK'
    <3>1. \A row \in DeltaRow : [delta EXCEPT ![k] = row] \in [Key -> DeltaRow]
      BY DEF TypeOK
    <3>2. (IF delta[k].op = "U" \/ FromBase(k) THEN Stored("D", Null) ELSE NoRow) \in DeltaRow
      BY TombstoneType, NoRowType
    <3> QED  BY <2>4, <3>1, <3>2, NoRowType, WriteType DEF Delete, DeleteOwn
  <2>5. ASSUME NEW policy \in Policies, Merge(policy)
        PROVE  TypeOK'
    <3>1. NoRow \in DeltaRow
      BY DEF NoRow, DeltaRow
    <3> QED  BY <2>5, <3>1, ResultType DEF Merge, TypeOK
  <2>6. CASE UNCHANGED vars
    BY <2>6 DEF vars, TypeOK
  <2> QED  BY <2>1, <2>2, <2>3, <2>4, <2>5, <2>6 DEF Next
<1> QED  BY <1>1, <1>2, PTL DEF Spec

-----------------------------------------------------------------------------
(* The UNIQUE probe.                                                       *)

\* A delta row of the scenario has a value; a value is not Null.
LEMMA OwnValues ==
    ASSUME NEW d \in [Key -> DeltaRow], NEW k \in Own(d)
    PROVE  d[k].val \in Val /\ d[k].val # Null
BY MergeAssumption DEF Own, DeltaRow

\* A chunk that hides no fewer base rows than before, and whose new values are
\* either probed or were already distinct from every base row left to see, is
\* admitted exactly when it leaves no duplicate.
LEMMA AdmittedMeansUnique ==
    ASSUME NEW after \in [Key -> DeltaRow], UniqueShown(delta), NEW values \in SUBSET Val,
           Replaced(delta) \subseteq Replaced(after),
           \A v \in values : \E k \in Own(after) : after[k].val = v,
           \A k \in Own(after) : \/ after[k].val \in values
                                 \/ \A j \in Key \ Replaced(after) : Seen(j) # after[k].val
    PROVE  Admitted(values, after) <=> UniqueShown(after)
<1>1. Mask(after) = Replaced(after)
  BY DEF Mask, Replaced
<1>2. \A j, k \in {i \in Key \ Replaced(after) : Seen(i) # Null} : Seen(j) = Seen(k) => j = k
  BY DEF UniqueShown
<1>3. ASSUME Admitted(values, after)
      PROVE  UniqueShown(after)
  <2>1. \A v \in values, k \in Key \ Replaced(after) : Seen(k) # v
    BY <1>1, <1>3 DEF Admitted
  <2>2. \A j, k \in Own(after) : after[j].val = after[k].val => j = k
    BY <1>3 DEF Admitted
  <2>3. \A j \in Own(after), k \in Key \ Replaced(after) : after[j].val # Seen(k)
    BY <2>1
  <2> QED  BY <1>2, <2>2, <2>3 DEF UniqueShown
<1>4. ASSUME UniqueShown(after)
      PROVE  Admitted(values, after)
  <2>1. \A j, k \in Own(after) : after[j].val = after[k].val => j = k
    BY <1>4 DEF UniqueShown
  <2>2. ASSUME NEW v \in values, NEW k \in Key \ Replaced(after)
        PROVE  Seen(k) # v
    <3>1. PICK j \in Own(after) : after[j].val = v
      BY <2>2
    <3>2. v # Null
      BY <3>1, OwnValues
    <3> QED  BY <1>4, <3>1, <3>2 DEF UniqueShown
  <2> QED  BY <1>1, <2>1, <2>2 DEF Admitted
<1> QED  BY <1>3, <1>4

\* A value of the scenario's own is no base row's that it still shows.
LEMMA OwnIsNotBase ==
    ASSUME TypeOK, UniqueShown(delta), NEW k \in Own(delta), NEW j \in Key \ Replaced(delta)
    PROVE  Seen(j) # delta[k].val
BY OwnValues DEF UniqueShown, TypeOK

LEMMA InsertProbe ==
    ASSUME TypeOK, UniqueShown(delta), NEW new \in InsertChunks
    PROVE  InsertAdmitted(new) <=> UniqueShown(AfterInsert(new))
<1> DEFINE after == AfterInsert(new)
           values == {new[k] : k \in DOMAIN new}
<1>1. /\ after \in [Key -> DeltaRow]
      /\ DOMAIN new \subseteq FreeKeys
      /\ \A k \in DOMAIN new : after[k] = Stored(ClaimOp(k), new[k]) /\ new[k] \in Val
      /\ \A k \in Key \ DOMAIN new : after[k] = delta[k]
  BY AfterInsertRows
<1>2. DOMAIN new \subseteq Key
  BY <1>1 DEF FreeKeys
<1> HIDE DEF after
<1>3. \A k \in DOMAIN new : /\ after[k].op = ClaimOp(k)
                            /\ after[k].val = new[k]
                            /\ k \in Own(after)
  <2> SUFFICES ASSUME NEW k \in DOMAIN new
               PROVE  after[k].op = ClaimOp(k) /\ after[k].val = new[k] /\ k \in Own(after)
    OBVIOUS
  <2>1. after[k].op = ClaimOp(k) /\ after[k].val = new[k]
    BY <1>1, RowFields
  <2> QED  BY <1>2, <2>1, ClaimOpType DEF Own
<1>4. Replaced(delta) \subseteq Replaced(after)
  <2> SUFFICES ASSUME NEW k \in Replaced(delta)
               PROVE  k \in Replaced(after)
    OBVIOUS
  <2>1. CASE k \in DOMAIN new
    <3>1. delta[k].op = "D"
      BY <1>1, <2>1 DEF FreeKeys, FromDelta, Replaced
    <3> QED  BY <1>3, <2>1, <3>1 DEF ClaimOp, Replaced
  <2>2. CASE k \notin DOMAIN new
    BY <1>1, <2>2 DEF Replaced
  <2> QED  BY <2>1, <2>2
<1>5. \A v \in values : \E k \in Own(after) : after[k].val = v
  BY <1>3
<1>6. ASSUME NEW k \in Own(after)
      PROVE  \/ after[k].val \in values
             \/ \A j \in Key \ Replaced(after) : Seen(j) # after[k].val
  <2>1. CASE k \in DOMAIN new
    BY <1>3, <2>1
  <2>2. CASE k \notin DOMAIN new
    <3>1. after[k] = delta[k] /\ k \in Own(delta)
      BY <1>1, <2>2 DEF Own
    <3> QED  BY <1>4, <3>1, OwnIsNotBase
  <2> QED  BY <2>1, <2>2
<1>7. values \in SUBSET Val
  BY <1>1
<1> QED  BY <1>1, <1>4, <1>5, <1>6, <1>7, AdmittedMeansUnique DEF InsertAdmitted, after

LEMMA UpdateProbe ==
    ASSUME TypeOK, UniqueShown(delta), NEW post \in UpdateChunks
    PROVE  UpdateAdmitted(post) <=> UniqueShown(AfterUpdate(post))
<1> DEFINE after == AfterUpdate(post)
           values == {post[k].val : k \in Changed(post)}
<1>1. /\ after \in [Key -> DeltaRow]
      /\ DOMAIN post \subseteq Key \ FreeKeys
      /\ \A j \in DOMAIN post :
             /\ post[j].val \in Val
             /\ post[j].key \in {j} \cup FreeKeys
             /\ after[post[j].key] =
                    Stored(IF post[j].key = j THEN UpdatedOp(j) ELSE ClaimOp(post[j].key), post[j].val)
             /\ post[j].key # j => after[j] = Vacated(j)
      /\ \A k \in Key : (\A j \in DOMAIN post : k # j /\ k # post[j].key) => after[k] = delta[k]
  BY AfterUpdateRows
<1>2. \A j \in DOMAIN post : /\ j \in Key
                             /\ post[j].key \in Key
                             /\ FromDelta(j) \/ FromBase(j)
  BY <1>1 DEF FreeKeys
<1> HIDE DEF after
<1>3. ASSUME NEW j \in DOMAIN post
      PROVE  /\ after[post[j].key].op = IF post[j].key = j THEN UpdatedOp(j) ELSE ClaimOp(post[j].key)
             /\ post[j].key # j => after[j].op = IF UpdatedOp(j) = "U" THEN "D" ELSE "none"
             /\ post[j].key \in Own(after)
             /\ after[post[j].key].val = post[j].val
  <2>1. /\ after[post[j].key].op = IF post[j].key = j THEN UpdatedOp(j) ELSE ClaimOp(post[j].key)
        /\ after[post[j].key].val = post[j].val
    BY <1>1, RowFields
  <2>2. post[j].key # j => after[j].op = IF UpdatedOp(j) = "U" THEN "D" ELSE "none"
    BY <1>1, RowFields DEF Vacated, NoRow
  <2>3. post[j].key \in Own(after)
    BY <1>2, <2>1, UpdatedOpType, ClaimOpType DEF Own
  <2> QED  BY <2>1, <2>2, <2>3
<1>4. Replaced(delta) \subseteq Replaced(after)
  <2> SUFFICES ASSUME NEW k \in Replaced(delta)
               PROVE  k \in Replaced(after)
    OBVIOUS
  <2>1. CASE k \in DOMAIN post
    <3>1. UpdatedOp(k) = "U"
      BY <1>2, <2>1 DEF Replaced, UpdatedOp, FromDelta, FromBase
    <3> QED  BY <1>2, <1>3, <2>1, <3>1 DEF Replaced
  <2>2. CASE k \notin DOMAIN post /\ \E j \in DOMAIN post : k = post[j].key
    <3>1. PICK j \in DOMAIN post : k = post[j].key /\ j # k
      BY <2>2
    <3>2. delta[k].op = "D"
      BY <1>1, <3>1 DEF Replaced, FreeKeys, FromDelta
    <3> QED  BY <1>2, <1>3, <3>1, <3>2 DEF Replaced, ClaimOp
  <2>3. CASE \A j \in DOMAIN post : k # j /\ k # post[j].key
    BY <1>1, <2>3 DEF Replaced
  <2> QED  BY <2>1, <2>2, <2>3
<1>5. \A v \in values : \E k \in Own(after) : after[k].val = v
  BY <1>3 DEF Changed
<1>6. ASSUME NEW j \in DOMAIN post, post[j].val = Shown(j), NEW i \in Key \ Replaced(after)
      PROVE  Seen(i) # post[j].val
  <2>1. CASE FromDelta(j)
    <3>1. j \in Own(delta) /\ Shown(j) = delta[j].val
      BY <1>2, <2>1 DEF Own, FromDelta, Shown
    <3> QED  BY <1>4, <1>6, <3>1, OwnIsNotBase
  <2>2. CASE ~FromDelta(j)
    <3>1. FromBase(j) /\ Shown(j) = Seen(j) /\ UpdatedOp(j) = "U"
      BY <1>2, <2>2 DEF Shown, UpdatedOp
    <3>2. j \in Replaced(after)
      BY <1>2, <1>3, <3>1 DEF Replaced
    <3>3. j \in Key \ Replaced(delta) /\ i \in Key \ Replaced(delta) /\ Seen(j) # Null
      BY <1>2, <1>4, <3>1 DEF FromBase, Replaced
    <3> QED  BY <1>6, <3>1, <3>2, <3>3 DEF UniqueShown
  <2> QED  BY <2>1, <2>2
<1>7. ASSUME NEW k \in Own(after)
      PROVE  \/ after[k].val \in values
             \/ \A i \in Key \ Replaced(after) : Seen(i) # after[k].val
  <2>1. CASE \E j \in DOMAIN post : k = post[j].key
    <3>1. PICK j \in DOMAIN post : k = post[j].key
      BY <2>1
    <3> QED  BY <1>3, <1>6, <3>1 DEF Changed
  <2>2. CASE k \in DOMAIN post /\ post[k].key # k
    BY <1>3, <2>2 DEF Own
  <2>3. CASE \A j \in DOMAIN post : k # j /\ k # post[j].key
    <3>1. after[k] = delta[k] /\ k \in Own(delta)
      BY <1>1, <2>3 DEF Own
    <3> QED  BY <1>4, <3>1, OwnIsNotBase
  <2> QED  BY <2>1, <2>2, <2>3
<1>8. values \in SUBSET Val
  BY <1>1 DEF Changed
<1> QED  BY <1>1, <1>4, <1>5, <1>7, <1>8, AdmittedMeansUnique DEF UpdateAdmitted, after

\* The UNIQUE probe and its masks decide exactly what the merged state decides,
\* over a fixed and over a live base.
THEOREM ProbeDecidesUniqueness == Spec => []ProbeIsExact
<1>1. TypeOK => ProbeIsExact
  BY InsertProbe, UpdateProbe DEF ProbeIsExact
<1> QED  BY <1>1, TypeCorrect, PTL

-----------------------------------------------------------------------------
(* The delta against the creation snapshot.                                *)

\* What a scenario with a snapshot knows of it: an I row stands for a key the
\* snapshot lacks, a U or D row for one it has, and no value is shown twice.
Fits(row, k) == /\ row.op = "I" => snap[k] = Null
                /\ row.op \in {"U", "D"} => snap[k] # Null

SnapshotInv ==
    kind # "overlay" =>
        /\ \A k \in Key : Fits(delta[k], k)
        /\ UniqueValues(snap)
        /\ UniqueShown(delta)

\* Claimed, updated and vacated keys get rows that fit the snapshot.
LEMMA OpsFit ==
    ASSUME SnapshotInv, kind # "overlay", NEW k \in Key, NEW v
    PROVE  /\ k \in FreeKeys => Fits(Stored(ClaimOp(k), v), k)
           /\ k \notin FreeKeys => Fits(Stored(UpdatedOp(k), v), k) /\ Fits(Vacated(k), k)
<1>1. /\ delta[k].op = "I" => snap[k] = Null
      /\ delta[k].op \in {"U", "D"} => snap[k] # Null
  BY DEF SnapshotInv, Fits
<1>2. Seen(k) = snap[k]
  BY DEF Seen
<1>3. k \in FreeKeys => Fits(Stored(ClaimOp(k), v), k)
  BY <1>1, <1>2 DEF FreeKeys, FromDelta, FromBase, ClaimOp, Stored, Fits
<1>4. k \notin FreeKeys => Fits(Stored(UpdatedOp(k), v), k) /\ Fits(Vacated(k), k)
  BY <1>1, <1>2 DEF FreeKeys, FromDelta, FromBase, UpdatedOp, Vacated, NoRow, Stored, Fits
<1> QED  BY <1>3, <1>4

\* A write that fits the snapshot and leaves unique values preserves SnapshotInv.
LEMMA WriteKeepsSnapshotInv ==
    ASSUME SnapshotInv, kind # "overlay", NEW after, Write(after),
           \A k \in Key : Fits(after[k], k), UniqueShown(after)
    PROVE  SnapshotInv'
BY DEF Write, SnapshotInv, Fits, UniqueValues, UniqueShown, Own, Replaced, Seen

\* A delete leaves no duplicate: what it uncovers is nothing.
LEMMA DeleteKeepsUnique ==
    ASSUME TypeOK, SnapshotInv, kind # "overlay", NEW k \in Key, NEW row \in {Stored("D", Null), NoRow},
           row = NoRow => snap[k] = Null
    PROVE  UniqueShown([delta EXCEPT ![k] = row])
<1> DEFINE after == [delta EXCEPT ![k] = row]
<1>1. after[k] = row /\ \A j \in Key \ {k} : after[j] = delta[j]
  BY DEF TypeOK
<1>2. row.op \in {"D", "none"}
  BY DEF Stored, NoRow
<1> HIDE DEF after
<1>3. Own(after) \subseteq Own(delta) /\ \A j \in Own(after) : after[j] = delta[j]
  BY <1>1, <1>2 DEF Own
<1>4. \A j \in Key \ Replaced(after) : Seen(j) # Null => j \in Key \ Replaced(delta)
  <2> SUFFICES ASSUME NEW j \in Key \ Replaced(after), Seen(j) # Null, j \in Replaced(delta)
               PROVE  FALSE
    OBVIOUS
  <2>1. j = k /\ row.op = "none"
    BY <1>1, <1>2 DEF Replaced
  <2>2. row = NoRow
    BY <2>1 DEF Stored
  <2> QED  BY <2>1, <2>2 DEF Seen
<1>5. UniqueShown(delta)
  BY DEF SnapshotInv
<1> QED  BY <1>3, <1>4, <1>5 DEF UniqueShown, after

\* SnapshotInv holds of every reachable state: the ops of the delta stay true
\* of the creation snapshot, and what the scenario shows stays unique.
THEOREM SnapshotInvariant == Spec => []SnapshotInv
<1>1. Init => SnapshotInv
  BY DEF Init, SnapshotInv, Fits, NoRow, UniqueValues, UniqueShown, Own, Replaced, Seen
<1>2. TypeOK /\ SnapshotInv /\ [Next]_vars => SnapshotInv'
  <2> SUFFICES ASSUME TypeOK, SnapshotInv, [Next]_vars, kind' # "overlay"
               PROVE  SnapshotInv'
    BY DEF SnapshotInv
  <2>1. kind' = kind
    BY DEF Next, BaseCommit, Insert, Update, Delete, DeleteOwn, Write, Merge, vars
  <2>2. ASSUME NEW k \in Key, NEW v \in Val \cup {Null}, BaseCommit(k, v)
        PROVE  SnapshotInv'
    BY <2>1, <2>2 DEF BaseCommit, SnapshotInv, Fits, UniqueValues, UniqueShown, Own, Replaced, Seen
  <2>3. ASSUME NEW new \in InsertChunks, Insert(new)
        PROVE  SnapshotInv'
    <3>1. UniqueShown(AfterInsert(new)) /\ Write(AfterInsert(new))
      BY <2>1, <2>3, InsertProbe DEF Insert, SnapshotInv
    <3>2. ASSUME NEW k \in Key
          PROVE  Fits(AfterInsert(new)[k], k)
      <4>1. CASE k \in DOMAIN new
        BY <2>1, <4>1, AfterInsertRows, OpsFit
      <4>2. CASE k \notin DOMAIN new
        BY <2>1, <4>2, AfterInsertRows DEF SnapshotInv
      <4> QED  BY <4>1, <4>2
    <3> QED  BY <2>1, <3>1, <3>2, WriteKeepsSnapshotInv
  <2>4. ASSUME NEW post \in UpdateChunks, Update(post)
        PROVE  SnapshotInv'
    <3>1. UniqueShown(AfterUpdate(post)) /\ Write(AfterUpdate(post))
      BY <2>1, <2>4, UpdateProbe DEF Update, SnapshotInv
    <3>2. ASSUME NEW k \in Key
          PROVE  Fits(AfterUpdate(post)[k], k)
      <4>1. CASE \E j \in DOMAIN post : k = post[j].key
        <5>1. PICK j \in DOMAIN post : k = post[j].key
          BY <4>1
        <5>2. /\ j \in Key \ FreeKeys
              /\ k \in {j} \cup FreeKeys
              /\ AfterUpdate(post)[k] = Stored(IF k = j THEN UpdatedOp(j) ELSE ClaimOp(k), post[j].val)
          BY <5>1, AfterUpdateRows
        <5>3. CASE k = j
          BY <2>1, <5>2, <5>3, OpsFit
        <5>4. CASE k # j
          BY <2>1, <5>2, <5>4, OpsFit
        <5> QED  BY <5>3, <5>4
      <4>2. CASE k \in DOMAIN post /\ post[k].key # k
        <5>1. k \notin FreeKeys /\ AfterUpdate(post)[k] = Vacated(k)
          BY <4>2, AfterUpdateRows
        <5> QED  BY <2>1, <5>1, OpsFit
      <4>3. CASE \A j \in DOMAIN post : k # j /\ k # post[j].key
        BY <2>1, <4>3, AfterUpdateRows DEF SnapshotInv
      <4> QED  BY <4>1, <4>2, <4>3
    <3> QED  BY <2>1, <3>1, <3>2, WriteKeepsSnapshotInv
  <2>5. ASSUME NEW k \in Key, Delete(k) \/ DeleteOwn(k)
        PROVE  SnapshotInv'
    <3>1. delta[k].op = "I" => ~FromBase(k)
      BY <2>1 DEF SnapshotInv, Fits, FromBase, Seen
    <3> DEFINE row == IF delta[k].op = "U" \/ FromBase(k) THEN Stored("D", Null) ELSE NoRow
    <3>2. Write([delta EXCEPT ![k] = row]) /\ (FromDelta(k) \/ FromBase(k))
      BY <2>5, <3>1 DEF Delete, DeleteOwn
    <3>3. row \in {Stored("D", Null), NoRow}
      OBVIOUS
    <3>4. row = NoRow => snap[k] = Null
      BY <2>1, <3>2 DEF Stored, NoRow, SnapshotInv, Fits, FromBase, FromDelta, Seen
    <3>5. Fits(row, k)
      BY <2>1, <3>4 DEF Stored, NoRow, SnapshotInv, Fits, FromBase, Seen
    <3> HIDE DEF row
    <3>6. \A j \in Key : Fits([delta EXCEPT ![k] = row][j], j)
      BY <2>1, <3>5 DEF SnapshotInv, TypeOK
    <3> QED  BY <2>1, <3>2, <3>3, <3>4, <3>6, DeleteKeepsUnique, WriteKeepsSnapshotInv
  <2>6. ASSUME NEW policy \in Policies, Merge(policy)
        PROVE  SnapshotInv'
    BY <2>1, <2>6 DEF Merge, SnapshotInv, Fits, NoRow, UniqueValues, UniqueShown, Own, Replaced, Seen
  <2>7. CASE UNCHANGED vars
    BY <2>7 DEF vars, SnapshotInv, Fits, UniqueValues, UniqueShown, Own, Replaced, Seen
  <2> QED  BY <2>2, <2>3, <2>4, <2>5, <2>6, <2>7 DEF Next
<1> QED  BY <1>1, <1>2, TypeCorrect, PTL DEF Spec

\* A scenario with a snapshot shows a value under one key.
LEMMA ShownIsUnique ==
    ASSUME TypeOK, SnapshotInv, kind # "overlay", NEW j \in Key, NEW k \in Own(delta), j # k
    PROVE  Shown(j) # delta[k].val
<1>1. UniqueShown(delta) /\ k \in Key
  BY DEF SnapshotInv, Own
<1>2. delta[k].val # Null
  BY OwnValues DEF TypeOK
<1> QED  BY <1>1, <1>2 DEF UniqueShown, Own, Replaced, Shown, FromDelta, FromBase

-----------------------------------------------------------------------------
(* The diff.                                                               *)

LEMMA KeysOfMain == Keys(MainRows) = {k \in Key : main[k] # Null}
<1>1. \A r \in MainRows : r[1] \in Key /\ main[r[1]] # Null
  BY DEF MainRows
<1>2. ASSUME NEW k \in Key, main[k] # Null
      PROVE  \E r \in MainRows : r[1] = k
  <2>1. <<k, main[k]>> \in MainRows
    BY <1>2 DEF MainRows
  <2> QED  BY <2>1
<1> QED  BY <1>1, <1>2 DEF Keys

\* The relation the diff rebuilds in SQL has the keys the scenario shows.
LEMMA KeysOfMerged ==
    ASSUME TypeOK
    PROVE  Keys(MergedRows) = {k \in Key : Shown(k) # Null}
<1>1. \A k \in Own(delta) : k \in Key /\ FromDelta(k) /\ Shown(k) # Null
  BY OwnValues DEF TypeOK, Own, FromDelta, Shown
<1>2. \A k \in Key \ Replaced(delta) : Seen(k) # Null => FromBase(k) /\ (FromDelta(k) => k \in Own(delta))
  BY DEF Replaced, FromBase, FromDelta, Own
<1>3. \A k \in Key : Shown(k) # Null =>
        \/ k \in Own(delta)
        \/ k \in Key \ Replaced(delta) /\ Seen(k) # Null
  BY DEF Shown, FromDelta, FromBase, Own, Replaced
<1>4. ASSUME NEW r \in MergedRows
      PROVE  r[1] \in Key /\ Shown(r[1]) # Null
  BY <1>1, <1>2 DEF MergedRows, Shown
<1>5. ASSUME NEW k \in Key, Shown(k) # Null
      PROVE  \E r \in MergedRows : r[1] = k
  <2>1. CASE k \in Own(delta)
    <3>1. <<k, delta[k].val>> \in MergedRows
      BY <2>1 DEF MergedRows
    <3> QED  BY <3>1
  <2>2. CASE k \in Key \ Replaced(delta) /\ Seen(k) # Null
    <3>1. <<k, Seen(k)>> \in MergedRows
      BY <2>2 DEF MergedRows
    <3> QED  BY <3>1
  <2> QED  BY <1>3, <1>5, <2>1, <2>2
<1> QED  BY <1>4, <1>5 DEF Keys

\* A row of a key the base has as well is the row the scenario shows, or the
\* base row itself behind it.
LEMMA MergedRowIsShown ==
    ASSUME TypeOK, SnapshotInv, NEW r \in MergedRows
    PROVE  r[2] = Shown(r[1]) \/ r[2] = main[r[1]]
<1>1. CASE \E k \in Own(delta) : r = <<k, delta[k].val>>
  BY <1>1 DEF Own, Shown, FromDelta
<1>2. CASE \E k \in Key \ Replaced(delta) : Seen(k) # Null /\ r = <<k, Seen(k)>>
  <2>1. PICK k \in Key \ Replaced(delta) : Seen(k) # Null /\ r = <<k, Seen(k)>>
    BY <1>2
  <2>2. CASE FromDelta(k)
    <3>1. delta[k].op = "I"
      BY <2>1, <2>2 DEF FromDelta, Replaced
    <3> QED  BY <2>1, <3>1 DEF SnapshotInv, Fits, Seen
  <2>3. CASE ~FromDelta(k)
    BY <2>1, <2>3 DEF Shown, FromBase, Replaced
  <2> QED  BY <2>2, <2>3
<1> QED  BY <1>1, <1>2 DEF MergedRows

\* What the scenario shows of a key is one of the rows.
LEMMA ShownIsMerged ==
    ASSUME NEW k \in Key, Shown(k) # Null
    PROVE  <<k, Shown(k)>> \in MergedRows
BY DEF MergedRows, Shown, FromDelta, FromBase, Own, Replaced

LEMMA DiffOfMain ==
    ASSUME TypeOK, SnapshotInv
    PROVE  DiffSides(MainRows, MergedRows) = Change(main, [k \in Key |-> Shown(k)])
<1> DEFINE shown == [k \in Key |-> Shown(k)]
           pairs == {q \in MainRows \X MergedRows : q[1][1] = q[2][1] /\ q[1][2] # q[2][2]}
           modified == {DiffRow(p[1][1], "modified", p[1][2], p[2][2]) : p \in pairs}
           keys == {j \in Key : main[j] # Null /\ shown[j] # Null /\ main[j] # shown[j]}
<1>1. ASSUME NEW p \in pairs
      PROVE  p[1][1] \in keys /\ p[1][2] = main[p[1][1]] /\ p[2][2] = shown[p[1][1]]
  <2>1. /\ p[1] \in MainRows /\ p[2] \in MergedRows
        /\ p[1][1] = p[2][1] /\ p[1][2] # p[2][2]
    OBVIOUS
  <2>2. p[1][1] \in Key /\ main[p[1][1]] # Null /\ p[1][2] = main[p[1][1]]
    BY <2>1 DEF MainRows
  <2>3. p[2][2] = Shown(p[1][1])
    BY <2>1, <2>2, MergedRowIsShown
  <2>4. p[2][1] \in Keys(MergedRows)
    BY <2>1 DEF Keys
  <2>5. Shown(p[1][1]) # Null
    BY <2>1, <2>4, KeysOfMerged
  <2> QED  BY <2>1, <2>2, <2>3, <2>5
<1>2. ASSUME NEW k \in keys
      PROVE  <<<<k, main[k]>>, <<k, shown[k]>>>> \in pairs
  <2>1. <<k, main[k]>> \in MainRows /\ <<k, shown[k]>> \in MergedRows
    BY <1>2, ShownIsMerged DEF MainRows
  <2> QED  BY <1>2, <2>1
<1>3. modified = {DiffRow(k, "modified", main[k], shown[k]) : k \in keys}
  <2>1. ASSUME NEW p \in pairs
        PROVE  DiffRow(p[1][1], "modified", p[1][2], p[2][2]) \in
                   {DiffRow(k, "modified", main[k], shown[k]) : k \in keys}
    BY <1>1, <2>1
  <2>2. ASSUME NEW k \in keys
        PROVE  DiffRow(k, "modified", main[k], shown[k]) \in modified
    <3> DEFINE p == <<<<k, main[k]>>, <<k, shown[k]>>>>
    <3>1. p \in pairs
      BY <1>2
    <3>2. p[1][1] = k /\ p[1][2] = main[k] /\ p[2][2] = shown[k]
      OBVIOUS
    <3> HIDE DEF p, pairs, keys, shown
    <3> QED  BY <3>1, <3>2
  <2> QED  BY <2>1, <2>2
<1>4. Keys(MergedRows) \ Keys(MainRows) = {j \in Key : main[j] = Null /\ shown[j] # Null}
  BY KeysOfMain, KeysOfMerged
<1>5. Keys(MainRows) \ Keys(MergedRows) = {j \in Key : main[j] # Null /\ shown[j] = Null}
  BY KeysOfMain, KeysOfMerged
<1> QED  BY <1>3, <1>4, <1>5 DEF DiffSides, Change

\* Over a fixed base the ops of the delta tell what became of each key.
LEMMA DiffOfOrigin ==
    ASSUME TypeOK, SnapshotInv, kind # "overlay"
    PROVE  Diff = Change(snap, [k \in Key |-> Shown(k)])
<1> DEFINE shown == [k \in Key |-> Shown(k)]
<1>1. \A k \in Key : Seen(k) = snap[k]
  BY DEF Seen
<1>2. \A k \in Key :  /\ delta[k].op = "I" <=> snap[k] = Null /\ shown[k] # Null
                      /\ delta[k].op = "D" <=> snap[k] # Null /\ shown[k] = Null
                      /\ delta[k].op = "U" => snap[k] # Null /\ shown[k] = delta[k].val /\ shown[k] # Null
                      /\ snap[k] # Null /\ shown[k] # Null /\ snap[k] # shown[k] => delta[k].op = "U"
  <2> SUFFICES ASSUME NEW k \in Key
               PROVE  /\ delta[k].op = "I" <=> snap[k] = Null /\ shown[k] # Null
                      /\ delta[k].op = "D" <=> snap[k] # Null /\ shown[k] = Null
                      /\ delta[k].op = "U" => snap[k] # Null /\ shown[k] = delta[k].val /\ shown[k] # Null
                      /\ snap[k] # Null /\ shown[k] # Null /\ snap[k] # shown[k] => delta[k].op = "U"
    OBVIOUS
  <2>1. shown[k] = Shown(k) /\ Seen(k) = snap[k]
    BY <1>1
  <2>2. /\ delta[k].op = "I" => snap[k] = Null
        /\ delta[k].op \in {"U", "D"} => snap[k] # Null
    BY DEF SnapshotInv, Fits
  <2>3. delta[k].op \in {"I", "U"} => delta[k].val # Null
    BY OwnValues DEF TypeOK, Own
  <2>4. delta[k].op \in {"none", "I", "U", "D"}
    BY DEF TypeOK, DeltaRow
  <2> QED  BY <2>1, <2>2, <2>3, <2>4 DEF Shown, FromDelta, FromBase
<1> HIDE DEF shown
<1> DEFINE op(k) == delta[k].op
           change(k) == IF op(k) = "I" THEN "added" ELSE "removed"
<1>3. {DiffRow(k, change(k), Null, Null) : k \in {j \in Key : op(j) \in {"I", "D"}}} =
        {DiffRow(k, "added", Null, Null) : k \in {j \in Key : op(j) = "I"}}
        \cup {DiffRow(k, "removed", Null, Null) : k \in {j \in Key : op(j) = "D"}}
  <2> HIDE DEF op
  <2> QED  OBVIOUS
<1>4. {j \in Key : op(j) = "I"} = {j \in Key : snap[j] = Null /\ shown[j] # Null}
  BY <1>2
<1>5. {j \in Key : op(j) = "D"} = {j \in Key : snap[j] # Null /\ shown[j] = Null}
  BY <1>2
<1> DEFINE updated == {j \in Key : op(j) = "U" /\ Seen(j) # Null /\ Seen(j) # delta[j].val}
<1>6. updated = {j \in Key : snap[j] # Null /\ shown[j] # Null /\ snap[j] # shown[j]}
  BY <1>1, <1>2
<1>7. \A k \in updated : Seen(k) = snap[k] /\ delta[k].val = shown[k]
  BY <1>1, <1>2
<1>8. {DiffRow(k, "modified", Seen(k), delta[k].val) : k \in updated} =
        {DiffRow(k, "modified", snap[k], shown[k]) : k \in updated}
  <2> HIDE DEF updated
  <2> QED  BY <1>7
<1>9. Diff = {DiffRow(k, change(k), Null, Null) : k \in {j \in Key : op(j) \in {"I", "D"}}}
             \cup {DiffRow(k, "modified", Seen(k), delta[k].val) : k \in updated}
  BY DEF Diff
<1>10. Change(snap, shown) =
         {DiffRow(k, "added", Null, Null) : k \in {j \in Key : snap[j] = Null /\ shown[j] # Null}}
         \cup {DiffRow(k, "removed", Null, Null) : k \in {j \in Key : snap[j] # Null /\ shown[j] = Null}}
         \cup {DiffRow(k, "modified", snap[k], shown[k]) :
                  k \in {j \in Key : snap[j] # Null /\ shown[j] # Null /\ snap[j] # shown[j]}}
  BY DEF Change
<1> HIDE DEF op, change, updated
<1>11. Diff = Change(snap, shown)
  BY <1>3, <1>4, <1>5, <1>6, <1>8, <1>9, <1>10
<1> QED  BY <1>11 DEF shown

\* The two ways to ask for the changes of a scenario tell the change itself.
THEOREM DiffTellsTheChange == Spec => []DiffShowsTheChange
<1>1. TypeOK /\ SnapshotInv => DiffShowsTheChange
  BY DiffOfMain, DiffOfOrigin DEF DiffShowsTheChange
<1> QED  BY <1>1, TypeCorrect, SnapshotInvariant, PTL

-----------------------------------------------------------------------------
(* The merge.                                                              *)

\* A merge with "abort" or "theirs" applies no row in conflict.
LEMMA AppliedIsUncontested ==
    ASSUME NEW policy \in {"abort", "theirs"}, Merge(policy), NEW k \in Applied(policy)
    PROVE  k \in Touched /\ ~Conflict(k)
BY DEF Merge, Applied

\* No base change is lost: under "abort" and "theirs" a materialized scenario
\* only changes base rows that are as they were at its creation.
THEOREM MergeLosesNoBaseChange == Spec => NoBaseChangeLost
<1>1. TypeOK /\ SnapshotInv /\ [Next]_vars =>
        [\A policy \in {"abort", "theirs"} :
           Merge(policy) /\ kind = "materialized" =>
               \A k \in Key : main'[k] # main[k] => main[k] = snap[k]]_vars
  <2> SUFFICES ASSUME TypeOK, SnapshotInv,
                      NEW policy \in {"abort", "theirs"}, Merge(policy), kind = "materialized",
                      NEW k \in Key, main'[k] # main[k]
               PROVE  main[k] = snap[k]
    OBVIOUS
  <2>1. main'[k] = IF k \in Appended(policy) THEN delta[k].val
                   ELSE IF k \in Deleted(policy) THEN Null ELSE main[k]
    BY DEF Merge, Result
  <2>2. k \in Applied(policy)
    BY <2>1 DEF Appended, Deleted
  <2>3. k \in Touched /\ ~Conflict(k)
    BY <2>2, AppliedIsUncontested
  <2>4. /\ delta[k].op = "I" => snap[k] = Null /\ main[k] = Null
        /\ delta[k].op = "U" => snap[k] # Null /\ main[k] # Null
    BY <2>3 DEF SnapshotInv, Fits, Touched, Conflict, InBase
  <2>5. delta[k].op = "D" => snap[k] # Null /\ main[k] # Null
    BY <2>1, <2>3 DEF SnapshotInv, Fits, Appended, Deleted, InBase
  <2>6. InBase(k) /\ snap[k] # Null => main[k] = snap[k]
    BY <2>3 DEF Conflict, Drift
  <2>7. delta[k].op \in {"I", "U", "D"}
    BY <2>3 DEF Touched, TypeOK, DeltaRow
  <2> QED  BY <2>4, <2>5, <2>6, <2>7 DEF InBase
<1> QED  BY <1>1, TypeCorrect, SnapshotInvariant, PTL DEF Spec, NoBaseChangeLost

\* Where every touched row is applied, the merge leaves what the scenario
\* showed for it.
LEMMA ResultIsShown ==
    ASSUME TypeOK, NEW policy \in {"abort", "ours"}, NEW k \in Key,
           k \notin Touched => main[k] = Shown(k)
    PROVE  Result(policy)[k] = Shown(k)
<1>1. k \in Applied(policy) <=> k \in Touched
  BY DEF Applied
<1>2. CASE k \notin Touched
  BY <1>1, <1>2 DEF Result, Appended, Deleted
<1>3. CASE delta[k].op \in {"I", "U"}
  BY <1>1, <1>3 DEF Touched, Result, Appended, Shown, FromDelta
<1>4. CASE delta[k].op = "D"
  BY <1>1, <1>4 DEF Touched, Result, Appended, Deleted, InBase, Shown, FromDelta, FromBase
<1> QED  BY <1>2, <1>3, <1>4 DEF Touched, TypeOK, DeltaRow

\* The scenario wins under "abort" and "ours"; an overlay scenario's base
\* becomes the table the scenario showed.
THEOREM MergeMakesTheBaseTheScenario == Spec => ScenarioWins
<1>1. TypeOK /\ [Next]_vars =>
        [\A policy \in {"abort", "ours"} :
           Merge(policy) => \A k \in Key : kind = "overlay" \/ Shown(k) # Seen(k) => main'[k] = Shown(k)]_vars
  <2> SUFFICES ASSUME TypeOK, NEW policy \in {"abort", "ours"}, Merge(policy),
                      NEW k \in Key, kind = "overlay" \/ Shown(k) # Seen(k)
               PROVE  main'[k] = Shown(k)
    OBVIOUS
  <2>1. k \notin Touched => Shown(k) = Seen(k)
    BY DEF Touched, Shown, FromDelta, FromBase
  <2>2. k \notin Touched => main[k] = Shown(k)
    BY <2>1 DEF Seen
  <2>3. main' = Result(policy)
    BY DEF Merge
  <2> QED  BY <2>2, <2>3, ResultIsShown
<1> QED  BY <1>1, TypeCorrect, PTL DEF Spec, ScenarioWins

\* A base as it was at the scenario's creation accepts the merge, values that
\* moved between rows included.
THEOREM MergeOfUnchangedBaseIsAccepted == Spec => []UnchangedBaseAccepts
<1>1. TypeOK /\ SnapshotInv => UnchangedBaseAccepts
  <2> SUFFICES ASSUME TypeOK, SnapshotInv, kind # "overlay", main = snap
               PROVE  /\ \A k \in Touched : ~Conflict(k)
                      /\ AppendAccepted("abort")
    BY DEF UnchangedBaseAccepts
  <2>1. ASSUME NEW k \in Touched
        PROVE  ~Conflict(k)
    BY <2>1 DEF Touched, SnapshotInv, Fits, Conflict, InBase, Drift
  <2>2. ASSUME NEW k \in Key
        PROVE  Result("abort")[k] = Shown(k)
    <3>1. k \notin Touched => main[k] = Shown(k)
      BY <2>2 DEF Touched, Shown, FromDelta, FromBase, Seen
    <3> QED  BY <3>1, ResultIsShown
  <2>3. ASSUME NEW k \in Appended("abort"), NEW j \in Key, j # k
        PROVE  Result("abort")[j] # delta[k].val
    <3>1. k \in Own(delta)
      BY <2>3 DEF Appended, Applied, Touched, Own
    <3> QED  BY <2>2, <2>3, <3>1, ShownIsUnique
  <2> QED  BY <2>1, <2>3 DEF AppendAccepted
<1> QED  BY <1>1, TypeCorrect, SnapshotInvariant, PTL

\* The preview's SQL and the merge's classification agree on every row.
THEOREM PreviewAnnouncesTheMerge == Spec => []PreviewIsThePlan
<1>1. TypeOK => PreviewIsThePlan
  <2> SUFFICES ASSUME TypeOK, NEW k \in Touched
               PROVE  PreviewConflict(k) <=> Conflict(k)
    BY DEF PreviewIsThePlan
  <2>1. k \in Key /\ delta[k].op \in {"I", "U", "D"}
    BY DEF Touched, TypeOK, DeltaRow
  <2> QED  BY <2>1 DEF PreviewConflict, PreviewAction, PreviewDrift, Conflict, Drift, InBase
<1> QED  BY <1>1, TypeCorrect, PTL

-----------------------------------------------------------------------------
(* The two merges side by side.                                            *)

allVars == <<vars, target, lakeVars>>

\* Once the lake, always the lake: each step is one of the merge into it.
LEMMA LakeStays ==
    target = "lake" /\ [MCNext]_allVars => (target = "lake")' /\ [Lake!Next]_(Lake!vars)
<1> SUFFICES ASSUME target = "lake", [MCNext]_allVars
             PROVE  target' = "lake" /\ [Lake!Next]_(Lake!vars)
  OBVIOUS
<1>1. CASE UNCHANGED allVars
  BY <1>1 DEF allVars, lakeVars, Lake!vars
<1>2. CASE MCNext
  <2>1. ~OnlyHost
    BY DEF OnlyHost
  <2>2. OnlyLake /\ Lake!Next
    BY <1>2, <2>1, Zenon DEF MCNext, Lake!Next
  <2> QED BY <2>2 DEF OnlyLake
<1> QED BY <1>1, <1>2

LEMMA LakeRunsAlone == MCSpec /\ target = "lake" => Lake!Spec /\ [](target = "lake")
<1>1. MCInit => Lake!Init
  BY DEF MCInit
<1> QED BY <1>1, LakeStays, PTL DEF MCSpec, Lake!Spec, allVars

\* A merge into the host leaves the lake as it is.
LEMMA HostStays == ~(target = "lake") /\ [MCNext]_allVars => ~(target = "lake")' /\ UNCHANGED Lake!vars
<1> SUFFICES ASSUME ~(target = "lake"), [MCNext]_allVars
             PROVE  ~(target' = "lake") /\ UNCHANGED Lake!vars
  OBVIOUS
<1>1. CASE UNCHANGED allVars
  BY <1>1 DEF allVars, lakeVars, Lake!vars
<1>2. CASE MCNext
  <2>1. OnlyHost
    BY <1>2, Zenon DEF MCNext, OnlyLake
  <2> QED BY <2>1 DEF OnlyHost, lakeVars, Lake!vars
<1> QED BY <1>1, <1>2

\* AppliedOnce: one caller that retries a merge into a lake with tags applies a
\* row at most once, whatever failed in between.
THEOREM RetriedMergesApplyOnce ==
    ASSUME Lake!OneMerger, Tagged
    PROVE  MCSpec => []AppliedOnce
<1>1. Lake!AppliedOnce => AppliedOnce
  BY DEF AppliedOnce
<1>2. ~(target = "lake") => AppliedOnce
  BY DEF AppliedOnce
<1>3. Lake!Spec => []Lake!AppliedOnce
  BY Lake!LakeAppliesOnce, LakeAssumption, PTL DEF Lake!LakeAssumption
<1> QED BY <1>1, <1>2, <1>3, LakeRunsAlone, HostStays, PTL DEF MCSpec, allVars

\* NothingDiscarded: under the same conditions the bookkeeping removes from the
\* delta only rows that the lake holds.
THEOREM RetriedMergesDiscardNothing ==
    ASSUME Lake!OneMerger, Tagged
    PROVE  MCSpec => NothingDiscarded
<1>1. Lake!Spec => Lake!NothingDiscarded
  BY Lake!CloseDiscardsNothing, LakeAssumption, PTL DEF Lake!LakeAssumption
<1> QED BY <1>1, LakeRunsAlone, HostStays, PTL DEF MCSpec, allVars, NothingDiscarded, Lake!NothingDiscarded
=============================================================================
