-------------------------- MODULE ScenarioDmlProofs --------------------------
(***************************************************************************)
(* Theorems about ScenarioDml, for every set of keys and values, every     *)
(* statement length, and every base: the delta is canonical and the merged *)
(* view shows a key once; what the sinks buffer is sound, the delta's own  *)
(* index accepts it, a statement has exactly its effect, and the scenario  *)
(* table is an ordinary table.                                             *)
(***************************************************************************)
EXTENDS ScenarioDml, TLAPS

-----------------------------------------------------------------------------
(* Helpers.                                                                *)

\* A batch of source rows is drawn from its set.
LEMMA BatchesAreSubsets ==
    ASSUME NEW S, NEW n, NEW rows \in Batches(S, n)
    PROVE  rows \subseteq S
<1>1. PICK f \in [1..n -> S] : rows = {f[i] : i \in 1..n}
  BY DEF Batches
<1>2. \A i \in 1..n : f[i] \in S
  OBVIOUS
<1> QED  BY <1>1, <1>2

\* Every row the scan emits carries a key of the table and its origin.
LEMMA ViewRows ==
    ASSUME NEW b, NEW d, NEW row \in View(b, d)
    PROVE  /\ row.key \in Key
           /\ row.origin \in {0, 1}
           /\ row.origin = 0 => b[row.key] # Null
BY DEF View

\* The rows fed to a statement: new ones, or rows the scan emits.
LEMMA InsertSourceType ==
    ASSUME NEW repeats \in BOOLEAN
    PROVE  /\ InsertSource(repeats) \subseteq Source
           /\ \A r \in InsertSource(repeats) : r.origin = 0 => base[r.key] # Null
BY DEF InsertSource, Source, Sinks, Copies

LEMMA UpdateSourceType ==
    ASSUME NEW repeats \in BOOLEAN, NEW moves \in BOOLEAN
    PROVE  /\ UpdateSource(repeats, moves) \subseteq Source
           /\ \A r \in UpdateSource(repeats, moves) : r.origin = 0 => base[r.key] # Null
BY ViewRows DEF UpdateSource, Source, Sinks, Copies

LEMMA DeleteSourceType ==
    ASSUME NEW repeats \in BOOLEAN
    PROVE  /\ DeleteSource(repeats) \subseteq Source
           /\ \A r \in DeleteSource(repeats) : r.origin = 0 => base[r.key] # Null
BY ViewRows DEF DeleteSource, Source, Sinks, Copies

LEMMA MergeSourceType ==
    /\ MergeSource \subseteq Source
    /\ \A r \in MergeSource : r.origin = 0 => base[r.key] # Null
<1>1. TRUE \in BOOLEAN
  OBVIOUS
<1> QED  BY <1>1, InsertSourceType, UpdateSourceType, DeleteSourceType DEF MergeSource

\* Every statement starts with rows of the right shape, its base rows taken
\* from the base, in the state its Begin action describes.
LEMMA BeginStarts ==
    ASSUME BeginInsert \/ BeginUpdate \/ BeginDelete \/ BeginMerge
    PROVE  \E v \in {"MERGE"} \cup Sinks, s \in Sinks, rows \in SUBSET Source,
              repeats, track \in BOOLEAN :
               /\ \A r \in rows : r.origin = 0 => base[r.key] # Null
               /\ Start(v, s, rows, repeats, track)
<1>0. TRUE \in BOOLEAN /\ FALSE \in BOOLEAN /\ {"INSERT", "UPDATE", "DELETE"} = Sinks
  BY DEF Sinks
<1>1. CASE BeginInsert
  <2>1. PICK rows \in Batches(InsertSource(TRUE), MaxRows) :
          Start("INSERT", "INSERT", rows, FALSE, FALSE)
    BY <1>1 DEF BeginInsert
  <2>2. rows \subseteq InsertSource(TRUE)
    BY BatchesAreSubsets
  <2> QED  BY <1>0, <2>1, <2>2, InsertSourceType
<1>2. CASE BeginUpdate
  <2>1. PICK repeats \in BOOLEAN, moves \in BOOLEAN :
          \E rows \in Batches(UpdateSource(repeats, moves), MaxRows) :
              Start("UPDATE", "UPDATE", rows, repeats, repeats \/ moves)
    BY <1>2 DEF BeginUpdate
  <2>2. PICK rows \in Batches(UpdateSource(repeats, moves), MaxRows) :
          Start("UPDATE", "UPDATE", rows, repeats, repeats \/ moves)
    BY <2>1
  <2>3. rows \subseteq UpdateSource(repeats, moves)
    BY BatchesAreSubsets
  <2>4. (repeats \/ moves) \in BOOLEAN
    OBVIOUS
  <2> QED  BY <1>0, <2>2, <2>3, <2>4, UpdateSourceType
<1>3. CASE BeginDelete
  <2>1. PICK repeats \in BOOLEAN :
          \E rows \in Batches(DeleteSource(repeats), MaxRows) :
              Start("DELETE", "DELETE", rows, repeats, repeats)
    BY <1>3 DEF BeginDelete
  <2>2. PICK rows \in Batches(DeleteSource(repeats), MaxRows) :
          Start("DELETE", "DELETE", rows, repeats, repeats)
    BY <2>1
  <2>3. rows \subseteq DeleteSource(repeats)
    BY BatchesAreSubsets
  <2> QED  BY <1>0, <2>2, <2>3, DeleteSourceType
<1>4. CASE BeginMerge
  <2>1. PICK rows \in Batches(MergeSource, MergeRows) :
          Start("MERGE", "INSERT", rows, TRUE, TRUE)
    BY <1>4 DEF BeginMerge
  <2>2. rows \subseteq MergeSource
    BY BatchesAreSubsets
  <2> QED  BY <1>0, <2>1, <2>2, MergeSourceType
<1> QED  BY <1>1, <1>2, <1>3, <1>4

\* What a statement knows of a key is an op or the absence of a row.
LEMMA KnownType ==
    ASSUME TypeOK, NEW s \in Sinks, NEW k \in Key
    PROVE  /\ Known(s, k).op \in Ops \cup {"none"}
           /\ Known(s, k).pending \in BOOLEAN
<1>1. delta[k] \in DeltaRow /\ keys[s][k] \in KeyInfo
  BY DEF TypeOK
<1>2. CASE keys[s][k].op = "unread"
  BY <1>1, <1>2 DEF Known, DeltaRow
<1>3. CASE keys[s][k].op # "unread"
  BY <1>1, <1>3 DEF Known, KeyInfo
<1> QED  BY <1>2, <1>3

\* A source row of the running statement has the fields of a source row.
LEMMA SourceFields ==
    ASSUME TypeOK, NEW r \in todo
    PROVE  /\ r \in Source
           /\ r.by \in Sinks
           /\ r.key \in Key
           /\ r.newKey \in Key
           /\ r.origin \in {0, 1}
           /\ r.newVal \in Val \cup {Null}
BY DEF TypeOK, Source

\* The rows appended and removed by one sink step have their types.
LEMMA AddTypes ==
    ASSUME NEW k \in Key, NEW v \in Val \cup {Null}, NEW o \in Ops
    PROVE  Append(k, o, v) \in AddRow
BY DEF Append, AddRow

LEMMA SinkTypes ==
    ASSUME TypeOK, NEW r \in todo
    PROVE  /\ ClaimOp(r) \in Ops
           /\ ClaimRefs(r) \subseteq RowRef
           /\ SupersededRefs(r) \subseteq RowRef
           /\ VacatedAdds(r) \subseteq AddRow
           /\ VacatedInfo(r) \in KeyInfo
           /\ ~LostRow(r) => InPlaceOp(r) \in Ops
<1>1. r.key \in Key /\ r.newKey \in Key /\ r.origin \in {0, 1} /\ r.by \in Sinks
  BY SourceFields
<1>2. \A k \in Key : RowOf(r.by, k) \in RowRef
  BY <1>1, KnownType DEF RowOf, RowRef
<1>3. Tombstone(r.key) \in AddRow
  BY <1>1, AddTypes DEF Tombstone, Ops
<1>4. ClaimOp(r) \in Ops
  BY DEF ClaimOp, Ops
<1>5. ClaimRefs(r) \subseteq RowRef /\ SupersededRefs(r) \subseteq RowRef
  BY <1>1, <1>2 DEF ClaimRefs, SupersededRefs
<1>6. VacatedAdds(r) \subseteq AddRow
  BY <1>3 DEF VacatedAdds
<1>7. VacatedInfo(r) \in KeyInfo
  <2>1. LeavesTombstone(r) \in BOOLEAN
    BY DEF LeavesTombstone
  <2> QED  BY <2>1 DEF VacatedInfo, KeyInfo, Ops
<1>8. ~LostRow(r) => InPlaceOp(r) \in Ops
  BY <1>1, KnownType DEF LostRow, InPlaceOp, Ops
<1> QED  BY <1>4, <1>5, <1>6, <1>7, <1>8

\* What a statement learns of a key keeps the key map's type.
LEMMA LearnType ==
    ASSUME TypeOK, NEW s \in Sinks, NEW k \in Key, NEW o \in Ops
    PROVE  Learn(s, k, o) \in [Sinks -> [Key -> KeyInfo]]
<1>1. [op |-> o, pending |-> TRUE] \in KeyInfo
  BY DEF KeyInfo
<1> QED  BY <1>1 DEF Learn, TypeOK

LEMMA TouchType ==
    ASSUME TypeOK, NEW r, NEW how \in {"update", "delete"}
    PROVE  Touch(r, how) \in [Key -> {"no", "update", "delete"}]
BY DEF Touch, TypeOK

\* A flushed chunk leaves a delta row, or none, for every key.
LEMMA FlushedType ==
    ASSUME TypeOK
    PROVE  Flushed \in [Key -> DeltaRow]
<1>1. NoRow \in DeltaRow
  BY DEF NoRow, DeltaRow
<1>2. ASSUME NEW k \in Key, \E a \in adds : a.key = k
      PROVE  LET a == CHOOSE a \in adds : a.key = k IN [op |-> a.op, val |-> a.val] \in DeltaRow
  <2> DEFINE a == CHOOSE a \in adds : a.key = k
  <2>1. a \in adds
    BY <1>2
  <2>2. a \in AddRow
    BY <2>1 DEF TypeOK
  <2> QED  BY <2>2 DEF AddRow, DeltaRow
<1> QED  BY <1>1, <1>2 DEF Flushed, TypeOK

-----------------------------------------------------------------------------
(* Type correctness.                                                       *)

\* The rows fed to a statement are rows of the scenario table (or, for an
\* INSERT, new ones).
LEMMA StartType ==
    ASSUME TypeOK, NEW v \in {"MERGE"} \cup Sinks, NEW s \in Sinks, NEW rows \in SUBSET Source,
           NEW repeats \in BOOLEAN, NEW track \in BOOLEAN, Start(v, s, rows, repeats, track)
    PROVE  TypeOK'
BY DEF Start, TypeOK

LEMMA IdleType == ASSUME Idle PROVE
    /\ verb' \in {"idle", "MERGE"} \cup Sinks
    /\ sink' \in Sinks
    /\ input' \subseteq Source
    /\ todo' \subseteq input'
    /\ joined' \in BOOLEAN
    /\ tracked' \in BOOLEAN
    /\ touched' \in [Key -> {"no", "update", "delete"}]
    /\ keys' \in [Sinks -> [Key -> KeyInfo]]
    /\ adds' \subseteq AddRow
    /\ removes' \subseteq RowRef
<1>1. Nothing \in [Sinks -> [Key -> KeyInfo]]
  BY DEF Nothing, Unread, KeyInfo
<1> QED  BY <1>1 DEF Idle, Sinks

\* No sequence of statements, chunk boundaries and failures leaves a variable
\* outside its type: in particular an UPDATE never writes a row without an op.
THEOREM TypeCorrect == Spec => []TypeOK
<1>1. Init => TypeOK
  <2>1. NoRow \in DeltaRow /\ Nothing \in [Sinks -> [Key -> KeyInfo]]
    BY DEF NoRow, DeltaRow, Nothing, Unread, KeyInfo
  <2>2. Init => /\ delta \in [Key -> DeltaRow]
                /\ saved \in [Key -> DeltaRow]
                /\ keys \in [Sinks -> [Key -> KeyInfo]]
    BY <2>1 DEF Init
  <2> QED  BY <2>2 DEF Init, TypeOK, Sinks
<1>2. TypeOK /\ [Next]_vars => TypeOK'
  <2> SUFFICES ASSUME TypeOK, [Next]_vars
               PROVE  TypeOK'
    OBVIOUS
  <2>1. CASE BeginInsert \/ BeginUpdate \/ BeginDelete \/ BeginMerge
    BY <2>1, BeginStarts, StartType
  <2>4. ASSUME NEW r \in todo, InsertRow(r)
        PROVE  TypeOK'
    <3>1. Append(r.newKey, ClaimOp(r), r.newVal) \in AddRow
      BY SourceFields, SinkTypes, AddTypes
    <3>4. adds' \subseteq AddRow
      BY <2>4, <3>1 DEF InsertRow, TypeOK
    <3>2. removes' \subseteq RowRef
      BY <2>4, SinkTypes DEF InsertRow, TypeOK
    <3>3. keys' \in [Sinks -> [Key -> KeyInfo]]
      BY <2>4, SourceFields, SinkTypes, LearnType DEF InsertRow
    <3> QED  BY <2>4, <3>2, <3>3, <3>4 DEF InsertRow, TypeOK, Sinks
  <2>5. ASSUME NEW r \in todo, UpdateInPlace(r)
        PROVE  TypeOK'
    <3>1. InPlaceOp(r) \in Ops
      BY <2>5, SinkTypes DEF UpdateInPlace, UpdateRejected
    <3>2. adds' \subseteq AddRow
      BY <2>5, <3>1, SourceFields, AddTypes DEF UpdateInPlace, TypeOK
    <3>3. removes' \subseteq RowRef
      BY <2>5, SinkTypes DEF UpdateInPlace, TypeOK
    <3>4. keys' \in [Sinks -> [Key -> KeyInfo]]
      BY <2>5, <3>1, SourceFields, LearnType DEF UpdateInPlace
    <3>5. touched' \in [Key -> {"no", "update", "delete"}]
      BY <2>5, TouchType DEF UpdateInPlace
    <3> QED  BY <2>5, <3>2, <3>3, <3>4, <3>5 DEF UpdateInPlace, TypeOK, Sinks
  <2>6. ASSUME NEW r \in todo, UpdateMovingKey(r)
        PROVE  TypeOK'
    <3>1. Append(r.newKey, ClaimOp(r), r.newVal) \in AddRow
      BY SourceFields, SinkTypes, AddTypes
    <3>2. adds' \subseteq AddRow
      BY <2>6, <3>1, SinkTypes DEF UpdateMovingKey, TypeOK
    <3>3. removes' \subseteq RowRef
      BY <2>6, SinkTypes DEF UpdateMovingKey, TypeOK
    <3>4. keys' \in [Sinks -> [Key -> KeyInfo]]
      BY <2>6, SourceFields, SinkTypes, LearnType DEF UpdateMovingKey
    <3>5. touched' \in [Key -> {"no", "update", "delete"}]
      BY <2>6, TouchType DEF UpdateMovingKey
    <3> QED  BY <2>6, <3>2, <3>3, <3>4, <3>5 DEF UpdateMovingKey, TypeOK
  <2>7. ASSUME NEW r \in todo, DeleteSkips(r)
        PROVE  TypeOK'
    BY <2>7 DEF DeleteSkips, TypeOK, Sinks
  <2>8. ASSUME NEW r \in todo, DeleteRow(r)
        PROVE  TypeOK'
    <3>1. adds' \subseteq AddRow /\ removes' \subseteq RowRef
      BY <2>8, SinkTypes DEF DeleteRow, TypeOK
    <3>2. keys' \in [Sinks -> [Key -> KeyInfo]]
      BY <2>8, SinkTypes DEF DeleteRow, TypeOK
    <3>3. touched' \in [Key -> {"no", "update", "delete"}]
      BY <2>8, TouchType DEF DeleteRow
    <3> QED  BY <2>8, <3>1, <3>2, <3>3 DEF DeleteRow, TypeOK
  <2>9. CASE FlushChunk
    BY <2>9, FlushedType DEF FlushChunk, TypeOK
  <2>10. CASE EndStatement
    BY <2>10, IdleType DEF EndStatement, TypeOK
  <2>11. CASE FailStatement
    BY <2>11, IdleType DEF FailStatement, TypeOK
  <2>12. ASSUME NEW k \in Key, NEW v \in Val \cup {Null}, BaseCommit(k, v)
         PROVE  TypeOK'
    BY <2>12 DEF BaseCommit, TypeOK, stmtVars
  <2>13. CASE UNCHANGED vars
    BY <2>13 DEF vars, stmtVars, TypeOK
  <2> QED
    BY <2>1, <2>4, <2>5, <2>6, <2>7, <2>8, <2>9, <2>10, <2>11, <2>12, <2>13
       DEF Next, SinkRow
<1> QED  BY <1>1, <1>2, PTL DEF Spec

-----------------------------------------------------------------------------
(* The probes that keep the key map honest.                                *)

\* A key the statement has not probed is a key it has not written: neither
\* the sinks nor a flush touch a row the key map did not read first, so the
\* statement acts on the delta as it was when it started.
THEOREM ProbesComeFirst == Spec => []ProbedBeforeChanged
<1>1. Init => ProbedBeforeChanged
  BY DEF Init, Nothing, Unread, Unprobed, ProbedBeforeChanged
<1>2. TypeOK /\ ProbedBeforeChanged /\ [Next]_vars => ProbedBeforeChanged'
  <2> SUFFICES ASSUME TypeOK, ProbedBeforeChanged, [Next]_vars
               PROVE  ProbedBeforeChanged'
    OBVIOUS
  <2>1. ASSUME NEW v, NEW s, NEW rows, NEW repeats, NEW track, Start(v, s, rows, repeats, track)
        PROVE  ProbedBeforeChanged'
    BY <2>1 DEF Start, Unprobed, ProbedBeforeChanged
  <2>2. CASE BeginInsert \/ BeginUpdate \/ BeginDelete \/ BeginMerge
    BY <2>1, <2>2, BeginStarts
  <2>3. ASSUME NEW r \in todo, InsertRow(r)
        PROVE  ProbedBeforeChanged'
    <3>1. r.newKey \in Key /\ ClaimOp(r) # "unread"
      BY SourceFields DEF ClaimOp
    <3>2. \A k \in Key : Unprobed(k)' => Unprobed(k) /\ k # r.newKey
      BY <2>3, <3>1 DEF InsertRow, Learn, TypeOK, Unprobed, Sinks
    <3>3. \A a \in adds' : a \in adds \/ a.key = r.newKey
      BY <2>3 DEF InsertRow, Append
    <3>4. \A ref \in removes' : ref \in removes \/ ref.key = r.newKey
      BY <2>3 DEF InsertRow, ClaimRefs, RowOf
    <3> QED  BY <2>3, <3>2, <3>3, <3>4 DEF InsertRow, ProbedBeforeChanged
  <2>4. ASSUME NEW r \in todo, UpdateInPlace(r)
        PROVE  ProbedBeforeChanged'
    <3>1. r.key \in Key /\ InPlaceOp(r) # "unread"
      BY <2>4, SourceFields, SinkTypes DEF UpdateInPlace, UpdateRejected, Ops
    <3>2. \A k \in Key : Unprobed(k)' => Unprobed(k) /\ k # r.key
      BY <2>4, <3>1 DEF UpdateInPlace, Learn, TypeOK, Unprobed, Sinks
    <3>3. \A a \in adds' : a \in adds \/ a.key = r.key
      BY <2>4 DEF UpdateInPlace, Append
    <3>4. \A ref \in removes' : ref \in removes \/ ref.key = r.key
      BY <2>4 DEF UpdateInPlace, SupersededRefs, RowOf
    <3> QED  BY <2>4, <3>2, <3>3, <3>4 DEF UpdateInPlace, ProbedBeforeChanged
  <2>5. ASSUME NEW r \in todo, UpdateMovingKey(r)
        PROVE  ProbedBeforeChanged'
    <3>1. /\ r.key \in Key /\ r.newKey \in Key
          /\ ClaimOp(r) # "unread" /\ VacatedInfo(r).op # "unread"
      BY SourceFields DEF ClaimOp, VacatedInfo
    <3>2. \A k \in Key : Unprobed(k)' => Unprobed(k) /\ k # r.key /\ k # r.newKey
      BY <2>5, <3>1 DEF UpdateMovingKey, Learn, TypeOK, Unprobed, Sinks
    <3>3. \A a \in adds' : a \in adds \/ a.key = r.key \/ a.key = r.newKey
      BY <2>5 DEF UpdateMovingKey, VacatedAdds, Tombstone, Append
    <3>4. \A ref \in removes' : ref \in removes \/ ref.key = r.key \/ ref.key = r.newKey
      BY <2>5 DEF UpdateMovingKey, SupersededRefs, ClaimRefs, RowOf
    <3> QED  BY <2>5, <3>2, <3>3, <3>4 DEF UpdateMovingKey, ProbedBeforeChanged
  <2>6. ASSUME NEW r \in todo, DeleteSkips(r)
        PROVE  ProbedBeforeChanged'
    BY <2>6 DEF DeleteSkips, Unprobed, ProbedBeforeChanged
  <2>7. ASSUME NEW r \in todo, DeleteRow(r)
        PROVE  ProbedBeforeChanged'
    <3>1. r.key \in Key /\ VacatedInfo(r).op # "unread"
      BY SourceFields DEF VacatedInfo
    <3>2. \A k \in Key : Unprobed(k)' => Unprobed(k) /\ k # r.key
      BY <2>7, <3>1 DEF DeleteRow, TypeOK, Unprobed, Sinks
    <3>3. \A a \in adds' : a \in adds \/ a.key = r.key
      BY <2>7 DEF DeleteRow, VacatedAdds, Tombstone, Append
    <3>4. \A ref \in removes' : ref \in removes \/ ref.key = r.key
      BY <2>7 DEF DeleteRow, SupersededRefs, RowOf
    <3> QED  BY <2>7, <3>2, <3>3, <3>4 DEF DeleteRow, ProbedBeforeChanged
  <2>8. CASE FlushChunk
    <3>1. ASSUME NEW k \in Key, Unprobed(k)
          PROVE  Flushed[k] = delta[k]
      BY <3>1 DEF ProbedBeforeChanged, Flushed
    <3> QED  BY <2>8, <3>1 DEF FlushChunk, Unprobed, ProbedBeforeChanged
  <2>9. CASE EndStatement
    BY <2>9 DEF EndStatement, Idle, ProbedBeforeChanged
  <2>10. CASE FailStatement
    BY <2>10 DEF FailStatement, Idle, ProbedBeforeChanged
  <2>11. ASSUME NEW k \in Key, NEW v \in Val \cup {Null}, BaseCommit(k, v)
         PROVE  ProbedBeforeChanged'
    BY <2>11 DEF BaseCommit, stmtVars, Unprobed, ProbedBeforeChanged
  <2>12. CASE UNCHANGED vars
    BY <2>12 DEF vars, stmtVars, Unprobed, ProbedBeforeChanged
  <2> QED
    BY <2>2, <2>3, <2>4, <2>5, <2>6, <2>7, <2>8, <2>9, <2>10, <2>11, <2>12 DEF Next, SinkRow
<1> QED  BY <1>1, <1>2, TypeCorrect, PTL DEF Spec

-----------------------------------------------------------------------------
(* The meaning of the ops, over a base that does not change.               *)

\* What a sink believes agrees with the base too: the saved delta, the key
\* map, the buffered rows, and the base rows still to be consumed.
CanonicalInv ==
    /\ Canonical
    /\ \A k \in Key : OpFits(k, saved[k].op)
    /\ \A s \in Sinks, k \in Key : OpFits(k, keys[s][k].op)
    /\ \A a \in adds : OpFits(a.key, a.op)
    /\ \A r \in todo : r.origin = 0 => base[r.key] # Null

\* Known never contradicts the base.
LEMMA KnownFits ==
    ASSUME CanonicalInv, NEW s \in Sinks, NEW k \in Key
    PROVE  OpFits(k, Known(s, k).op)
BY DEF CanonicalInv, Canonical, Known

\* A claimed key was free: an I row is only written for a key the base lacks,
\* a U row only over a tombstone.
LEMMA ClaimFits ==
    ASSUME TypeOK, CanonicalInv, KeyIndex, NEW r \in todo, ~KeyTaken(r)
    PROVE  OpFits(r.newKey, ClaimOp(r))
BY SourceFields, KnownType, KnownFits DEF KeyTaken, ClaimOp, BaseHolds, OpFits, Ops

\* A vacated key keeps a tombstone exactly when the base has a row to hide.
LEMMA VacateFits ==
    ASSUME TypeOK, CanonicalInv, NEW r \in todo
    PROVE  /\ OpFits(r.key, VacatedInfo(r).op)
           /\ \A a \in VacatedAdds(r) : OpFits(a.key, a.op)
<1>1. OpFits(r.key, Known(r.by, r.key).op) /\ (r.origin = 0 => base[r.key] # Null)
  BY SourceFields, KnownFits DEF CanonicalInv
<1> QED  BY <1>1 DEF VacatedInfo, VacatedAdds, LeavesTombstone, Tombstone, Append, OpFits

LEMMA InPlaceFits ==
    ASSUME TypeOK, CanonicalInv, NEW r \in todo
    PROVE  OpFits(r.key, InPlaceOp(r))
BY SourceFields, KnownFits DEF CanonicalInv, InPlaceOp, OpFits

LEMMA FlushedFits ==
    ASSUME TypeOK, CanonicalInv, NEW k \in Key
    PROVE  OpFits(k, Flushed[k].op)
<1>1. CASE \E a \in adds : a.key = k
  <2> DEFINE a == CHOOSE a \in adds : a.key = k
  <2>1. a \in adds /\ a.key = k
    BY <1>1
  <2>2. Flushed[k] = [op |-> a.op, val |-> a.val]
    BY <1>1 DEF Flushed
  <2> HIDE DEF a
  <2> QED  BY <2>1, <2>2 DEF CanonicalInv
<1>2. CASE ~\E a \in adds : a.key = k
  BY <1>2 DEF CanonicalInv, Canonical, Flushed, NoRow, OpFits
<1> QED  BY <1>1, <1>2

LEMMA CanonicalInductive ==
    ASSUME ~LiveBase, KeyIndex, TypeOK, CanonicalInv, [Next]_vars
    PROVE  CanonicalInv'
<1>1. ASSUME base' = base
      PROVE  \A k, o : OpFits(k, o)' <=> OpFits(k, o)
  BY <1>1 DEF OpFits
<1>2. ASSUME NEW v, NEW s, NEW rows, NEW repeats, NEW track, Start(v, s, rows, repeats, track),
             \A r \in rows : r.origin = 0 => base[r.key] # Null
      PROVE  CanonicalInv'
  BY <1>2 DEF Start, CanonicalInv, Canonical, OpFits
<1>3. CASE BeginInsert \/ BeginUpdate \/ BeginDelete \/ BeginMerge
  BY <1>2, <1>3, BeginStarts
<1>6. ASSUME NEW r \in todo, InsertRow(r)
      PROVE  CanonicalInv'
  <2>1. r.newKey \in Key /\ OpFits(r.newKey, ClaimOp(r))
    BY <1>6, SourceFields, ClaimFits DEF InsertRow
  <2>2. \A s \in Sinks, k \in Key : OpFits(k, keys'[s][k].op)
    BY <1>6, <2>1 DEF InsertRow, Learn, CanonicalInv, TypeOK, Sinks
  <2>3. \A a \in adds' : OpFits(a.key, a.op)
    BY <1>6, <2>1 DEF InsertRow, Append, CanonicalInv
  <2> QED  BY <1>6, <2>2, <2>3 DEF InsertRow, CanonicalInv, Canonical, OpFits
<1>7. ASSUME NEW r \in todo, UpdateInPlace(r)
      PROVE  CanonicalInv'
  <2>1. r.key \in Key /\ OpFits(r.key, InPlaceOp(r))
    BY <1>7, SourceFields, InPlaceFits DEF UpdateInPlace
  <2>2. \A s \in Sinks, k \in Key : OpFits(k, keys'[s][k].op)
    BY <1>7, <2>1 DEF UpdateInPlace, Learn, CanonicalInv, TypeOK, Sinks
  <2>3. \A a \in adds' : OpFits(a.key, a.op)
    BY <1>7, <2>1 DEF UpdateInPlace, Append, CanonicalInv
  <2> QED  BY <1>7, <2>2, <2>3 DEF UpdateInPlace, CanonicalInv, Canonical, OpFits
<1>8. ASSUME NEW r \in todo, UpdateMovingKey(r)
      PROVE  CanonicalInv'
  <2>1. r.newKey \in Key /\ OpFits(r.newKey, ClaimOp(r))
    BY <1>8, SourceFields, ClaimFits DEF UpdateMovingKey, UpdateRejected
  <2>2. r.key \in Key /\ OpFits(r.key, VacatedInfo(r).op)
    BY <1>8, SourceFields, VacateFits DEF UpdateMovingKey
  <2>3. \A a \in VacatedAdds(r) : OpFits(a.key, a.op)
    BY <1>8, VacateFits DEF UpdateMovingKey
  <2>4. \A s \in Sinks, k \in Key : OpFits(k, keys'[s][k].op)
    BY <1>8, <2>1, <2>2 DEF UpdateMovingKey, Learn, CanonicalInv, TypeOK, Sinks
  <2>5. \A a \in adds' : OpFits(a.key, a.op)
    BY <1>8, <2>1, <2>3 DEF UpdateMovingKey, Append, CanonicalInv
  <2> QED  BY <1>8, <2>4, <2>5 DEF UpdateMovingKey, CanonicalInv, Canonical, OpFits
<1>9. ASSUME NEW r \in todo, DeleteSkips(r)
      PROVE  CanonicalInv'
  BY <1>9 DEF DeleteSkips, CanonicalInv, Canonical, OpFits
<1>10. ASSUME NEW r \in todo, DeleteRow(r)
       PROVE  CanonicalInv'
  <2>1. r.key \in Key /\ OpFits(r.key, VacatedInfo(r).op)
    BY <1>10, SourceFields, VacateFits DEF DeleteRow
  <2>2. \A a \in VacatedAdds(r) : OpFits(a.key, a.op)
    BY <1>10, VacateFits DEF DeleteRow
  <2>3. \A s \in Sinks, k \in Key : OpFits(k, keys'[s][k].op)
    BY <1>10, <2>1 DEF DeleteRow, CanonicalInv, TypeOK, Sinks
  <2>4. \A a \in adds' : OpFits(a.key, a.op)
    BY <1>10, <2>2 DEF DeleteRow, CanonicalInv
  <2> QED  BY <1>10, <2>3, <2>4 DEF DeleteRow, CanonicalInv, Canonical, OpFits
<1>11. CASE FlushChunk
  BY <1>11, FlushedFits DEF FlushChunk, CanonicalInv, Canonical, OpFits
<1>12. CASE EndStatement
  BY <1>12 DEF EndStatement, Idle, Nothing, Unread, CanonicalInv, Canonical, OpFits
<1>13. CASE FailStatement
  BY <1>13 DEF FailStatement, Idle, Nothing, Unread, CanonicalInv, Canonical, OpFits
<1>14. ASSUME NEW k \in Key, NEW v \in Val \cup {Null}, BaseCommit(k, v)
       PROVE  CanonicalInv'
  BY <1>14 DEF BaseCommit
<1>15. CASE UNCHANGED vars
  BY <1>15 DEF vars, stmtVars, CanonicalInv, Canonical, OpFits
<1> QED
  BY <1>3, <1>6, <1>7, <1>8, <1>9, <1>10, <1>11, <1>12, <1>13, <1>14, <1>15
     DEF Next, SinkRow

LEMMA CanonicalInvariant ==
    ASSUME ~LiveBase, KeyIndex
    PROVE  Spec => []CanonicalInv
<1>1. Init => CanonicalInv
  BY DEF Init, NoRow, Nothing, Unread, CanonicalInv, Canonical, OpFits
<1>2. TypeOK /\ CanonicalInv /\ [Next]_vars => CanonicalInv'
  BY CanonicalInductive
<1> QED  BY <1>1, <1>2, TypeCorrect, PTL DEF Spec

\* Over a base nobody changes and with an index on the key, the three sinks
\* keep the meaning of the ops: I for a key the base lacks, U and D for one
\* it has, through every chain of inserts, deletes, updates and key moves.
THEOREM OpsKeepTheirMeaning ==
    ASSUME ~LiveBase, KeyIndex
    PROVE  Spec => []Canonical
<1>1. CanonicalInv => Canonical
  BY DEF CanonicalInv
<1> QED  BY <1>1, CanonicalInvariant, PTL

\* A delta with canonical ops shows no key twice: the rows the scan takes from
\* the delta and those it takes from the base have different keys.
LEMMA CanonicalViewIsKeyed ==
    ASSUME Canonical
    PROVE  ViewHasUniqueKeys
<1> SUFFICES ASSUME NEW x \in View(base, delta), NEW y \in View(base, delta), x.key = y.key
             PROVE  x = y
  BY DEF ViewHasUniqueKeys, UniqueKeys
<1>1. \A row \in View(base, delta) :
        /\ row.key \in Key
        /\ \/ /\ delta[row.key].op \in {"I", "U"}
              /\ row = [key |-> row.key, val |-> delta[row.key].val, origin |-> 1]
           \/ /\ base[row.key] # Null
              /\ delta[row.key].op \notin {"U", "D"}
              /\ row = [key |-> row.key, val |-> base[row.key], origin |-> 0]
  BY DEF View
<1> QED  BY <1>1 DEF Canonical, OpFits

\* The scan shows no key of the scenario table twice (over such a base).
THEOREM ScanShowsAKeyOnce ==
    ASSUME ~LiveBase, KeyIndex
    PROVE  Spec => []ViewHasUniqueKeys
BY OpsKeepTheirMeaning, CanonicalViewIsKeyed, PTL

-----------------------------------------------------------------------------
(* The invariant of a running statement.                                   *)

\* The keys one source row writes.
Cells(r) == {r.key, r.newKey}

\* The statement's UPDATE or DELETE sink has written the key: the touched set
\* says so, or the key map of an untracked statement does.
Written(k) ==
    IF tracked THEN touched[k] # "no"
    ELSE \E s \in {"UPDATE", "DELETE"} : keys[s][k].op # "unread"

\* The delta as the statement found it had a row of the key, or the probe of
\* the base finds one that the delta did not hide.
Shown(k) ==
    \/ saved[k].op \in {"I", "U"}
    \/ KeyIndex /\ base[k] # Null /\ saved[k].op # "D"

Quiet(k) ==
    /\ \A a \in adds : a.key # k
    /\ \A ref \in removes : ref.key # k

\* The row a source row names was emitted by the scan at statement start.
Names(r) ==
    \/ r.origin = 0 /\ base[r.key] # Null /\ saved[r.key].op \notin {"U", "D"}
    \/ r.origin = 1 /\ saved[r.key].op \in {"I", "U"}

IdleInv ==
    verb = "idle" =>
        /\ input = {}
        /\ todo = {}
        /\ adds = {}
        /\ removes = {}
        /\ delta = saved
        /\ keys = Nothing
        /\ touched = [k \in Key |-> "no"]
        /\ ~tracked

\* What the planner feeds a statement, and which statements go untracked.
RowShape(r) ==
    /\ r.by \in {"INSERT", "UPDATE"} => r.newVal \in Val
    /\ r.by \in {"INSERT", "DELETE"} => r.newKey = r.key
    /\ r.by \in {"UPDATE", "DELETE"} => Names(r)
    /\ verb # "MERGE" => r.by = verb

PlanShape ==
    ~tracked /\ verb # "INSERT" =>
        /\ verb # "MERGE"
        /\ ~joined
        /\ \A r \in input : r.newKey = r.key
        /\ \A q, r \in input : q.key = r.key /\ q.origin = r.origin => q = r

SourceInv == PlanShape /\ \A r \in input : RowShape(r)

\* A tracked statement's key maps know only keys its touched set holds.
TouchInv ==
    tracked => \A k \in Key :
        /\ keys["UPDATE"][k].op # "unread" => touched[k] = "update"
        /\ keys["DELETE"][k].op # "unread" => touched[k] = "delete"

\* The INSERT sink knows only keys it inserted; an untracked statement has one
\* sink.
MapInv ==
    /\ \A k \in Key : keys["INSERT"][k].op \in {"unread", "I", "U"}
    /\ ~tracked => \A s \in Sinks, k \in Key : keys[s][k].op # "unread" => s = verb

\* The scan delivers a key's delta row before its base row.
ScanInv ==
    ~tracked => \A r \in todo :
        r.by # "INSERT" /\ keys[r.by][r.key].op # "unread"
            => r.origin = 0 /\ ~UniqueKeys(base, saved)

\* A row the scan showed stays as it was until an UPDATE or a DELETE of the
\* statement names it: no INSERT writes over it.
ShownInv ==
    \A k \in Key : Shown(k) /\ ~Written(k) =>
        /\ delta[k] = saved[k]
        /\ Quiet(k)
        /\ keys["INSERT"][k].op = "unread"

\* The buffers hold only keys the running sink has read.
QuietInv == \A k \in Key : keys[sink][k].op = "unread" => Quiet(k)

ValueInv ==
    /\ \A k \in Key : delta[k].op \in {"I", "U"} => delta[k].val \in Val
    /\ \A k \in Key : saved[k].op \in {"I", "U"} => saved[k].val \in Val
    /\ \A a \in adds : a.op \in {"I", "U"} => a.val \in Val

SinkInv == /\ TouchInv
           /\ MapInv
           /\ ScanInv
           /\ ShownInv
           /\ QuietInv
           /\ ValueInv
           /\ NoPendingRemoval

StatementInv == TypeOK /\ IdleInv /\ SourceInv /\ SinkInv

-----------------------------------------------------------------------------
(* The steps of a sink.                                                    *)

SinkWrites(r) == InsertRow(r) \/ UpdateInPlace(r) \/ UpdateMovingKey(r) \/ DeleteRow(r)

\* What a step of a sink leaves alone.
LEMMA SinkFrame ==
    ASSUME TypeOK, SourceInv, NEW r \in todo, SinkWrites(r)
    PROVE  /\ UNCHANGED <<base, delta, saved, verb, input, joined, tracked>>
           /\ todo' = todo \ {r}
           /\ sink' = r.by
           /\ Turn(r)
           /\ \A s \in Sinks, k \in Key :
                s # r.by \/ k \notin Cells(r) => keys'[s][k] = keys[s][k]
           /\ \A k \in Cells(r) : keys'[r.by][k].op # "unread"
           /\ adds \subseteq adds'
           /\ \A a \in adds' : a \in adds \/ a.key \in Cells(r)
           /\ removes \subseteq removes'
           /\ \A ref \in removes' : ref \in removes \/ ref.key \in Cells(r)
<1>0. /\ r.by \in Sinks
      /\ r.key \in Key
      /\ r.newKey \in Key
      /\ r.by \in {"INSERT", "DELETE"} => r.newKey = r.key
  BY SourceFields DEF SourceInv, RowShape, TypeOK
<1>1. CASE InsertRow(r)
  <2>1. ClaimOp(r) # "unread"
    BY DEF ClaimOp
  <2> QED  BY <1>0, <1>1, <2>1 DEF InsertRow, Learn, Append, ClaimRefs, RowOf, Cells, TypeOK, Sinks
<1>2. CASE UpdateInPlace(r)
  <2>1. InPlaceOp(r) # "unread"
    BY <1>2, SinkTypes DEF UpdateInPlace, UpdateRejected, Ops
  <2> QED  BY <1>0, <1>2, <2>1 DEF UpdateInPlace, Learn, Append, SupersededRefs, RowOf, Cells, TypeOK, Sinks
<1>3. CASE UpdateMovingKey(r)
  <2>1. ClaimOp(r) # "unread" /\ VacatedInfo(r).op # "unread"
    BY DEF ClaimOp, VacatedInfo
  <2>2. \A s \in Sinks, k \in Key :
           s # r.by \/ k \notin Cells(r) => keys'[s][k] = keys[s][k]
    BY <1>0, <1>3 DEF UpdateMovingKey, Learn, Cells, TypeOK, Sinks
  <2>3. \A k \in Cells(r) : keys'[r.by][k].op # "unread"
    BY <1>0, <1>3, <2>1 DEF UpdateMovingKey, Learn, Cells, TypeOK, Sinks
  <2>4. \A a \in adds' : a \in adds \/ a.key \in Cells(r)
    BY <1>3 DEF UpdateMovingKey, VacatedAdds, Tombstone, Append, Cells
  <2>5. \A ref \in removes' : ref \in removes \/ ref.key \in Cells(r)
    BY <1>3 DEF UpdateMovingKey, SupersededRefs, ClaimRefs, RowOf, Cells
  <2> QED  BY <1>3, <2>2, <2>3, <2>4, <2>5 DEF UpdateMovingKey
<1>4. CASE DeleteRow(r)
  <2>1. VacatedInfo(r).op # "unread"
    BY DEF VacatedInfo
  <2>2. \A s \in Sinks, k \in Key :
           s # r.by \/ k \notin Cells(r) => keys'[s][k] = keys[s][k]
    BY <1>0, <1>4 DEF DeleteRow, Cells, TypeOK, Sinks
  <2>3. \A k \in Cells(r) : keys'[r.by][k].op # "unread"
    BY <1>0, <1>4, <2>1 DEF DeleteRow, Cells, TypeOK, Sinks
  <2>4. \A a \in adds' : a \in adds \/ a.key \in Cells(r)
    BY <1>4 DEF DeleteRow, VacatedAdds, Tombstone, Append, Cells
  <2>5. \A ref \in removes' : ref \in removes \/ ref.key \in Cells(r)
    BY <1>4 DEF DeleteRow, SupersededRefs, RowOf, Cells
  <2> QED  BY <1>4, <2>2, <2>3, <2>4, <2>5 DEF DeleteRow
<1> QED  BY <1>1, <1>2, <1>3, <1>4 DEF SinkWrites

\* The touched set after a step of a sink.
LEMMA SinkTouches ==
    ASSUME TypeOK, SourceInv, NEW r \in todo, SinkWrites(r)
    PROVE  /\ r.by = "INSERT" \/ ~tracked => touched' = touched
           /\ \A k \in Key : k \notin Cells(r) => touched'[k] = touched[k]
           /\ tracked /\ r.by = "UPDATE" => \A k \in Cells(r) : touched'[k] = "update"
           /\ tracked /\ r.by = "DELETE" => \A k \in Cells(r) : touched'[k] = "delete"
<1>0. /\ r.key \in Key
      /\ r.newKey \in Key
  BY SourceFields
<1> QED  BY <1>0 DEF SinkWrites, InsertRow, UpdateInPlace, UpdateMovingKey, DeleteRow, Touch, Cells

-----------------------------------------------------------------------------
(* What a sink knows when it writes.                                       *)

\* The fields of a source row, as the planner made them.
LEMMA RowFacts ==
    ASSUME TypeOK, SourceInv, NEW r \in todo
    PROVE  /\ r \in input
           /\ r.by \in {"INSERT", "UPDATE", "DELETE"}
           /\ r.key \in Key
           /\ r.newKey \in Key
           /\ r.origin \in {0, 1}
           /\ Cells(r) \subseteq Key
           /\ RowShape(r)
BY SourceFields DEF TypeOK, SourceInv, Cells, Sinks

\* An UPDATE or a DELETE reaches only keys its statement has not written, as
\* long as the statement tracks its touches.
LEMMA TrackedCellsAreFresh ==
    ASSUME StatementInv, NEW r \in todo, SinkWrites(r), tracked, r.by # "INSERT"
    PROVE  \A k \in Cells(r) : touched[k] = "no" /\ keys[r.by][k].op = "unread"
<1>1. /\ r.by \in {"INSERT", "UPDATE", "DELETE"}
      /\ r.key \in Key
      /\ r.newKey \in Key
      /\ RowShape(r)
  BY RowFacts DEF StatementInv
<1>2. touched[r.key] \in {"no", "update", "delete"}
  BY <1>1 DEF StatementInv, TypeOK
<1>3. touched[r.key] = "no" /\ touched[r.newKey] = "no"
  BY <1>1, <1>2 DEF SinkWrites, InsertRow, UpdateInPlace, UpdateMovingKey, DeleteRow,
                    UpdateRejected, TouchRejected, AlreadyDeleted, DeleteRejected, RowShape
<1>4. \A k \in Key : touched[k] = "no" =>
         keys["UPDATE"][k].op = "unread" /\ keys["DELETE"][k].op = "unread"
  BY DEF StatementInv, SinkInv, TouchInv
<1> QED  BY <1>1, <1>3, <1>4 DEF Cells

\* Without touches a statement writes each row in place, through one sink.
LEMMA UntrackedWritesInPlace ==
    ASSUME StatementInv, NEW r \in todo, ~tracked, r.by # "INSERT"
    PROVE  /\ r.newKey = r.key
           /\ verb = r.by
           /\ ~joined
           /\ \A q \in input : q.by = r.by /\ (q.key = r.key /\ q.origin = r.origin => q = r)
           /\ keys[r.by][r.key].op # "unread" => r.origin = 0 /\ ~UniqueKeys(base, saved)
<1>1. /\ r \in input
      /\ RowShape(r)
      /\ todo # {}
  BY RowFacts DEF StatementInv
<1>2. verb # "INSERT"
  BY <1>1 DEF RowShape
<1>3. verb # "MERGE" /\ \A q \in input : q.by = verb
  BY <1>2 DEF StatementInv, SourceInv, PlanShape, RowShape
<1>4. keys[r.by][r.key].op # "unread" => r.origin = 0 /\ ~UniqueKeys(base, saved)
  BY DEF StatementInv, SinkInv, ScanInv
<1> QED  BY <1>1, <1>2, <1>3, <1>4 DEF StatementInv, SourceInv, PlanShape

\* The row a sink replaces or removes by its id is the one the statement
\* found: the sink has not read the key before, and nothing has written it.
LEMMA NamedRowIsUnread ==
    ASSUME StatementInv, NEW r \in todo, SinkWrites(r), r.by # "INSERT",
           r.origin = 1 \/ (KeyIndex /\ UniqueKeys(base, saved))
    PROVE  /\ keys[r.by][r.key].op = "unread"
           /\ ~Written(r.key)
           /\ Shown(r.key)
           /\ delta[r.key] = saved[r.key]
           /\ Quiet(r.key)
           /\ r.origin = 1 => saved[r.key].op \in {"I", "U"}
<1>1. /\ r.by \in {"INSERT", "UPDATE", "DELETE"}
      /\ r.key \in Key
      /\ r.key \in Cells(r)
      /\ RowShape(r)
  BY RowFacts DEF StatementInv, Cells
<1>2. Shown(r.key) /\ (r.origin = 1 => saved[r.key].op \in {"I", "U"})
  BY <1>1 DEF RowShape, Names, Shown
<1>3. CASE tracked
  <2>1. keys[r.by][r.key].op = "unread" /\ ~Written(r.key)
    BY <1>1, <1>3, TrackedCellsAreFresh DEF Written
  <2> QED  BY <1>1, <1>2, <2>1 DEF StatementInv, SinkInv, ShownInv
<1>4. CASE ~tracked
  <2>1. keys[r.by][r.key].op = "unread" /\ verb = r.by
    BY <1>4, UntrackedWritesInPlace
  <2>2. \A s \in Sinks : keys[s][r.key].op # "unread" => s = verb
    BY <1>1, <1>4 DEF StatementInv, SinkInv, MapInv
  <2>3. ~Written(r.key)
    BY <1>4, <2>1, <2>2 DEF Written, Sinks
  <2> QED  BY <1>1, <1>2, <2>1, <2>3 DEF StatementInv, SinkInv, ShownInv
<1> QED  BY <1>3, <1>4

\* A row claims a key the statement has not read: the delta holds nothing or a
\* tombstone for it, and no row the scan showed is written over.
LEMMA ClaimedKeyIsFree ==
    ASSUME StatementInv, NEW r \in todo, SinkWrites(r), r.by = "INSERT" \/ r.newKey # r.key
    PROVE  /\ keys[r.by][r.newKey].op = "unread"
           /\ Known(r.by, r.newKey) = [op |-> delta[r.newKey].op, pending |-> FALSE]
           /\ delta[r.newKey].op \in {"none", "D"}
           /\ delta[r.newKey].op = "none" => ~BaseHolds(r.newKey)
           /\ ~(Shown(r.newKey) /\ ~Written(r.newKey))
<1>1. /\ r.by \in {"INSERT", "UPDATE", "DELETE"}
      /\ r.newKey \in Key
      /\ r.newKey \in Cells(r)
      /\ RowShape(r)
  BY RowFacts DEF StatementInv, Cells
<1>2. ~KeyTaken(r)
  BY <1>1 DEF SinkWrites, InsertRow, UpdateInPlace, UpdateMovingKey, DeleteRow, UpdateRejected, RowShape
<1>3. keys[r.by][r.newKey].op = "unread"
  <2>1. CASE r.by = "INSERT"
    <3>1. keys["INSERT"][r.newKey].op \in {"unread", "I", "U"}
      BY <1>1 DEF StatementInv, SinkInv, MapInv
    <3> QED  BY <1>2, <2>1, <3>1 DEF KeyTaken, Known
  <2>2. CASE r.by # "INSERT"
    <3>1. r.newKey # r.key
      BY <2>2
    <3>2. tracked
      BY <2>2, <3>1, UntrackedWritesInPlace
    <3> QED  BY <1>1, <2>2, <3>2, TrackedCellsAreFresh
  <2> QED  BY <2>1, <2>2
<1>4. Known(r.by, r.newKey) = [op |-> delta[r.newKey].op, pending |-> FALSE]
  BY <1>3 DEF Known
<1>5. delta[r.newKey].op \in {"I", "U", "D", "none"}
  BY <1>1 DEF StatementInv, TypeOK, DeltaRow, Ops
<1>6. /\ delta[r.newKey].op \in {"none", "D"}
      /\ delta[r.newKey].op = "none" => ~BaseHolds(r.newKey)
  BY <1>2, <1>4, <1>5 DEF KeyTaken
<1>7. Shown(r.newKey) /\ ~Written(r.newKey) => delta[r.newKey] = saved[r.newKey]
  BY <1>1 DEF StatementInv, SinkInv, ShownInv
<1> QED  BY <1>3, <1>4, <1>6, <1>7 DEF Shown, BaseHolds

-----------------------------------------------------------------------------
(* The sinks keep the invariant.                                           *)

\* The rows a sink adds carry values; the rows it removes were stored before
\* the statement.
LEMMA BufferedRows ==
    ASSUME StatementInv, NEW r \in todo, SinkWrites(r)
    PROVE  /\ \A a \in adds' : a \in adds \/ (a.op \in {"I", "U"} => a.val \in Val)
           /\ \A ref \in removes' : ref \in removes \/ ~ref.pending
<1>1. /\ r.by \in {"INSERT", "UPDATE", "DELETE"}
      /\ RowShape(r)
      /\ r.origin \in {0, 1}
  BY RowFacts DEF StatementInv
<1>2. ASSUME r.by = "INSERT" \/ r.newKey # r.key
      PROVE  ~RowOf(r.by, r.newKey).pending
  <2>1. Known(r.by, r.newKey) = [op |-> delta[r.newKey].op, pending |-> FALSE]
    BY <1>2, ClaimedKeyIsFree
  <2> QED  BY <2>1 DEF RowOf
<1>3. r.by # "INSERT" /\ r.origin = 1 => ~RowOf(r.by, r.key).pending
  BY NamedRowIsUnread DEF RowOf, Known
<1>4. CASE InsertRow(r)
  BY <1>1, <1>2, <1>4 DEF InsertRow, Append, ClaimRefs, RowShape
<1>5. CASE UpdateInPlace(r)
  BY <1>1, <1>3, <1>5 DEF UpdateInPlace, Append, SupersededRefs, RowShape
<1>6. CASE UpdateMovingKey(r)
  <2>1. \A a \in adds' : a \in adds \/ (a.op \in {"I", "U"} => a.val \in Val)
    BY <1>1, <1>6 DEF UpdateMovingKey, Append, VacatedAdds, Tombstone, RowShape
  <2>2. \A ref \in removes' : ref \in removes \/ ~ref.pending
    BY <1>1, <1>2, <1>3, <1>6 DEF UpdateMovingKey, ClaimRefs, SupersededRefs
  <2> QED  BY <2>1, <2>2
<1>7. CASE DeleteRow(r)
  BY <1>1, <1>3, <1>7 DEF DeleteRow, Append, VacatedAdds, Tombstone, SupersededRefs
<1> QED  BY <1>4, <1>5, <1>6, <1>7 DEF SinkWrites

\* What an INSERT leaves in its key map is an I or a U row.
LEMMA InsertedInfo ==
    ASSUME StatementInv, NEW r \in todo, SinkWrites(r)
    PROVE  \A k \in Key : keys'["INSERT"][k].op \in {"unread", "I", "U"}
<1>1. \A k \in Key : keys["INSERT"][k].op \in {"unread", "I", "U"}
  BY DEF StatementInv, SinkInv, MapInv
<1>2. CASE r.by = "INSERT"
  <2>1. InsertRow(r)
    BY <1>2 DEF SinkWrites, UpdateInPlace, UpdateMovingKey, DeleteRow
  <2> QED
    BY <1>1, <2>1, RowFacts DEF InsertRow, Learn, ClaimOp, StatementInv, TypeOK, Sinks
<1>3. CASE r.by # "INSERT"
  BY <1>1, <1>3, SinkFrame DEF StatementInv, Sinks
<1> QED  BY <1>2, <1>3

LEMMA SinkWritesKeepInv ==
    ASSUME StatementInv, NEW r \in todo, SinkWrites(r), TypeOK'
    PROVE  StatementInv'
<1>0. /\ UNCHANGED <<base, delta, saved, verb, input, joined, tracked>>
      /\ todo' = todo \ {r}
      /\ sink' = r.by
      /\ Turn(r)
      /\ \A s \in Sinks, k \in Key : s # r.by \/ k \notin Cells(r) => keys'[s][k] = keys[s][k]
      /\ \A k \in Cells(r) : keys'[r.by][k].op # "unread"
      /\ adds \subseteq adds'
      /\ \A a \in adds' : a \in adds \/ a.key \in Cells(r)
      /\ removes \subseteq removes'
      /\ \A ref \in removes' : ref \in removes \/ ref.key \in Cells(r)
  BY SinkFrame DEF StatementInv
<1>1. /\ r.by = "INSERT" \/ ~tracked => touched' = touched
      /\ \A k \in Key : k \notin Cells(r) => touched'[k] = touched[k]
      /\ tracked /\ r.by = "UPDATE" => \A k \in Cells(r) : touched'[k] = "update"
      /\ tracked /\ r.by = "DELETE" => \A k \in Cells(r) : touched'[k] = "delete"
  BY SinkTouches DEF StatementInv
<1>2. /\ r \in input
      /\ r.by \in {"INSERT", "UPDATE", "DELETE"}
      /\ r.key \in Key
      /\ r.newKey \in Key
      /\ Cells(r) \subseteq Key
      /\ r.key \in Cells(r)
      /\ r.newKey \in Cells(r)
      /\ RowShape(r)
  BY RowFacts DEF StatementInv, Cells
<1>3. /\ TouchInv
      /\ MapInv
      /\ ScanInv
      /\ ShownInv
      /\ QuietInv
      /\ ValueInv
      /\ NoPendingRemoval
      /\ IdleInv
      /\ SourceInv
      /\ TypeOK
  BY DEF StatementInv, SinkInv
<1>4. IdleInv'
  BY <1>0, <1>3 DEF IdleInv
<1>5. SourceInv'
  BY <1>0, <1>3 DEF SourceInv, PlanShape, RowShape, Names
<1>6. TouchInv'
  <2> SUFFICES ASSUME tracked, NEW k \in Key
               PROVE  /\ keys'["UPDATE"][k].op # "unread" => touched'[k] = "update"
                      /\ keys'["DELETE"][k].op # "unread" => touched'[k] = "delete"
    BY <1>0 DEF TouchInv
  <2>1. /\ keys["UPDATE"][k].op # "unread" => touched[k] = "update"
        /\ keys["DELETE"][k].op # "unread" => touched[k] = "delete"
    BY <1>3 DEF TouchInv
  <2>2. CASE k \notin Cells(r) \/ r.by = "INSERT"
    BY <1>0, <1>1, <2>1, <2>2 DEF Sinks
  <2>3. CASE k \in Cells(r) /\ r.by # "INSERT"
    <3>1. touched[k] = "no"
      BY <2>3, TrackedCellsAreFresh
    <3> QED  BY <1>0, <1>1, <1>2, <2>1, <2>3, <3>1 DEF Sinks
  <2> QED  BY <2>2, <2>3
<1>7. MapInv'
  <2>1. ~tracked => \A s \in Sinks, k \in Key : keys'[s][k].op # "unread" => s = verb
    <3>1. ~tracked => verb = r.by
      BY <1>2, <1>3 DEF RowShape, SourceInv, PlanShape
    <3> QED  BY <1>0, <1>3, <3>1 DEF MapInv
  <2> QED  BY <1>0, <2>1, InsertedInfo DEF MapInv
<1>8. ScanInv'
  <2> SUFFICES ASSUME ~tracked, NEW q \in todo, q # r, q.by # "INSERT", keys'[q.by][q.key].op # "unread"
               PROVE  q.origin = 0 /\ ~UniqueKeys(base, saved)
    BY <1>0 DEF ScanInv, UniqueKeys, View
  <2>1. q \in input /\ q.by \in {"UPDATE", "DELETE"} /\ q.key \in Key /\ q.origin \in {0, 1} /\ Names(q)
    BY <1>3, RowFacts DEF RowShape
  <2>2. CASE keys[q.by][q.key].op # "unread"
    BY <1>3, <2>2 DEF ScanInv
  <2>3. CASE keys[q.by][q.key].op = "unread"
    <3>1. q.by = r.by /\ q.key \in Cells(r)
      BY <1>0, <2>1, <2>3 DEF Sinks
    <3>2. /\ r.newKey = r.key
          /\ ~joined
          /\ q.key = r.key /\ q.origin = r.origin => q = r
      BY <2>1, <3>1, UntrackedWritesInPlace
    <3>3. q.key = r.key /\ q.origin # r.origin
      BY <3>1, <3>2 DEF Cells
    <3>4. InScanOrder(r) /\ r.origin \in {0, 1}
      BY <1>0, <1>3, RowFacts DEF Turn
    <3>5. q.origin = 0 /\ r.origin = 1
      BY <2>1, <3>2, <3>3, <3>4 DEF InScanOrder
    <3>6. /\ base[r.key] # Null /\ saved[r.key].op \notin {"U", "D"}
          /\ saved[r.key].op \in {"I", "U"}
      BY <1>2, <2>1, <3>1, <3>3, <3>5 DEF RowShape, Names
    <3>7. /\ [key |-> r.key, val |-> saved[r.key].val, origin |-> 1] \in View(base, saved)
          /\ [key |-> r.key, val |-> base[r.key], origin |-> 0] \in View(base, saved)
      BY <1>2, <3>6 DEF View
    <3>8. ~UniqueKeys(base, saved)
      BY <3>7 DEF UniqueKeys
    <3> QED  BY <3>5, <3>8
  <2> QED  BY <2>2, <2>3
<1>9. ShownInv'
  <2> SUFFICES ASSUME NEW k \in Key, Shown(k), ~Written(k)'
               PROVE  /\ delta[k] = saved[k]
                      /\ Quiet(k)'
                      /\ keys'["INSERT"][k].op = "unread"
    BY <1>0 DEF ShownInv, Shown
  <2>1. ~Written(k)
    <3>1. CASE tracked /\ k \in Cells(r) /\ r.by # "INSERT"
      BY <3>1, TrackedCellsAreFresh DEF Written
    <3>2. CASE ~(k \in Cells(r) /\ r.by # "INSERT") \/ ~tracked
      <4>1. tracked => touched'[k] = touched[k]
        BY <1>1, <3>2
      <4>2. ~tracked => \A s \in {"UPDATE", "DELETE"} :
                keys'[s][k].op = "unread" => keys[s][k].op = "unread"
        BY <1>0 DEF Sinks
      <4> QED  BY <1>0, <4>1, <4>2 DEF Written
    <3> QED  BY <3>1, <3>2
  <2>2. k \notin Cells(r)
    <3>1. CASE r.by = "INSERT"
      <4>1. ~(Shown(r.newKey) /\ ~Written(r.newKey)) /\ r.key = r.newKey
        BY <1>2, <3>1, ClaimedKeyIsFree DEF RowShape
      <4> QED  BY <2>1, <4>1 DEF Cells
    <3>2. CASE r.by # "INSERT"
      <4>1. tracked => \A j \in Cells(r) : touched'[j] # "no"
        BY <1>1, <1>2, <3>2
      <4>2. \A j \in Cells(r) : keys'[r.by][j].op # "unread" /\ r.by \in {"UPDATE", "DELETE"}
        BY <1>0, <1>2, <3>2
      <4> QED  BY <1>0, <4>1, <4>2 DEF Written
    <3> QED  BY <3>1, <3>2
  <2> QED  BY <1>0, <1>3, <2>1, <2>2 DEF ShownInv, Quiet, Sinks
<1>10. QuietInv'
  <2> SUFFICES ASSUME NEW k \in Key, keys'[r.by][k].op = "unread"
               PROVE  Quiet(k)'
    BY <1>0 DEF QuietInv
  <2>1. k \notin Cells(r) /\ keys[r.by][k].op = "unread"
    BY <1>0, <1>2 DEF Sinks
  <2>2. Quiet(k)
    BY <1>0, <1>3, <2>1 DEF QuietInv, Turn, Quiet
  <2> QED  BY <1>0, <2>1, <2>2 DEF Quiet
<1>11. ValueInv'
  BY <1>0, <1>3, BufferedRows DEF ValueInv
<1>12. NoPendingRemoval'
  BY <1>3, BufferedRows DEF NoPendingRemoval
<1> QED  BY <1>4, <1>5, <1>6, <1>7, <1>8, <1>9, <1>10, <1>11, <1>12 DEF StatementInv, SinkInv

-----------------------------------------------------------------------------
(* The other steps keep the invariant.                                     *)

\* A row the scan emits is one that a source row may name.
LEMMA EmittedRowsAreNamed ==
    ASSUME NEW row \in View(base, delta)
    PROVE  \/ row.origin = 0 /\ base[row.key] # Null /\ delta[row.key].op \notin {"U", "D"}
           \/ row.origin = 1 /\ delta[row.key].op \in {"I", "U"}
BY DEF View

\* Each source set has the shape of its sink.
LEMMA InsertShape ==
    ASSUME NEW repeats, NEW r \in InsertSource(repeats)
    PROVE  r.by = "INSERT" /\ r.newVal \in Val /\ r.newKey = r.key
BY DEF InsertSource

LEMMA UpdateShape ==
    ASSUME delta = saved, NEW repeats, NEW moves, NEW r \in UpdateSource(repeats, moves)
    PROVE  /\ r.by = "UPDATE"
           /\ r.newVal \in Val
           /\ Names(r)
           /\ moves \/ r.newKey = r.key
<1>1. PICK row \in View(base, delta), k \in Key, w \in Val, c \in Copies(repeats) :
        /\ r = [by |-> "UPDATE", key |-> row.key, origin |-> row.origin,
                newKey |-> k, newVal |-> w, copy |-> c]
        /\ moves \/ r.newKey = r.key
  BY DEF UpdateSource
<1> QED  BY <1>1, EmittedRowsAreNamed DEF Names

LEMMA DeleteShape ==
    ASSUME delta = saved, NEW repeats, NEW r \in DeleteSource(repeats)
    PROVE  /\ r.by = "DELETE"
           /\ r.newKey = r.key
           /\ Names(r)
BY EmittedRowsAreNamed DEF DeleteSource, Names

\* Every statement starts with rows the planner shaped.
LEMMA BeginShapes ==
    ASSUME delta = saved, BeginInsert \/ BeginUpdate \/ BeginDelete \/ BeginMerge
    PROVE  \E v, s, rows, repeats, track :
               /\ Start(v, s, rows, repeats, track)
               /\ \A r \in rows :
                   /\ r.by \in {"INSERT", "UPDATE"} => r.newVal \in Val
                   /\ r.by \in {"INSERT", "DELETE"} => r.newKey = r.key
                   /\ r.by \in {"UPDATE", "DELETE"} => Names(r)
                   /\ v # "MERGE" => r.by = v
               /\ ~track /\ v # "INSERT" =>
                   /\ v # "MERGE"
                   /\ ~repeats
                   /\ \A r \in rows : r.newKey = r.key
                   /\ \A q, r \in rows : q.key = r.key /\ q.origin = r.origin => q = r
               /\ v # "idle"
<1>1. CASE BeginInsert
  <2>1. PICK rows \in Batches(InsertSource(TRUE), MaxRows) :
          Start("INSERT", "INSERT", rows, FALSE, FALSE)
    BY <1>1 DEF BeginInsert
  <2>2. rows \subseteq InsertSource(TRUE)
    BY BatchesAreSubsets
  <2>3. \A r \in rows : r.by = "INSERT" /\ r.newVal \in Val /\ r.newKey = r.key
    BY <2>2, InsertShape
  <2> QED  BY <2>1, <2>3
<1>2. CASE BeginUpdate
  <2>1. PICK repeats \in BOOLEAN, moves \in BOOLEAN :
          \E rows \in Batches(UpdateSource(repeats, moves), MaxRows) :
              /\ Emitted(rows, repeats)
              /\ Start("UPDATE", "UPDATE", rows, repeats, repeats \/ moves)
    BY <1>2 DEF BeginUpdate
  <2>2. PICK rows \in Batches(UpdateSource(repeats, moves), MaxRows) :
          /\ Emitted(rows, repeats)
          /\ Start("UPDATE", "UPDATE", rows, repeats, repeats \/ moves)
    BY <2>1
  <2>3. rows \subseteq UpdateSource(repeats, moves)
    BY BatchesAreSubsets
  <2>4. \A r \in rows : /\ r.by = "UPDATE"
                        /\ r.newVal \in Val
                        /\ Names(r)
                        /\ moves \/ r.newKey = r.key
    BY <2>3, UpdateShape
  <2>5. ~repeats => \A q, r \in rows : q.key = r.key /\ q.origin = r.origin => q = r
    BY <2>2 DEF Emitted
  <2> QED  BY <2>2, <2>4, <2>5
<1>3. CASE BeginDelete
  <2>1. PICK repeats \in BOOLEAN :
          \E rows \in Batches(DeleteSource(repeats), MaxRows) :
              /\ Emitted(rows, repeats)
              /\ Start("DELETE", "DELETE", rows, repeats, repeats)
    BY <1>3 DEF BeginDelete
  <2>2. PICK rows \in Batches(DeleteSource(repeats), MaxRows) :
          /\ Emitted(rows, repeats)
          /\ Start("DELETE", "DELETE", rows, repeats, repeats)
    BY <2>1
  <2>3. rows \subseteq DeleteSource(repeats)
    BY BatchesAreSubsets
  <2>4. \A r \in rows : r.by = "DELETE" /\ r.newKey = r.key /\ Names(r)
    BY <2>3, DeleteShape
  <2>5. ~repeats => \A q, r \in rows : q.key = r.key /\ q.origin = r.origin => q = r
    BY <2>2 DEF Emitted
  <2> QED  BY <2>2, <2>4, <2>5
<1>4. CASE BeginMerge
  <2>1. PICK rows \in Batches(MergeSource, MergeRows) :
          Start("MERGE", "INSERT", rows, TRUE, TRUE)
    BY <1>4 DEF BeginMerge
  <2>2. rows \subseteq MergeSource
    BY BatchesAreSubsets
  <2>3. \A r \in rows :
          /\ r.by \in {"INSERT", "UPDATE"} => r.newVal \in Val
          /\ r.by \in {"INSERT", "DELETE"} => r.newKey = r.key
          /\ r.by \in {"UPDATE", "DELETE"} => Names(r)
    BY <2>2, InsertShape, UpdateShape, DeleteShape DEF MergeSource
  <2> QED  BY <2>1, <2>3
<1> QED  BY <1>1, <1>2, <1>3, <1>4

\* A state between statements satisfies the invariant when its values do.
LEMMA IdleKeepsInv ==
    ASSUME StatementInv, TypeOK', Idle, saved' = delta',
           \A k \in Key : delta'[k].op \in {"I", "U"} => delta'[k].val \in Val
    PROVE  StatementInv'
<1>1. /\ verb' = "idle"
      /\ input' = {}
      /\ todo' = {}
      /\ adds' = {}
      /\ removes' = {}
      /\ keys' = Nothing
      /\ ~tracked'
      /\ ~joined'
      /\ touched' = [k \in Key |-> "no"]
      /\ \A s \in Sinks, k \in Key : keys'[s][k].op = "unread"
      /\ sink' \in Sinks
  BY DEF Idle, Nothing, Unread, Sinks
<1>2. IdleInv' /\ SourceInv' /\ TouchInv' /\ ScanInv' /\ QuietInv' /\ ValueInv' /\ NoPendingRemoval'
  <2>1. SourceInv'
    BY <1>1 DEF SourceInv, PlanShape
  <2> QED
    BY <1>1, <2>1 DEF IdleInv, TouchInv, ScanInv, QuietInv, Quiet, ValueInv, NoPendingRemoval
<1>3. MapInv'
  BY <1>1 DEF MapInv, Sinks
<1>4. ShownInv'
  BY <1>1 DEF ShownInv, Quiet, Sinks
<1> QED  BY <1>2, <1>3, <1>4 DEF StatementInv, SinkInv

LEMMA BeginKeepsInv ==
    ASSUME StatementInv, TypeOK', BeginInsert \/ BeginUpdate \/ BeginDelete \/ BeginMerge
    PROVE  StatementInv'
<1>1. verb = "idle"
  BY DEF BeginInsert, BeginUpdate, BeginDelete, BeginMerge
<1>2. /\ adds = {}
      /\ removes = {}
      /\ delta = saved
      /\ touched = [k \in Key |-> "no"]
      /\ \A s \in Sinks, k \in Key : keys[s][k].op = "unread"
      /\ ValueInv
  BY <1>1 DEF StatementInv, SinkInv, IdleInv, Nothing, Unread
<1>3. PICK v, s, rows, repeats, track :
        /\ Start(v, s, rows, repeats, track)
        /\ \A r \in rows :
            /\ r.by \in {"INSERT", "UPDATE"} => r.newVal \in Val
            /\ r.by \in {"INSERT", "DELETE"} => r.newKey = r.key
            /\ r.by \in {"UPDATE", "DELETE"} => Names(r)
            /\ v # "MERGE" => r.by = v
        /\ ~track /\ v # "INSERT" =>
            /\ v # "MERGE"
            /\ ~repeats
            /\ \A r \in rows : r.newKey = r.key
            /\ \A q, r \in rows : q.key = r.key /\ q.origin = r.origin => q = r
        /\ v # "idle"
  BY <1>2, BeginShapes
<1>4. /\ verb' = v /\ sink' = s /\ input' = rows /\ todo' = rows
      /\ joined' = repeats /\ tracked' = track
      /\ UNCHANGED <<base, delta, saved, touched, keys, adds, removes>>
  BY <1>3 DEF Start
<1>5. IdleInv' /\ SourceInv'
  BY <1>3, <1>4 DEF IdleInv, SourceInv, PlanShape, RowShape, Names
<1>6. \A k \in Key : Quiet(k)'
  BY <1>2, <1>4 DEF Quiet
<1>7. TouchInv' /\ MapInv' /\ ScanInv'
  <2>1. ScanInv'
    <3>1. \A r \in todo' : r.by \in Sinks /\ r.key \in Key
      BY DEF TypeOK, Source
    <3> QED  BY <1>2, <1>4, <3>1 DEF ScanInv
  <2> QED  BY <1>2, <1>4, <2>1 DEF TouchInv, MapInv, Sinks
<1>8. ShownInv' /\ QuietInv' /\ ValueInv' /\ NoPendingRemoval'
  BY <1>2, <1>4, <1>6 DEF ShownInv, QuietInv, ValueInv, NoPendingRemoval, Sinks
<1> QED  BY <1>5, <1>7, <1>8 DEF StatementInv, SinkInv

\* A row that repeats a delete is consumed, nothing else.
LEMMA SkipKeepsInv ==
    ASSUME StatementInv, TypeOK', NEW r \in todo, DeleteSkips(r)
    PROVE  StatementInv'
<1>0. /\ UNCHANGED <<base, delta, saved, verb, input, joined, tracked, touched, keys, adds, removes>>
      /\ todo' = todo \ {r}
      /\ sink' = "DELETE"
      /\ r.by = "DELETE"
      /\ Turn(r)
      /\ AlreadyDeleted(r)
  BY DEF DeleteSkips
<1>1. /\ TouchInv
      /\ MapInv
      /\ ScanInv
      /\ ShownInv
      /\ QuietInv
      /\ ValueInv
      /\ NoPendingRemoval
      /\ IdleInv
      /\ SourceInv
  BY DEF StatementInv, SinkInv
<1>2. todo # {}
  OBVIOUS
<1>3. IdleInv' /\ SourceInv'
  BY <1>0, <1>1, <1>2 DEF IdleInv, SourceInv, PlanShape, RowShape, Names
<1>4. TouchInv' /\ MapInv' /\ ValueInv' /\ NoPendingRemoval'
  BY <1>0, <1>1 DEF TouchInv, MapInv, ValueInv, NoPendingRemoval
<1>5. ScanInv'
  BY <1>0, <1>1 DEF ScanInv, UniqueKeys, View
<1>6. ShownInv'
  BY <1>0, <1>1 DEF ShownInv, Shown, Written, Quiet
<1>7. QuietInv'
  BY <1>0, <1>1 DEF QuietInv, Quiet, Turn
<1> QED  BY <1>3, <1>4, <1>5, <1>6, <1>7 DEF StatementInv, SinkInv

\* A flush writes only buffered keys; a key the buffers leave quiet keeps its
\* delta row.
LEMMA FlushedQuiet ==
    ASSUME NEW k \in Key, Quiet(k)
    PROVE  Flushed[k] = delta[k]
BY DEF Quiet, Flushed

LEMMA FlushedValues ==
    ASSUME ValueInv, NEW k \in Key, Flushed[k].op \in {"I", "U"}
    PROVE  Flushed[k].val \in Val
<1>1. CASE \E a \in adds : a.key = k
  <2> DEFINE a == CHOOSE a \in adds : a.key = k
  <2>1. a \in adds /\ a.key = k
    BY <1>1
  <2>2. Flushed[k] = [op |-> a.op, val |-> a.val]
    BY <1>1 DEF Flushed
  <2> HIDE DEF a
  <2> QED  BY <2>1, <2>2 DEF ValueInv
<1>2. CASE ~\E a \in adds : a.key = k
  BY <1>2 DEF ValueInv, Flushed, NoRow
<1> QED  BY <1>1, <1>2

LEMMA FlushKeepsInv ==
    ASSUME StatementInv, TypeOK', FlushChunk
    PROVE  StatementInv'
<1>0. /\ UNCHANGED <<base, saved, verb, sink, input, todo, joined, tracked, touched, keys>>
      /\ delta' = Flushed
      /\ adds' = {}
      /\ removes' = {}
      /\ adds # {} \/ removes # {}
  BY DEF FlushChunk
<1>1. /\ TouchInv
      /\ MapInv
      /\ ScanInv
      /\ ShownInv
      /\ QuietInv
      /\ ValueInv
      /\ IdleInv
      /\ SourceInv
  BY DEF StatementInv, SinkInv
<1>2. IdleInv' /\ SourceInv'
  BY <1>0, <1>1 DEF IdleInv, SourceInv, PlanShape, RowShape, Names
<1>3. TouchInv' /\ MapInv' /\ NoPendingRemoval'
  BY <1>0, <1>1 DEF TouchInv, MapInv, NoPendingRemoval
<1>4. ScanInv'
  BY <1>0, <1>1 DEF ScanInv, UniqueKeys, View
<1>5. ShownInv' /\ QuietInv'
  <2>1. \A k \in Key : Quiet(k)'
    BY <1>0 DEF Quiet
  <2>2. \A k \in Key : Quiet(k) => delta'[k] = delta[k]
    BY <1>0, FlushedQuiet
  <2> QED  BY <1>0, <1>1, <2>1, <2>2 DEF ShownInv, QuietInv, Shown, Written
<1>6. ValueInv'
  BY <1>0, <1>1, FlushedValues DEF ValueInv
<1> QED  BY <1>2, <1>3, <1>4, <1>5, <1>6 DEF StatementInv, SinkInv

LEMMA BaseCommitKeepsInv ==
    ASSUME StatementInv, TypeOK', NEW k, NEW v, BaseCommit(k, v)
    PROVE  StatementInv'
<1>0. /\ verb = "idle"
      /\ UNCHANGED <<delta, saved, verb, sink, input, todo, joined, tracked, touched, keys,
                     adds, removes>>
  BY DEF BaseCommit, stmtVars
<1>1. /\ input = {}
      /\ todo = {}
      /\ delta = saved
      /\ adds = {}
      /\ removes = {}
      /\ \A s \in Sinks, j \in Key : keys[s][j].op = "unread"
      /\ TouchInv
      /\ MapInv
      /\ QuietInv
      /\ ValueInv
      /\ IdleInv
      /\ PlanShape
  BY <1>0 DEF StatementInv, SinkInv, IdleInv, Nothing, Unread, SourceInv
<1>2. IdleInv' /\ TouchInv' /\ MapInv' /\ QuietInv' /\ ValueInv'
  BY <1>0, <1>1 DEF IdleInv, TouchInv, MapInv, QuietInv, Quiet, ValueInv
<1>3. SourceInv' /\ ScanInv' /\ NoPendingRemoval'
  BY <1>0, <1>1 DEF SourceInv, PlanShape, ScanInv, NoPendingRemoval
<1>4. ShownInv'
  BY <1>0, <1>1 DEF ShownInv, Quiet, Sinks
<1> QED  BY <1>2, <1>3, <1>4 DEF StatementInv, SinkInv

\* Every step keeps the invariant, over a live base or a fixed one, whether or
\* not the base indexes its key.
LEMMA StatementInductive ==
    ASSUME StatementInv, TypeOK', [Next]_vars
    PROVE  StatementInv'
<1>1. CASE BeginInsert \/ BeginUpdate \/ BeginDelete \/ BeginMerge
  BY <1>1, BeginKeepsInv
<1>2. ASSUME NEW r \in todo, SinkRow(r)
      PROVE  StatementInv'
  BY <1>2, SinkWritesKeepInv, SkipKeepsInv DEF SinkRow, SinkWrites
<1>3. CASE FlushChunk
  BY <1>3, FlushKeepsInv
<1>4. CASE EndStatement
  BY <1>4, IdleKeepsInv DEF EndStatement, StatementInv, SinkInv, ValueInv
<1>5. CASE FailStatement
  BY <1>5, IdleKeepsInv DEF FailStatement, StatementInv, SinkInv, ValueInv
<1>6. ASSUME NEW k \in Key, NEW v \in Val \cup {Null}, BaseCommit(k, v)
      PROVE  StatementInv'
  BY <1>6, BaseCommitKeepsInv
<1>7. CASE UNCHANGED vars
  <2>1. IdleInv' /\ SourceInv'
    BY <1>7 DEF vars, stmtVars, StatementInv, IdleInv, SourceInv, PlanShape, RowShape, Names
  <2>2. TouchInv' /\ MapInv' /\ ScanInv' /\ QuietInv' /\ ValueInv' /\ NoPendingRemoval'
    BY <1>7 DEF vars, stmtVars, StatementInv, SinkInv, TouchInv, MapInv, ScanInv, UniqueKeys,
                View, QuietInv, Quiet, ValueInv, NoPendingRemoval
  <2>3. ShownInv'
    BY <1>7 DEF vars, stmtVars, StatementInv, SinkInv, ShownInv, Shown, Written, Quiet
  <2> QED  BY <2>1, <2>2, <2>3 DEF StatementInv, SinkInv
<1> QED  BY <1>1, <1>2, <1>3, <1>4, <1>5, <1>6, <1>7 DEF Next

LEMMA StatementInvariant == Spec => []StatementInv
<1>1. ASSUME Init, TypeOK
      PROVE  StatementInv
  <2>1. /\ \A s \in Sinks, k \in Key : keys[s][k].op = "unread"
        /\ \A k \in Key : delta[k].op = "none"
        /\ sink \in Sinks
    BY <1>1 DEF Init, Nothing, Unread, NoRow, Sinks
  <2>2. IdleInv /\ SourceInv
    BY <1>1 DEF Init, IdleInv, SourceInv, PlanShape
  <2>3. TouchInv /\ MapInv /\ ScanInv /\ QuietInv /\ ValueInv /\ NoPendingRemoval
    BY <1>1, <2>1 DEF Init, TouchInv, MapInv, ScanInv, QuietInv, Quiet, ValueInv, NoPendingRemoval, Sinks
  <2>4. ShownInv
    BY <1>1, <2>1 DEF Init, ShownInv, Quiet, Sinks
  <2> QED  BY <1>1, <2>2, <2>3, <2>4 DEF StatementInv, SinkInv
<1>2. StatementInv /\ TypeOK' /\ [Next]_vars => StatementInv'
  BY StatementInductive
<1> QED  BY <1>1, <1>2, TypeCorrect, PTL DEF Spec

-----------------------------------------------------------------------------
(* What the buffers and the key maps may be relied on for.                 *)

\* No sink ever removes by id a row that the statement itself wrote, whose id
\* is -1: the double-touch rule and the order of the scan see to it.
THEOREM PendingRowsAreNeverRemoved == Spec => []NoPendingRemoval
<1>1. StatementInv => NoPendingRemoval
  BY DEF StatementInv, SinkInv
<1> QED  BY <1>1, StatementInvariant, PTL

\* The row that a source row of the scenario names is known when its turn comes.
LEMMA NamedRowIsKnown ==
    ASSUME StatementInv, NEW r \in todo, r.by # "INSERT", r.origin = 1,
           tracked => touched[r.key] = "no"
    PROVE  ~LostRow(r)
<1>1. /\ r.by \in {"INSERT", "UPDATE", "DELETE"}
      /\ r.key \in Key
      /\ RowShape(r)
  BY RowFacts DEF StatementInv
<1>2. keys[r.by][r.key].op = "unread"
  <2>1. CASE tracked
    BY <1>1, <2>1 DEF StatementInv, SinkInv, TouchInv
  <2>2. CASE ~tracked
    BY <2>2, UntrackedWritesInPlace
  <2> QED  BY <2>1, <2>2
<1>3. saved[r.key].op \in {"I", "U"}
  BY <1>1 DEF RowShape, Names
<1>4. ~Written(r.key)
  <2>1. CASE tracked
    BY <2>1 DEF Written
  <2>2. CASE ~tracked
    <3>1. verb = r.by
      BY <2>2, UntrackedWritesInPlace
    <3>2. \A s \in Sinks : keys[s][r.key].op # "unread" => s = verb
      BY <1>1, <2>2 DEF StatementInv, SinkInv, MapInv
    <3> QED  BY <1>2, <2>2, <3>1, <3>2 DEF Written, Sinks
  <2> QED  BY <2>1, <2>2
<1>5. delta[r.key] = saved[r.key]
  BY <1>1, <1>3, <1>4 DEF StatementInv, SinkInv, ShownInv, Shown
<1> QED  BY <1>2, <1>3, <1>5 DEF LostRow, Known

\* No statement meets "delta row for updated/moved/deleted key not found in key
\* map", whatever other sessions commit to the base between the statements.
THEOREM KeyMapsNeverLoseARow == Spec => []NoInternalError
<1>1. ASSUME StatementInv, NEW r \in todo, r.by = "UPDATE", ~TouchRejected(r)
      PROVE  ~LostRow(r)
  <2>1. tracked => touched[r.key] = "no"
    BY <1>1 DEF TouchRejected
  <2> QED  BY <1>1, <2>1, NamedRowIsKnown, RowFacts DEF LostRow, StatementInv
<1>2. ASSUME StatementInv, NEW r \in todo, r.by = "DELETE", ~AlreadyDeleted(r), touched[r.key] # "update"
      PROVE  ~LostRow(r)
  <2>1. touched[r.key] \in {"no", "update", "delete"}
    BY RowFacts, <1>2 DEF StatementInv, TypeOK
  <2>2. tracked => touched[r.key] = "no"
    BY <1>2, <2>1 DEF AlreadyDeleted
  <2> QED  BY <1>2, <2>2, NamedRowIsKnown, RowFacts DEF LostRow, StatementInv
<1>3. StatementInv => NoInternalError
  BY <1>1, <1>2 DEF NoInternalError
<1> QED  BY <1>3, StatementInvariant, PTL

-----------------------------------------------------------------------------
(* Duplicate-key errors.                                                   *)

\* A key the INSERT sink knows has a row, buffered or flushed.
InsertInv ==
    \A k \in Key : keys["INSERT"][k].op # "unread" =>
        /\ \A a \in adds : a.key = k => a.op \in {"I", "U"}
        /\ \/ \E a \in adds : a.key = k
           \/ Quiet(k) /\ delta[k].op \in {"I", "U"}

\* The buffers hold nothing for a key its sink has not read when its turn comes.
LEMMA TurnIsQuiet ==
    ASSUME QuietInv, NEW r, Turn(r), NEW k \in Key, keys[r.by][k].op = "unread"
    PROVE  Quiet(k)
BY DEF QuietInv, Turn, Quiet

\* The keys the scan shows.
LEMMA VisibleKeys ==
    \A b, d : \A k \in Key :
        d[k].op \in {"I", "U"} \/ (d[k].op = "none" /\ b[k] # Null) => Visible(k, b, d)
<1> SUFFICES ASSUME NEW b, NEW d, NEW k \in Key,
                    d[k].op \in {"I", "U"} \/ (d[k].op = "none" /\ b[k] # Null)
             PROVE  \E row \in View(b, d) : row.key = k
  BY DEF Visible
<1>1. CASE d[k].op \in {"I", "U"}
  <2>1. [key |-> k, val |-> d[k].val, origin |-> 1] \in View(b, d)
    BY <1>1 DEF View
  <2> QED  BY <2>1
<1>2. CASE d[k].op = "none" /\ b[k] # Null
  <2>1. [key |-> k, val |-> b[k], origin |-> 0] \in View(b, d)
    BY <1>2 DEF View
  <2> QED  BY <2>1
<1> QED  BY <1>1, <1>2

\* Over an indexed base, an UPDATE or a DELETE never reaches a key that the
\* INSERT sink of its statement filled.
LEMMA InsertedKeysAreLeftAlone ==
    ASSUME KeyIndex, StatementInv, InsertInv, NEW r \in todo, SinkWrites(r), r.by # "INSERT",
           NEW k \in Cells(r)
    PROVE  keys["INSERT"][k].op = "unread"
<1>1. /\ r.by \in {"UPDATE", "DELETE"}
      /\ r.key \in Key
      /\ k \in Key
      /\ RowShape(r)
      /\ Turn(r)
  BY RowFacts, SinkFrame DEF StatementInv
<1>2. CASE ~tracked
  BY <1>1, <1>2, UntrackedWritesInPlace DEF StatementInv, SinkInv, MapInv, Sinks
<1>3. CASE tracked
  <2>1. ~Written(k) /\ keys[r.by][k].op = "unread"
    BY <1>3, TrackedCellsAreFresh DEF Written
  <2>2. CASE k = r.key
    <3>1. Shown(k)
      BY <1>1, <2>2 DEF RowShape, Names, Shown
    <3> QED  BY <1>1, <2>1, <3>1 DEF StatementInv, SinkInv, ShownInv
  <2>3. CASE k # r.key
    <3>1. k = r.newKey /\ delta[k].op \in {"none", "D"}
      BY <2>3, ClaimedKeyIsFree DEF Cells
    <3>2. Quiet(k)
      BY <1>1, <2>1, TurnIsQuiet DEF StatementInv, SinkInv
    <3> QED  BY <1>1, <3>1, <3>2 DEF InsertInv, Quiet
  <2> QED  BY <2>2, <2>3
<1> QED  BY <1>2, <1>3

LEMMA InsertInductive ==
    ASSUME KeyIndex, StatementInv, StatementInv', InsertInv, [Next]_vars
    PROVE  InsertInv'
<1>1. ASSUME \A k \in Key : keys'["INSERT"][k].op = "unread"
      PROVE  InsertInv'
  BY <1>1 DEF InsertInv
<1>2. CASE verb' = "idle"
  <2>1. keys' = Nothing
    BY <1>2 DEF StatementInv, IdleInv
  <2> QED  BY <1>1, <2>1 DEF Nothing, Unread, Sinks
<1>3. CASE BeginInsert \/ BeginUpdate \/ BeginDelete \/ BeginMerge
  <2>1. verb = "idle" /\ keys' = keys
    BY <1>3 DEF BeginInsert, BeginUpdate, BeginDelete, BeginMerge, Start
  <2>2. keys' = Nothing
    BY <2>1 DEF StatementInv, IdleInv
  <2> QED  BY <1>1, <2>2 DEF Nothing, Unread, Sinks
<1>4. ASSUME NEW r \in todo, SinkWrites(r)
      PROVE  InsertInv'
  <2>0. /\ delta' = delta
        /\ Turn(r)
        /\ \A s \in Sinks, k \in Key : s # r.by \/ k \notin Cells(r) => keys'[s][k] = keys[s][k]
        /\ adds \subseteq adds'
        /\ \A a \in adds' : a \in adds \/ a.key \in Cells(r)
        /\ removes \subseteq removes'
        /\ \A ref \in removes' : ref \in removes \/ ref.key \in Cells(r)
    BY <1>4, SinkFrame DEF StatementInv
  <2> SUFFICES ASSUME NEW k \in Key, keys'["INSERT"][k].op # "unread"
               PROVE  /\ \A a \in adds' : a.key = k => a.op \in {"I", "U"}
                      /\ \/ \E a \in adds' : a.key = k
                         \/ Quiet(k)' /\ delta'[k].op \in {"I", "U"}
    BY DEF InsertInv
  <2>1. CASE k \notin Cells(r)
    <3>1. /\ \A a \in adds : a.key = k => a.op \in {"I", "U"}
          /\ \/ \E a \in adds : a.key = k
             \/ Quiet(k) /\ delta[k].op \in {"I", "U"}
      BY <2>0, <2>1 DEF InsertInv, Sinks
    <3> QED  BY <2>0, <2>1, <3>1 DEF Quiet
  <2>2. CASE k \in Cells(r) /\ r.by # "INSERT"
    BY <1>4, <2>0, <2>2, InsertedKeysAreLeftAlone DEF Sinks
  <2>3. CASE k \in Cells(r) /\ r.by = "INSERT"
    <3>1. InsertRow(r) /\ k = r.newKey
      BY <1>4, <2>3, RowFacts
         DEF SinkWrites, UpdateInPlace, UpdateMovingKey, DeleteRow, StatementInv, RowShape, Cells
    <3>2. Quiet(k)
      BY <1>4, <2>0, <2>3, <3>1, TurnIsQuiet, ClaimedKeyIsFree DEF StatementInv, SinkInv
    <3>3. adds' = adds \cup {Append(k, ClaimOp(r), r.newVal)}
      BY <3>1 DEF InsertRow
    <3>4. PICK row : row = Append(k, ClaimOp(r), r.newVal)
      OBVIOUS
    <3>5. row.key = k /\ row.op \in {"I", "U"}
      BY <3>4 DEF Append, ClaimOp
    <3> QED  BY <3>2, <3>3, <3>4, <3>5 DEF Quiet
  <2> QED  BY <2>1, <2>2, <2>3
<1>5. ASSUME NEW r \in todo, DeleteSkips(r)
      PROVE  InsertInv'
  BY <1>5 DEF DeleteSkips, InsertInv, Quiet
<1>6. CASE FlushChunk
  <2>1. /\ delta' = Flushed
        /\ adds' = {}
        /\ removes' = {}
        /\ keys' = keys
    BY <1>6 DEF FlushChunk
  <2>2. ASSUME NEW k \in Key, keys["INSERT"][k].op # "unread"
        PROVE  Flushed[k].op \in {"I", "U"}
    <3>1. CASE \E a \in adds : a.key = k
      <4> DEFINE a == CHOOSE a \in adds : a.key = k
      <4>1. a \in adds /\ a.key = k
        BY <3>1
      <4>2. Flushed[k] = [op |-> a.op, val |-> a.val]
        BY <3>1 DEF Flushed
      <4> HIDE DEF a
      <4> QED  BY <2>2, <4>1, <4>2 DEF InsertInv
    <3>2. CASE ~\E a \in adds : a.key = k
      BY <2>2, <3>2, FlushedQuiet DEF InsertInv
    <3> QED  BY <3>1, <3>2
  <2> QED  BY <2>1, <2>2 DEF InsertInv, Quiet
<1>7. CASE UNCHANGED vars
  BY <1>7 DEF vars, stmtVars, InsertInv, Quiet
<1>8. EndStatement \/ FailStatement \/ (\E k \in Key, v \in Val \cup {Null} : BaseCommit(k, v))
        => verb' = "idle"
  BY DEF EndStatement, FailStatement, Idle, BaseCommit, stmtVars
<1> QED  BY <1>2, <1>3, <1>4, <1>5, <1>6, <1>7, <1>8 DEF Next, SinkRow, SinkWrites

\* Over an indexed base, a duplicate-key error always names a row of the table
\* as the statement has left it so far.
THEOREM DuplicateErrorsAreTrue ==
    ASSUME KeyIndex
    PROVE  Spec => []DuplicatesAreReal
<1>1. ASSUME Init
      PROVE  InsertInv
  <2>1. \A k \in Key : keys["INSERT"][k].op = "unread"
    BY <1>1 DEF Init, Nothing, Unread, Sinks
  <2> QED  BY <2>1 DEF InsertInv
<1>2. StatementInv /\ StatementInv' /\ InsertInv /\ [Next]_vars => InsertInv'
  BY InsertInductive
<1>3. ASSUME StatementInv, InsertInv
      PROVE  DuplicatesAreReal
  <2> SUFFICES ASSUME NEW r \in todo,
                      Turn(r),
                      KeyTaken(r),
                      \/ r.by = "INSERT"
                      \/ r.by = "UPDATE" /\ r.newKey # r.key /\ ~TouchRejected(r)
               PROVE  Visible(r.newKey, base, Pending)
    BY DEF DuplicatesAreReal
  <2>1. r.newKey \in Key
    BY <1>3, RowFacts DEF StatementInv
  <2>2. CASE keys[r.by][r.newKey].op = "unread"
    <3>1. Quiet(r.newKey)
      BY <1>3, <2>1, <2>2, TurnIsQuiet DEF StatementInv, SinkInv
    <3>2. Pending[r.newKey] = delta[r.newKey]
      BY <2>1, <3>1 DEF Pending, Quiet
    <3>3. Known(r.by, r.newKey).op = delta[r.newKey].op
      BY <2>2 DEF Known
    <3>4. \/ Pending[r.newKey].op \in {"I", "U"}
          \/ Pending[r.newKey].op = "none" /\ base[r.newKey] # Null
      BY <3>2, <3>3 DEF KeyTaken, BaseHolds
    <3> QED  BY <2>1, <3>4, VisibleKeys
  <2>3. CASE keys[r.by][r.newKey].op # "unread"
    <3>1. r.by = "INSERT"
      <4>1. ASSUME r.by = "UPDATE", r.newKey # r.key, ~TouchRejected(r)
            PROVE  FALSE
        <5>1. tracked
          BY <1>3, <4>1, UntrackedWritesInPlace
        <5>2. touched[r.newKey] = "no"
          BY <4>1, <5>1 DEF TouchRejected
        <5> QED  BY <1>3, <2>1, <2>3, <4>1, <5>1, <5>2 DEF StatementInv, SinkInv, TouchInv
      <4> QED  BY <4>1
    <3>2. Pending[r.newKey].op \in {"I", "U"}
      <4>1. CASE \E a \in adds : a.key = r.newKey
        <5> DEFINE a == CHOOSE a \in adds : a.key = r.newKey
        <5>1. a \in adds /\ a.key = r.newKey
          BY <4>1
        <5>2. Pending[r.newKey] = [op |-> a.op, val |-> a.val]
          BY <2>1, <4>1 DEF Pending, Flushed
        <5> HIDE DEF a
        <5> QED  BY <1>3, <2>1, <2>3, <3>1, <5>1, <5>2 DEF InsertInv
      <4>2. CASE ~\E a \in adds : a.key = r.newKey
        <5>1. Quiet(r.newKey) /\ delta[r.newKey].op \in {"I", "U"}
          BY <1>3, <2>1, <2>3, <3>1, <4>2 DEF InsertInv
        <5> QED  BY <2>1, <5>1 DEF Pending, Quiet
      <4> QED  BY <4>1, <4>2
    <3> QED  BY <2>1, <3>2, VisibleKeys
  <2> QED  BY <2>2, <2>3
<1> QED  BY <1>1, <1>2, <1>3, StatementInvariant, PTL DEF Spec

-----------------------------------------------------------------------------
(* What the rows consumed so far have done to each key.                    *)

Done == input \ todo

\* A consumed row gives the key a row, or takes the row of the key away.
Writes(d, k) == d.by \in {"INSERT", "UPDATE"} /\ d.newKey = k
Vacates(d, k) == d.by \in {"UPDATE", "DELETE"} /\ d.key = k

\* The statement found no key twice.
Keyed == UniqueKeys(base, saved)

\* A chunk holds one row per key, and removes the row it replaces.
BufferInv ==
    /\ \A a, b \in adds : a.key = b.key => a = b
    /\ \A a \in adds : delta[a.key].op # "none"
                          => [key |-> a.key, pending |-> FALSE] \in removes

\* The key maps and the touched set know exactly the rows consumed.
DoneInv ==
    /\ \A d \in Done :
        /\ d.by = "INSERT" => keys["INSERT"][d.newKey].op # "unread"
        /\ d.by # "INSERT" => Written(d.key) /\ Written(d.newKey)
    /\ \A k \in Key : Written(k) => \E d \in Done : d.by # "INSERT" /\ k \in Cells(d)
    /\ \A d \in Done : d.by = "UPDATE" /\ d.newKey # d.key => ~Shown(d.newKey)

\* No two consumed UPDATE rows share a key, old or new.
UpdatesApart ==
    \A d, e \in Done :
        d.by = "UPDATE" /\ e.by = "UPDATE" /\ (d.key = e.key \/ d.newKey = e.newKey) => d = e

\* A vacated key keeps a tombstone over a base row, and nothing otherwise.
Vacated(k) == \/ Flushed[k].op = "D"
              \/ Flushed[k].op = "none" /\ base[k] = Null

\* The delta with the buffered chunk laid over it (what a flush would leave)
\* holds, for each key, what the consumed rows did to it.
KeyEffect(k) ==
    /\ (\A d \in Done : ~Writes(d, k) /\ ~Vacates(d, k)) => Flushed[k] = saved[k]
    /\ \A d \in Done : Writes(d, k) =>
        /\ Flushed[k].op \in {"I", "U"}
        /\ Flushed[k].val = d.newVal
        /\ Flushed[k].op = "I" => base[k] = Null
    /\ (\E d \in Done : Vacates(d, k)) /\ (\A d \in Done : ~Writes(d, k)) => Vacated(k)

EffectInv ==
    /\ DoneInv
    /\ Keyed => BufferInv /\ UpdatesApart /\ \A k \in Key : KeyEffect(k)

\* A chunk laid over a delta: Flushed, with the buffers and the delta as
\* arguments.
Laid(ps, rs, d) ==
    [k \in Key |->
        IF \E a \in ps : a.key = k
        THEN LET a == CHOOSE a \in ps : a.key = k IN [op |-> a.op, val |-> a.val]
        ELSE IF [key |-> k, pending |-> FALSE] \in rs THEN NoRow
        ELSE d[k]]

LEMMA FlushedIsLaid ==
    /\ Flushed = Laid(adds, removes, delta)
    /\ Flushed' = Laid(adds', removes', delta')
BY DEF Flushed, Laid

\* The row a chunk adds for a key is what the key holds, if it adds only one.
LEMMA LaidAdds ==
    ASSUME NEW ps, NEW rs, NEW d, \A a, b \in ps : a.key = b.key => a = b,
           NEW x \in ps, NEW k \in Key, x.key = k
    PROVE  Laid(ps, rs, d)[k] = [op |-> x.op, val |-> x.val]
<1> DEFINE a == CHOOSE a \in ps : a.key = k
<1>1. a \in ps /\ a.key = k
  OBVIOUS
<1>2. a = x
  BY <1>1
<1>3. Laid(ps, rs, d)[k] = [op |-> a.op, val |-> a.val]
  BY DEF Laid
<1> QED  BY <1>2, <1>3

LEMMA LaidElse ==
    ASSUME NEW ps, NEW rs, NEW d, NEW k \in Key, \A a \in ps : a.key # k
    PROVE  Laid(ps, rs, d)[k] =
              IF [key |-> k, pending |-> FALSE] \in rs THEN NoRow ELSE d[k]
BY DEF Laid

LEMMA LaidNothing ==
    ASSUME NEW d, NEW k \in Key
    PROVE  Laid({}, {}, d)[k] = d[k]
BY DEF Laid

-----------------------------------------------------------------------------
(* What one source row does to the buffers.                                *)

\* Where the scan shows a key once, a base row's key has no delta row, and an
\* I row's key no base row.
LEMMA KeyedRow ==
    ASSUME TypeOK, Keyed, NEW k \in Key, base[k] # Null
    PROVE  saved[k].op # "I"
<1> SUFFICES ASSUME saved[k].op = "I"
             PROVE  FALSE
  OBVIOUS
<1>1. /\ [key |-> k, val |-> saved[k].val, origin |-> 1] \in View(base, saved)
      /\ [key |-> k, val |-> base[k], origin |-> 0] \in View(base, saved)
  BY DEF View
<1> QED  BY <1>1 DEF Keyed, UniqueKeys

\* The delta row behind a source row, as the sink reads it.
LEMMA NamedFacts ==
    ASSUME KeyIndex, Keyed, StatementInv, NEW r \in todo, SinkWrites(r), r.by # "INSERT"
    PROVE  /\ delta[r.key] = saved[r.key]
           /\ r.origin = 0 => /\ delta[r.key].op = "none"
                              /\ SupersededRefs(r) = {}
                              /\ base[r.key] # Null
           /\ r.origin = 1 => /\ delta[r.key].op \in {"I", "U"}
                              /\ delta[r.key].op = "I" => base[r.key] = Null
                              /\ SupersededRefs(r) = {[key |-> r.key, pending |-> FALSE]}
           /\ LeavesTombstone(r) <=> (r.origin = 0 \/ delta[r.key].op = "U")
           /\ InPlaceOp(r) = IF r.origin = 0 THEN "U" ELSE delta[r.key].op
<1>1. /\ r.by \in {"UPDATE", "DELETE"}
      /\ r.key \in Key
      /\ r.origin \in {0, 1}
      /\ Names(r)
      /\ TypeOK
  BY RowFacts DEF StatementInv, RowShape
<1>2. keys[r.by][r.key].op = "unread" /\ delta[r.key] = saved[r.key]
  BY NamedRowIsUnread DEF Keyed
<1>3. Known(r.by, r.key) = [op |-> delta[r.key].op, pending |-> FALSE]
  BY <1>2 DEF Known
<1>4. RowOf(r.by, r.key) = [key |-> r.key, pending |-> FALSE]
  BY <1>3 DEF RowOf
<1>5. saved[r.key].op \in {"I", "U", "D", "none"}
  BY <1>1 DEF TypeOK, DeltaRow, Ops
<1>6. base[r.key] # Null => saved[r.key].op # "I"
  BY <1>1, KeyedRow
<1>7. CASE r.origin = 0
  BY <1>1, <1>2, <1>3, <1>5, <1>6, <1>7 DEF Names, SupersededRefs, LeavesTombstone, InPlaceOp
<1>8. CASE r.origin = 1
  BY <1>1, <1>2, <1>3, <1>4, <1>6, <1>8 DEF Names, SupersededRefs, LeavesTombstone, InPlaceOp
<1> QED  BY <1>1, <1>7, <1>8

\* The row a claim writes, and the tombstone it replaces.
LEMMA ClaimFacts ==
    ASSUME KeyIndex, StatementInv, NEW r \in todo, SinkWrites(r),
           r.by = "INSERT" \/ r.newKey # r.key
    PROVE  /\ delta[r.newKey].op \in {"none", "D"}
           /\ delta[r.newKey].op = "D" =>
                /\ ClaimOp(r) = "U"
                /\ ClaimRefs(r) = {[key |-> r.newKey, pending |-> FALSE]}
           /\ delta[r.newKey].op = "none" =>
                /\ ClaimOp(r) = "I"
                /\ base[r.newKey] = Null
<1>1. /\ Known(r.by, r.newKey) = [op |-> delta[r.newKey].op, pending |-> FALSE]
      /\ delta[r.newKey].op \in {"none", "D"}
      /\ delta[r.newKey].op = "none" => ~BaseHolds(r.newKey)
  BY ClaimedKeyIsFree
<1>2. RowOf(r.by, r.newKey) = [key |-> r.newKey, pending |-> FALSE]
  BY <1>1 DEF RowOf
<1> QED  BY <1>1, <1>2 DEF ClaimOp, ClaimRefs, BaseHolds

\* The chunk so far holds nothing for the keys of the next row.
LEMMA CellsAreQuiet ==
    ASSUME KeyIndex, Keyed, StatementInv, NEW r \in todo, SinkWrites(r), NEW k \in Cells(r)
    PROVE  /\ k \in Key
           /\ Quiet(k)
           /\ Flushed[k] = delta[k]
           /\ r.by # "INSERT" => ~Written(k)
<1>1. /\ r.by \in {"INSERT", "UPDATE", "DELETE"}
      /\ k \in Key
      /\ RowShape(r)
      /\ Turn(r)
  BY RowFacts, SinkFrame DEF StatementInv
<1>2. keys[r.by][k].op = "unread" /\ (r.by # "INSERT" => ~Written(k))
  <2>1. CASE r.by = "INSERT"
    <3>1. k = r.newKey
      BY <1>1, <2>1 DEF RowShape, Cells
    <3> QED  BY <2>1, <3>1, ClaimedKeyIsFree
  <2>2. CASE r.by # "INSERT" /\ tracked
    BY <2>2, TrackedCellsAreFresh DEF Written
  <2>3. CASE r.by # "INSERT" /\ ~tracked
    <3>1. k = r.key
      BY <2>3, UntrackedWritesInPlace DEF Cells
    <3> QED  BY <2>3, <3>1, NamedRowIsUnread DEF Keyed
  <2> QED  BY <2>1, <2>2, <2>3
<1>3. Quiet(k)
  BY <1>1, <1>2, TurnIsQuiet DEF StatementInv, SinkInv
<1> QED  BY <1>1, <1>2, <1>3, FlushedQuiet

\* A chunk of one row per key stays one when rows of new, different keys come.
LEMMA BuffersGrow ==
    ASSUME BufferInv, NEW r, \A k \in Cells(r) : Quiet(k), delta' = delta,
           \A a \in adds' : a \in adds \/ a.key \in Cells(r),
           removes \subseteq removes',
           \A a, b \in adds' : a \notin adds /\ b \notin adds /\ a.key = b.key => a = b,
           \A a \in adds' : a \notin adds /\ delta[a.key].op # "none"
                               => [key |-> a.key, pending |-> FALSE] \in removes'
    PROVE  BufferInv'
<1>1. \A a \in adds : a.key \notin Cells(r)
  BY DEF Quiet
<1>2. \A a, b \in adds' : a.key = b.key => a = b
  BY <1>1 DEF BufferInv
<1>3. \A a \in adds' : delta'[a.key].op # "none" => [key |-> a.key, pending |-> FALSE] \in removes'
  BY DEF BufferInv
<1> QED  BY <1>2, <1>3 DEF BufferInv

\* What an INSERT leaves for its key.
LEMMA InsertEffect ==
    ASSUME KeyIndex, Keyed, StatementInv, BufferInv, NEW r \in todo, InsertRow(r)
    PROVE  /\ BufferInv'
           /\ Flushed'[r.newKey] = [op |-> ClaimOp(r), val |-> r.newVal]
<1>0. SinkWrites(r) /\ r.by = "INSERT"
  BY DEF SinkWrites, InsertRow
<1>1. PICK x : x = Append(r.newKey, ClaimOp(r), r.newVal)
  OBVIOUS
<1>2. /\ x.key = r.newKey /\ x.op = ClaimOp(r) /\ x.val = r.newVal
      /\ adds' = adds \cup {x}
      /\ removes' = removes \cup ClaimRefs(r)
      /\ delta' = delta
  BY <1>1 DEF Append, InsertRow
<1>3. r.newKey \in Key /\ Cells(r) = {r.newKey}
  BY <1>0, RowFacts DEF StatementInv, RowShape, Cells
<1>4. \A k \in Cells(r) : Quiet(k)
  BY <1>0, CellsAreQuiet
<1>5. delta[r.newKey].op # "none" => [key |-> r.newKey, pending |-> FALSE] \in removes'
  BY <1>0, <1>2, ClaimFacts
<1>6. BufferInv'
  <2>1. \A a \in adds' : a \in adds \/ a = x
    BY <1>2
  <2>2. /\ \A a \in adds' : a \in adds \/ a.key \in Cells(r)
        /\ \A a, b \in adds' : a \notin adds /\ b \notin adds /\ a.key = b.key => a = b
        /\ \A a \in adds' : a \notin adds /\ delta[a.key].op # "none"
                               => [key |-> a.key, pending |-> FALSE] \in removes'
    BY <1>2, <1>3, <1>5, <2>1
  <2> QED  BY <1>2, <1>4, <2>2, BuffersGrow
<1>7. Laid(adds', removes', delta')[r.newKey] = [op |-> x.op, val |-> x.val]
  <2>1. x \in adds' /\ \A a, b \in adds' : a.key = b.key => a = b
    BY <1>2, <1>6 DEF BufferInv
  <2> QED  BY <1>2, <1>3, <2>1, LaidAdds
<1> QED  BY <1>2, <1>6, <1>7, FlushedIsLaid

\* What an UPDATE in place leaves for its key.
LEMMA InPlaceEffect ==
    ASSUME KeyIndex, Keyed, StatementInv, BufferInv, NEW r \in todo, UpdateInPlace(r)
    PROVE  /\ BufferInv'
           /\ Flushed'[r.key] = [op |-> InPlaceOp(r), val |-> r.newVal]
<1>0. SinkWrites(r) /\ r.by = "UPDATE" /\ r.newKey = r.key
  BY DEF SinkWrites, UpdateInPlace
<1>1. PICK x : x = Append(r.key, InPlaceOp(r), r.newVal)
  OBVIOUS
<1>2. /\ x.key = r.key /\ x.op = InPlaceOp(r) /\ x.val = r.newVal
      /\ adds' = adds \cup {x}
      /\ removes' = removes \cup SupersededRefs(r)
      /\ delta' = delta
  BY <1>1 DEF Append, UpdateInPlace
<1>3. r.key \in Key /\ r.origin \in {0, 1} /\ Cells(r) = {r.key}
  BY <1>0, RowFacts DEF StatementInv, Cells
<1>4. \A k \in Cells(r) : Quiet(k)
  BY <1>0, CellsAreQuiet
<1>5. delta[r.key].op # "none" => [key |-> r.key, pending |-> FALSE] \in removes'
  BY <1>0, <1>2, <1>3, NamedFacts
<1>6. BufferInv'
  <2>1. \A a \in adds' : a \in adds \/ a = x
    BY <1>2
  <2>2. /\ \A a \in adds' : a \in adds \/ a.key \in Cells(r)
        /\ \A a, b \in adds' : a \notin adds /\ b \notin adds /\ a.key = b.key => a = b
        /\ \A a \in adds' : a \notin adds /\ delta[a.key].op # "none"
                               => [key |-> a.key, pending |-> FALSE] \in removes'
    BY <1>2, <1>3, <1>5, <2>1
  <2> QED  BY <1>2, <1>4, <2>2, BuffersGrow
<1>7. Laid(adds', removes', delta')[r.key] = [op |-> x.op, val |-> x.val]
  <2>1. x \in adds' /\ \A a, b \in adds' : a.key = b.key => a = b
    BY <1>2, <1>6 DEF BufferInv
  <2> QED  BY <1>2, <1>3, <2>1, LaidAdds
<1> QED  BY <1>2, <1>6, <1>7, FlushedIsLaid

\* What a DELETE leaves for its key.
LEMMA DeleteEffect ==
    ASSUME KeyIndex, Keyed, StatementInv, BufferInv, NEW r \in todo, DeleteRow(r)
    PROVE  /\ BufferInv'
           /\ Vacated(r.key)'
<1>0. SinkWrites(r) /\ r.by = "DELETE"
  BY DEF SinkWrites, DeleteRow
<1>1. PICK x : x = Tombstone(r.key)
  OBVIOUS
<1>2. /\ x.key = r.key /\ x.op = "D"
      /\ adds' = adds \cup IF LeavesTombstone(r) THEN {x} ELSE {}
      /\ removes' = removes \cup SupersededRefs(r)
      /\ delta' = delta
      /\ base' = base
  BY <1>1 DEF Tombstone, Append, DeleteRow, VacatedAdds
<1>3. r.key \in Key /\ r.origin \in {0, 1} /\ Cells(r) = {r.key}
  BY <1>0, RowFacts DEF StatementInv, RowShape, Cells
<1>4. \A k \in Cells(r) : Quiet(k)
  BY <1>0, CellsAreQuiet
<1>5. delta[r.key].op # "none" => [key |-> r.key, pending |-> FALSE] \in removes'
  BY <1>0, <1>2, <1>3, NamedFacts
<1>6. BufferInv'
  <2>1. \A a \in adds' : a \in adds \/ a = x
    BY <1>2
  <2>2. /\ \A a \in adds' : a \in adds \/ a.key \in Cells(r)
        /\ \A a, b \in adds' : a \notin adds /\ b \notin adds /\ a.key = b.key => a = b
        /\ \A a \in adds' : a \notin adds /\ delta[a.key].op # "none"
                               => [key |-> a.key, pending |-> FALSE] \in removes'
    BY <1>2, <1>3, <1>5, <2>1
  <2> QED  BY <1>2, <1>4, <2>2, BuffersGrow
<1>7. CASE LeavesTombstone(r)
  <2>1. x \in adds' /\ \A a, b \in adds' : a.key = b.key => a = b
    BY <1>2, <1>6, <1>7 DEF BufferInv
  <2>2. Laid(adds', removes', delta')[r.key] = [op |-> x.op, val |-> x.val]
    BY <1>2, <1>3, <2>1, LaidAdds
  <2> QED  BY <1>2, <1>6, <2>2, FlushedIsLaid DEF Vacated
<1>8. CASE ~LeavesTombstone(r)
  <2>1. /\ r.origin = 1
        /\ delta[r.key].op = "I"
        /\ base[r.key] = Null
        /\ [key |-> r.key, pending |-> FALSE] \in removes'
    BY <1>0, <1>2, <1>3, <1>8, NamedFacts
  <2>2. \A a \in adds' : a.key # r.key
    BY <1>2, <1>3, <1>4, <1>8 DEF Quiet
  <2>3. Laid(adds', removes', delta')[r.key] = NoRow
    BY <1>3, <2>1, <2>2, LaidElse
  <2> QED  BY <1>2, <1>6, <2>1, <2>3, FlushedIsLaid DEF Vacated, NoRow
<1> QED  BY <1>7, <1>8

\* What a key move leaves for its two keys.
LEMMA MoveEffect ==
    ASSUME KeyIndex, Keyed, StatementInv, BufferInv, NEW r \in todo, UpdateMovingKey(r)
    PROVE  /\ BufferInv'
           /\ Vacated(r.key)'
           /\ Flushed'[r.newKey] = [op |-> ClaimOp(r), val |-> r.newVal]
<1>0. SinkWrites(r) /\ r.by = "UPDATE" /\ r.newKey # r.key
  BY DEF SinkWrites, UpdateMovingKey
<1>1. PICK x, y : x = Tombstone(r.key) /\ y = Append(r.newKey, ClaimOp(r), r.newVal)
  OBVIOUS
<1>2. /\ x.key = r.key /\ x.op = "D"
      /\ y.key = r.newKey /\ y.op = ClaimOp(r) /\ y.val = r.newVal
      /\ adds' = adds \cup (IF LeavesTombstone(r) THEN {x} ELSE {}) \cup {y}
      /\ removes' = removes \cup SupersededRefs(r) \cup ClaimRefs(r)
      /\ delta' = delta
      /\ base' = base
  BY <1>1 DEF Tombstone, Append, UpdateMovingKey, VacatedAdds
<1>3. r.key \in Key /\ r.newKey \in Key /\ r.origin \in {0, 1} /\ Cells(r) = {r.key, r.newKey}
  BY RowFacts DEF StatementInv, Cells
<1>4. \A k \in Cells(r) : Quiet(k)
  BY <1>0, CellsAreQuiet
<1>5. /\ delta[r.key].op # "none" => [key |-> r.key, pending |-> FALSE] \in removes'
      /\ delta[r.newKey].op # "none" => [key |-> r.newKey, pending |-> FALSE] \in removes'
  BY <1>0, <1>2, <1>3, NamedFacts, ClaimFacts
<1>6. BufferInv'
  <2>1. \A a \in adds' : a \in adds \/ a = x \/ a = y
    BY <1>2
  <2>2. /\ \A a \in adds' : a \in adds \/ a.key \in Cells(r)
        /\ \A a, b \in adds' : a \notin adds /\ b \notin adds /\ a.key = b.key => a = b
        /\ \A a \in adds' : a \notin adds /\ delta[a.key].op # "none"
                               => [key |-> a.key, pending |-> FALSE] \in removes'
    BY <1>0, <1>2, <1>3, <1>5, <2>1
  <2> QED  BY <1>2, <1>4, <2>2, BuffersGrow
<1>7. Laid(adds', removes', delta')[r.newKey] = [op |-> y.op, val |-> y.val]
  <2>1. y \in adds' /\ \A a, b \in adds' : a.key = b.key => a = b
    BY <1>2, <1>6 DEF BufferInv
  <2> QED  BY <1>2, <1>3, <2>1, LaidAdds
<1>8. Vacated(r.key)'
  <2>1. CASE LeavesTombstone(r)
    <3>1. x \in adds' /\ \A a, b \in adds' : a.key = b.key => a = b
      BY <1>2, <1>6, <2>1 DEF BufferInv
    <3>2. Laid(adds', removes', delta')[r.key] = [op |-> x.op, val |-> x.val]
      BY <1>2, <1>3, <3>1, LaidAdds
    <3> QED  BY <1>2, <3>2, FlushedIsLaid DEF Vacated
  <2>2. CASE ~LeavesTombstone(r)
    <3>1. /\ base[r.key] = Null
          /\ [key |-> r.key, pending |-> FALSE] \in removes'
      BY <1>0, <1>2, <1>3, <2>2, NamedFacts
    <3>2. \A a \in adds' : a.key # r.key
      BY <1>0, <1>2, <1>3, <1>4, <2>2 DEF Quiet
    <3>3. Laid(adds', removes', delta')[r.key] = NoRow
      BY <1>3, <3>1, <3>2, LaidElse
    <3> QED  BY <1>2, <3>1, <3>3, FlushedIsLaid DEF Vacated, NoRow
  <2> QED  BY <2>1, <2>2
<1> QED  BY <1>2, <1>6, <1>7, <1>8, FlushedIsLaid

-----------------------------------------------------------------------------
(* The effect of a statement, row by row.                                  *)

LEMMA DoneGrows ==
    ASSUME TypeOK, NEW r \in todo, input' = input, todo' = todo \ {r}
    PROVE  Done' = Done \cup {r}
BY DEF Done, TypeOK

\* The keys written after a row are those before it and its own.
LEMMA WrittenGrows ==
    ASSUME StatementInv, NEW r \in todo, SinkWrites(r), NEW k \in Key
    PROVE  Written(k)' <=> Written(k) \/ (r.by # "INSERT" /\ k \in Cells(r))
<1>0. /\ tracked' = tracked
      /\ r.by \in {"INSERT", "UPDATE", "DELETE"}
      /\ \A s \in Sinks, j \in Key : s # r.by \/ j \notin Cells(r) => keys'[s][j] = keys[s][j]
      /\ \A j \in Cells(r) : keys'[r.by][j].op # "unread"
  BY SinkFrame, RowFacts DEF StatementInv
<1>1. CASE tracked
  <2>1. /\ r.by = "INSERT" => touched' = touched
        /\ k \notin Cells(r) => touched'[k] = touched[k]
        /\ r.by = "UPDATE" => \A j \in Cells(r) : touched'[j] = "update"
        /\ r.by = "DELETE" => \A j \in Cells(r) : touched'[j] = "delete"
    BY <1>1, SinkTouches DEF StatementInv
  <2> QED  BY <1>0, <1>1, <2>1 DEF Written
<1>2. CASE ~tracked
  BY <1>0, <1>2 DEF Written, Sinks
<1> QED  BY <1>1, <1>2

LEMMA DoneStep ==
    ASSUME StatementInv, DoneInv, NEW r \in todo, SinkWrites(r)
    PROVE  DoneInv'
<1>0. /\ UNCHANGED <<base, saved, input, tracked>>
      /\ Done' = Done \cup {r}
      /\ \A s \in Sinks, k \in Key : s # r.by \/ k \notin Cells(r) => keys'[s][k] = keys[s][k]
      /\ \A k \in Cells(r) : keys'[r.by][k].op # "unread"
  BY SinkFrame, DoneGrows DEF StatementInv
<1>1. /\ r.by \in {"INSERT", "UPDATE", "DELETE"}
      /\ r.key \in Cells(r)
      /\ r.newKey \in Cells(r)
      /\ Cells(r) \subseteq Key
  BY RowFacts DEF StatementInv, Cells
<1>2. \A d \in Done : d.key \in Key /\ d.newKey \in Key
  BY DEF Done, StatementInv, TypeOK, Source
<1>3. \A k \in Key : Written(k)' <=> Written(k) \/ (r.by # "INSERT" /\ k \in Cells(r))
  BY WrittenGrows
<1>4. ASSUME NEW d \in Done'
      PROVE  /\ d.by = "INSERT" => keys'["INSERT"][d.newKey].op # "unread"
             /\ d.by # "INSERT" => Written(d.key)' /\ Written(d.newKey)'
  <2>1. CASE d \in Done
    <3>1. /\ d.by = "INSERT" => keys["INSERT"][d.newKey].op # "unread"
          /\ d.by # "INSERT" => Written(d.key) /\ Written(d.newKey)
      BY <2>1 DEF DoneInv
    <3> QED  BY <1>0, <1>2, <1>3, <2>1, <3>1 DEF Sinks
  <2>2. CASE d = r
    BY <1>0, <1>1, <1>3, <2>2
  <2> QED  BY <1>0, <2>1, <2>2
<1>5. ASSUME NEW k \in Key, Written(k)'
      PROVE  \E d \in Done' : d.by # "INSERT" /\ k \in Cells(d)
  BY <1>0, <1>3, <1>5 DEF DoneInv
<1>6. ASSUME NEW d \in Done', d.by = "UPDATE", d.newKey # d.key
      PROVE  ~Shown(d.newKey)'
  <2>1. Shown(d.newKey)' <=> Shown(d.newKey)
    BY <1>0 DEF Shown
  <2>2. CASE d \in Done
    BY <1>6, <2>1, <2>2 DEF DoneInv
  <2>3. CASE d = r
    <3>1. tracked
      BY <1>6, <2>3, UntrackedWritesInPlace
    <3>2. ~Written(r.newKey)
      BY <1>1, <1>6, <2>3, <3>1, TrackedCellsAreFresh DEF Written
    <3>3. ~(Shown(r.newKey) /\ ~Written(r.newKey))
      BY <1>6, <2>3, ClaimedKeyIsFree
    <3> QED  BY <2>1, <2>3, <3>2, <3>3
  <2> QED  BY <1>0, <2>2, <2>3
<1> QED  BY <1>4, <1>5, <1>6 DEF DoneInv

\* No earlier row has touched the keys of a row whose turn it is, except that
\* an INSERT may fill a key that another sink vacated.
LEMMA NoEarlierWriter ==
    ASSUME KeyIndex, Keyed, StatementInv, EffectInv, NEW r \in todo, SinkWrites(r),
           NEW k \in Cells(r), NEW d \in Done
    PROVE  /\ ~Writes(d, k)
           /\ r.by # "INSERT" => ~Vacates(d, k) /\ (d.by # "INSERT" => d.newKey # k)
<1>1. /\ r.by \in {"INSERT", "UPDATE", "DELETE"}
      /\ k \in Key
      /\ RowShape(r)
      /\ k = r.key \/ k = r.newKey
  BY RowFacts DEF StatementInv, Cells
<1>2. Flushed[k] = delta[k] /\ (r.by # "INSERT" => ~Written(k))
  BY CellsAreQuiet
<1>3. r.by # "INSERT" => ~Vacates(d, k) /\ (d.by # "INSERT" => d.newKey # k)
  BY <1>2 DEF EffectInv, DoneInv, Vacates
<1>4. ~Writes(d, k)
  <2>1. CASE r.by = "INSERT" \/ (r.newKey # r.key /\ k = r.newKey)
    <3>1. delta[k].op \in {"none", "D"}
      <4>1. k = r.newKey
        BY <1>1, <2>1 DEF RowShape
      <4> QED  BY <2>1, <4>1, ClaimedKeyIsFree
    <3>2. Writes(d, k) => Flushed[k].op \in {"I", "U"}
      BY <1>1 DEF EffectInv, KeyEffect
    <3> QED  BY <1>2, <3>1, <3>2
  <2>2. CASE r.by # "INSERT" /\ k = r.key
    <3>1. Shown(k) /\ ~Written(k)
      BY <2>2, NamedRowIsUnread DEF Keyed
    <3>2. keys["INSERT"][k].op = "unread"
      BY <1>1, <3>1 DEF StatementInv, SinkInv, ShownInv
    <3>3. d.by = "INSERT" => d.newKey # k
      BY <3>2 DEF EffectInv, DoneInv
    <3> QED  BY <1>3, <2>2, <3>3 DEF Writes
  <2> QED  BY <1>1, <2>1, <2>2
<1> QED  BY <1>3, <1>4

\* What the row itself leaves in its cells.
LEMMA RowEffect ==
    ASSUME KeyIndex, Keyed, StatementInv, BufferInv, NEW r \in todo, SinkWrites(r)
    PROVE  /\ BufferInv'
           /\ r.by \in {"INSERT", "UPDATE"} =>
                /\ Flushed'[r.newKey].op \in {"I", "U"}
                /\ Flushed'[r.newKey].val = r.newVal
                /\ Flushed'[r.newKey].op = "I" => base[r.newKey] = Null
           /\ r.by = "DELETE" \/ r.newKey # r.key => Vacated(r.key)'
<1>1. CASE InsertRow(r)
  <2>1. r.by = "INSERT" /\ r.newKey = r.key
    BY <1>1, RowFacts DEF InsertRow, StatementInv, RowShape
  <2>2. /\ BufferInv'
        /\ Flushed'[r.newKey] = [op |-> ClaimOp(r), val |-> r.newVal]
    BY <1>1, InsertEffect
  <2>3. ClaimOp(r) \in {"I", "U"} /\ (ClaimOp(r) = "I" => base[r.newKey] = Null)
    BY <2>1, ClaimFacts
  <2> QED  BY <2>1, <2>2, <2>3
<1>2. CASE UpdateInPlace(r)
  <2>1. r.by = "UPDATE" /\ r.newKey = r.key /\ r.origin \in {0, 1}
    BY <1>2, RowFacts DEF UpdateInPlace, StatementInv
  <2>2. /\ BufferInv'
        /\ Flushed'[r.newKey] = [op |-> InPlaceOp(r), val |-> r.newVal]
    BY <1>2, <2>1, InPlaceEffect
  <2>3. InPlaceOp(r) \in {"I", "U"} /\ (InPlaceOp(r) = "I" => base[r.newKey] = Null)
    BY <2>1, NamedFacts
  <2> QED  BY <2>1, <2>2, <2>3
<1>3. CASE UpdateMovingKey(r)
  <2>1. r.by = "UPDATE" /\ r.newKey # r.key
    BY <1>3 DEF UpdateMovingKey
  <2>2. /\ BufferInv'
        /\ Vacated(r.key)'
        /\ Flushed'[r.newKey] = [op |-> ClaimOp(r), val |-> r.newVal]
    BY <1>3, MoveEffect
  <2>3. ClaimOp(r) \in {"I", "U"} /\ (ClaimOp(r) = "I" => base[r.newKey] = Null)
    BY <2>1, ClaimFacts
  <2> QED  BY <2>1, <2>2, <2>3
<1>4. CASE DeleteRow(r)
  <2>1. r.by = "DELETE"
    BY <1>4 DEF DeleteRow
  <2>2. BufferInv' /\ Vacated(r.key)'
    BY <1>4, DeleteEffect
  <2> QED  BY <2>1, <2>2
<1> QED  BY <1>1, <1>2, <1>3, <1>4 DEF SinkWrites

LEMMA EffectStep ==
    ASSUME KeyIndex, Keyed, StatementInv, EffectInv, NEW r \in todo, SinkWrites(r)
    PROVE  BufferInv' /\ UpdatesApart' /\ \A k \in Key : KeyEffect(k)'
<1>0. /\ base' = base
      /\ saved' = saved
      /\ delta' = delta
      /\ Done' = Done \cup {r}
      /\ adds \subseteq adds'
      /\ \A a \in adds' : a \in adds \/ a.key \in Cells(r)
      /\ removes \subseteq removes'
      /\ \A ref \in removes' : ref \in removes \/ ref.key \in Cells(r)
  BY SinkFrame, DoneGrows DEF StatementInv
<1>1. /\ r.by \in {"INSERT", "UPDATE", "DELETE"}
      /\ r.key \in Cells(r)
      /\ r.newKey \in Cells(r)
      /\ Cells(r) \subseteq Key
      /\ r.by \in {"INSERT", "DELETE"} => r.newKey = r.key
  BY RowFacts DEF StatementInv, Cells, RowShape
<1>2. BufferInv /\ UpdatesApart /\ \A k \in Key : KeyEffect(k)
  BY DEF EffectInv
<1>3. /\ BufferInv'
      /\ r.by \in {"INSERT", "UPDATE"} =>
           /\ Flushed'[r.newKey].op \in {"I", "U"}
           /\ Flushed'[r.newKey].val = r.newVal
           /\ Flushed'[r.newKey].op = "I" => base[r.newKey] = Null
      /\ r.by = "DELETE" \/ r.newKey # r.key => Vacated(r.key)'
  BY <1>2, RowEffect
<1>4. \A k \in Cells(r), d \in Done :
        /\ ~Writes(d, k)
        /\ r.by # "INSERT" => ~Vacates(d, k) /\ (d.by # "INSERT" => d.newKey # k)
  BY NoEarlierWriter
<1>5. UpdatesApart'
  <2>1. ASSUME NEW d \in Done, d.by = "UPDATE", r.by = "UPDATE"
        PROVE  d.key # r.key /\ d.newKey # r.newKey
    BY <1>1, <1>4, <2>1 DEF Vacates
  <2> QED  BY <1>0, <1>2, <2>1 DEF UpdatesApart
<1>6. ASSUME NEW k \in Key, k \notin Cells(r)
      PROVE  KeyEffect(k)'
  <2>1. Flushed'[k] = Flushed[k]
    <3>1. /\ \A a, b \in adds' : a.key = b.key => a = b
          /\ adds \subseteq adds'
          /\ removes \subseteq removes'
          /\ \A a \in adds' : a \in adds \/ a.key # k
          /\ \A ref \in removes' : ref \in removes \/ ref.key # k
      BY <1>0, <1>3, <1>6 DEF BufferInv
    <3>2. CASE \E a \in adds : a.key = k
      <4>1. PICK a \in adds : a.key = k
        BY <3>2
      <4>2. a \in adds' /\ \A x, y \in adds : x.key = y.key => x = y
        BY <1>2, <3>1 DEF BufferInv
      <4>3. Laid(adds, removes, delta)[k] = [op |-> a.op, val |-> a.val]
        BY <4>1, <4>2, LaidAdds
      <4>4. Laid(adds', removes', delta')[k] = [op |-> a.op, val |-> a.val]
        BY <3>1, <4>1, <4>2, LaidAdds
      <4> QED  BY <4>3, <4>4, FlushedIsLaid
    <3>3. CASE ~\E a \in adds : a.key = k
      <4>1. (\A a \in adds : a.key # k) /\ (\A a \in adds' : a.key # k)
        BY <3>1, <3>3
      <4>2. [key |-> k, pending |-> FALSE] \in removes' <=> [key |-> k, pending |-> FALSE] \in removes
        <5>1. PICK ref : ref = [key |-> k, pending |-> FALSE]
          OBVIOUS
        <5>2. ref.key = k
          BY <5>1
        <5> QED  BY <3>1, <5>1, <5>2
      <4>3. Laid(adds, removes, delta)[k] =
               IF [key |-> k, pending |-> FALSE] \in removes THEN NoRow ELSE delta[k]
        BY <4>1, LaidElse
      <4>4. Laid(adds', removes', delta')[k] =
               IF [key |-> k, pending |-> FALSE] \in removes' THEN NoRow ELSE delta'[k]
        BY <4>1, LaidElse
      <4> QED  BY <1>0, <4>2, <4>3, <4>4, FlushedIsLaid
    <3> QED  BY <3>2, <3>3
  <2>2. ~Writes(r, k) /\ ~Vacates(r, k)
    BY <1>1, <1>6 DEF Writes, Vacates
  <2> QED  BY <1>0, <1>2, <2>1, <2>2 DEF KeyEffect, Vacated, Writes, Vacates
<1>7. ASSUME NEW k \in Cells(r)
      PROVE  KeyEffect(k)'
  <2>1. \A d \in Done' : Writes(d, k) => d = r
    BY <1>0, <1>4
  <2>2. \/ Writes(r, k) /\ k = r.newKey /\ r.by \in {"INSERT", "UPDATE"}
        \/ ~Writes(r, k) /\ Vacates(r, k) /\ k = r.key /\ (r.by = "DELETE" \/ r.newKey # r.key)
    BY <1>1 DEF Writes, Vacates, Cells
  <2>3. r \in Done'
    BY <1>0
  <2>4. /\ \A d : Writes(d, k)' <=> Writes(d, k)
        /\ \A d : Vacates(d, k)' <=> Vacates(d, k)
    BY DEF Writes, Vacates
  <2>5. CASE Writes(r, k) /\ k = r.newKey /\ r.by \in {"INSERT", "UPDATE"}
    BY <1>0, <1>3, <2>1, <2>3, <2>4, <2>5 DEF KeyEffect
  <2>6. CASE ~Writes(r, k) /\ Vacates(r, k) /\ k = r.key /\ (r.by = "DELETE" \/ r.newKey # r.key)
    BY <1>3, <2>1, <2>3, <2>4, <2>6 DEF KeyEffect
  <2> QED  BY <2>2, <2>5, <2>6
<1> QED  BY <1>3, <1>5, <1>6, <1>7

\* A statement that has consumed nothing has had no effect.
LEMMA NothingDone ==
    ASSUME Done' = {}, adds' = {}, removes' = {}, delta' = saved', \A k \in Key : ~Written(k)'
    PROVE  EffectInv'
<1>1. \A k \in Key : Flushed'[k] = saved'[k]
  BY LaidNothing, FlushedIsLaid
<1>2. DoneInv' /\ BufferInv' /\ UpdatesApart'
  BY DEF DoneInv, BufferInv, UpdatesApart
<1>3. \A k \in Key : KeyEffect(k)'
  BY <1>1 DEF KeyEffect
<1> QED  BY <1>2, <1>3 DEF EffectInv

LEMMA EffectInductive ==
    ASSUME KeyIndex, StatementInv, StatementInv', EffectInv, [Next]_vars
    PROVE  EffectInv'
<1>1. ASSUME verb = "idle"
      PROVE  \A k \in Key : ~Written(k)
  BY <1>1 DEF StatementInv, IdleInv, Written, Nothing, Unread, Sinks
<1>2. CASE verb' = "idle"
  <2>1. Done' = {} /\ adds' = {} /\ removes' = {} /\ delta' = saved'
    BY <1>2 DEF StatementInv, IdleInv, Done
  <2>2. \A k \in Key : ~Written(k)'
    BY <1>2 DEF StatementInv, IdleInv, Written, Nothing, Unread, Sinks
  <2> QED  BY <2>1, <2>2, NothingDone
<1>3. CASE BeginInsert \/ BeginUpdate \/ BeginDelete \/ BeginMerge
  <2>1. /\ verb = "idle"
        /\ UNCHANGED <<base, delta, saved, touched, keys, adds, removes>>
        /\ input' = todo'
    BY <1>3 DEF BeginInsert, BeginUpdate, BeginDelete, BeginMerge, Start
  <2>2. /\ Done' = {} /\ adds' = {} /\ removes' = {} /\ delta' = saved'
        /\ touched = [k \in Key |-> "no"]
        /\ \A k \in Key, s \in Sinks : keys[s][k].op = "unread"
    BY <2>1 DEF StatementInv, IdleInv, Done, Nothing, Unread
  <2>3. \A k \in Key : ~Written(k)'
    BY <2>1, <2>2 DEF Written, Sinks
  <2> QED  BY <2>2, <2>3, NothingDone
<1>4. ASSUME base' = base, saved' = saved
      PROVE  Keyed' <=> Keyed
  BY <1>4 DEF Keyed, UniqueKeys, View
<1>5. ASSUME NEW r \in todo, SinkWrites(r)
      PROVE  EffectInv'
  <2>1. base' = base /\ saved' = saved
    BY <1>5, SinkFrame DEF StatementInv
  <2> QED  BY <1>4, <1>5, <2>1, DoneStep, EffectStep DEF EffectInv
<1>6. ASSUME NEW r \in todo, DeleteSkips(r)
      PROVE  EffectInv'
  <2>0. /\ UNCHANGED <<base, delta, saved, input, tracked, touched, keys, adds, removes>>
        /\ Done' = Done \cup {r}
        /\ r.by = "DELETE"
        /\ tracked
        /\ touched[r.key] = "delete"
    BY <1>6, DoneGrows DEF DeleteSkips, AlreadyDeleted, StatementInv
  <2>1. /\ r.key \in Key
        /\ r.newKey = r.key
        /\ Names(r)
    BY <2>0, RowFacts DEF StatementInv, RowShape
  <2>2. Shown(r.key) /\ Written(r.key)
    BY <2>0, <2>1 DEF Names, Shown, Written
  <2>3. PICK e \in Done : e.by # "INSERT" /\ r.key \in Cells(e)
    BY <2>1, <2>2 DEF EffectInv, DoneInv
  <2>4. Vacates(e, r.key)
    <3>1. e.by \in {"UPDATE", "DELETE"} /\ (e.by = "DELETE" => e.newKey = e.key)
      BY <2>3 DEF Done, StatementInv, TypeOK, Source, Sinks, SourceInv, RowShape
    <3>2. e.key = r.key
      BY <2>2, <2>3, <3>1 DEF EffectInv, DoneInv, Cells
    <3> QED  BY <3>1, <3>2 DEF Vacates
  <2>5. DoneInv'
    <3>1. \A k \in Key : Written(k)' <=> Written(k)
      BY <2>0 DEF Written
    <3>2. \A d \in Done : d.key \in Key /\ d.newKey \in Key
      BY DEF Done, StatementInv, TypeOK, Source
    <3>3. \A k : Shown(k)' <=> Shown(k)
      BY <2>0 DEF Shown
    <3> QED  BY <2>0, <2>1, <2>2, <3>1, <3>2, <3>3 DEF EffectInv, DoneInv
  <2>6. ASSUME Keyed
        PROVE  BufferInv' /\ UpdatesApart' /\ \A k \in Key : KeyEffect(k)'
    <3>1. BufferInv' /\ UpdatesApart'
      BY <2>0, <2>6 DEF EffectInv, BufferInv, UpdatesApart
    <3>2. ASSUME NEW k \in Key
          PROVE  KeyEffect(k)'
      <4>1. /\ Flushed' = Flushed
            /\ \A d : Writes(d, k)' <=> Writes(d, k)
            /\ \A d : Vacates(d, k)' <=> Vacates(d, k)
            /\ Vacated(k)' <=> Vacated(k)
        BY <2>0, FlushedIsLaid DEF Writes, Vacates, Vacated
      <4>2. KeyEffect(k)
        BY <2>6 DEF EffectInv
      <4>3. ~Writes(r, k) /\ (Vacates(r, k) => k = r.key)
        BY <2>0 DEF Writes, Vacates
      <4> QED  BY <2>0, <2>4, <4>1, <4>2, <4>3 DEF KeyEffect
    <3> QED  BY <3>1, <3>2
  <2> QED  BY <1>4, <2>0, <2>5, <2>6 DEF EffectInv
<1>7. CASE FlushChunk
  <2>0. /\ UNCHANGED <<base, saved, input, todo, tracked, touched, keys>>
        /\ delta' = Flushed
        /\ adds' = {}
        /\ removes' = {}
        /\ Done' = Done
    BY <1>7 DEF FlushChunk, Done
  <2>1. DoneInv'
    <3>1. \A k : (Written(k)' <=> Written(k)) /\ (Shown(k)' <=> Shown(k))
      BY <2>0 DEF Written, Shown
    <3> QED  BY <2>0, <3>1 DEF EffectInv, DoneInv
  <2>2. ASSUME Keyed
        PROVE  BufferInv' /\ UpdatesApart' /\ \A k \in Key : KeyEffect(k)'
    <3>1. BufferInv' /\ UpdatesApart'
      BY <2>0, <2>2 DEF EffectInv, BufferInv, UpdatesApart
    <3>2. ASSUME NEW k \in Key
          PROVE  KeyEffect(k)'
      <4>1. Flushed'[k] = Flushed[k]
        BY <2>0, LaidNothing, FlushedIsLaid
      <4>2. /\ \A d : Writes(d, k)' <=> Writes(d, k)
            /\ \A d : Vacates(d, k)' <=> Vacates(d, k)
            /\ Vacated(k)' <=> Vacated(k)
        BY <2>0, <4>1 DEF Writes, Vacates, Vacated
      <4>3. KeyEffect(k)
        BY <2>2 DEF EffectInv
      <4> QED  BY <2>0, <4>1, <4>2, <4>3 DEF KeyEffect
    <3> QED  BY <3>1, <3>2
  <2> QED  BY <1>4, <2>0, <2>1, <2>2 DEF EffectInv
<1>8. CASE UNCHANGED vars
  <2>0. /\ UNCHANGED <<base, delta, saved, input, todo, tracked, touched, keys, adds, removes>>
        /\ Done' = Done
        /\ Flushed' = Flushed
    BY <1>8, FlushedIsLaid DEF vars, stmtVars, Done
  <2>1. DoneInv'
    <3>1. \A k : (Written(k)' <=> Written(k)) /\ (Shown(k)' <=> Shown(k))
      BY <2>0 DEF Written, Shown
    <3> QED  BY <2>0, <3>1 DEF EffectInv, DoneInv
  <2>2. ASSUME Keyed
        PROVE  BufferInv' /\ UpdatesApart' /\ \A k \in Key : KeyEffect(k)'
    BY <2>0, <2>2 DEF EffectInv, BufferInv, UpdatesApart, KeyEffect, Vacated, Writes, Vacates
  <2> QED  BY <1>4, <2>0, <2>1, <2>2 DEF EffectInv
<1>9. EndStatement \/ FailStatement \/ (\E k \in Key, v \in Val \cup {Null} : BaseCommit(k, v))
        => verb' = "idle"
  BY DEF EndStatement, FailStatement, Idle, BaseCommit, stmtVars
<1> QED  BY <1>2, <1>3, <1>5, <1>6, <1>7, <1>8, <1>9 DEF Next, SinkRow, SinkWrites

LEMMA EffectInvariant ==
    ASSUME KeyIndex
    PROVE  Spec => []EffectInv
<1>1. ASSUME Init, StatementInv
      PROVE  EffectInv
  <2>1. /\ Done = {} /\ adds = {} /\ removes = {} /\ delta = saved
        /\ ~tracked
        /\ \A s \in Sinks, k \in Key : keys[s][k].op = "unread"
    BY <1>1 DEF Init, Done, Nothing, Unread
  <2>2. \A k \in Key : ~Written(k)
    BY <2>1 DEF Written, Sinks
  <2>3. \A k \in Key : Flushed[k] = saved[k]
    BY <2>1, LaidNothing, FlushedIsLaid
  <2>4. DoneInv /\ BufferInv /\ UpdatesApart /\ \A k \in Key : KeyEffect(k)
    BY <2>1, <2>2, <2>3 DEF DoneInv, BufferInv, UpdatesApart, KeyEffect
  <2> QED  BY <2>4 DEF EffectInv
<1>2. StatementInv /\ StatementInv' /\ EffectInv /\ [Next]_vars => EffectInv'
  BY EffectInductive
<1> QED  BY <1>1, <1>2, StatementInvariant, PTL DEF Spec

-----------------------------------------------------------------------------
(* What a statement promises.                                              *)

\* The delta's own primary-key index accepts every chunk: a statement fails
\* only on a duplicate that a sink has found first.
THEOREM FlushesAreAccepted ==
    ASSUME KeyIndex
    PROVE  Spec => []FlushAccepted
<1>1. EffectInv => FlushAccepted
  BY DEF EffectInv, BufferInv, Keyed, FlushAccepted, FlushConflict
<1> QED  BY <1>1, EffectInvariant, PTL

\* What the consumed rows did, once the last chunk is flushed.
LEMMA EndEffect ==
    ASSUME KeyIndex, StatementInv, EffectInv, Keyed, EndStatement, NEW k \in Key
    PROVE  /\ base' = base
           /\ (\A d \in input : ~Writes(d, k) /\ ~Vacates(d, k)) => saved'[k] = saved[k]
           /\ \A d \in input : Writes(d, k) =>
                /\ saved'[k].op \in {"I", "U"}
                /\ saved'[k].val = d.newVal
                /\ saved'[k].op = "I" => base[k] = Null
           /\ (\E d \in input : Vacates(d, k)) /\ (\A d \in input : ~Writes(d, k)) =>
                \/ saved'[k].op = "D"
                \/ saved'[k].op = "none" /\ base[k] = Null
<1>1. /\ Done = input
      /\ base' = base
      /\ saved' = delta
      /\ adds = {} /\ removes = {}
  BY DEF EndStatement, Done
<1>2. Flushed[k] = delta[k]
  BY <1>1, LaidNothing, FlushedIsLaid
<1>3. KeyEffect(k)
  BY DEF EffectInv
<1> QED  BY <1>1, <1>2, <1>3 DEF KeyEffect, Vacated

\* The keys of consumed UPDATE and DELETE rows showed a row at the start.
LEMMA VacatedWasShown ==
    ASSUME KeyIndex, StatementInv, NEW d \in input, NEW k, Vacates(d, k)
    PROVE  /\ k \in Key
           /\ Names(d)
           /\ Shown(k)
<1>1. d.key \in Key /\ RowShape(d)
  BY DEF StatementInv, SourceInv, TypeOK, Source
<1> QED  BY <1>1 DEF Vacates, RowShape, Names, Shown

\* A row written over a row the scan showed came after that row was taken away.
LEMMA WrittenOverVacated ==
    ASSUME StatementInv, EffectInv, NEW d \in Done, NEW k \in Key, Writes(d, k), Shown(k)
    PROVE  \E e \in Done : Vacates(e, k)
<1>1. Written(k)
  <2>1. CASE d.by = "INSERT"
    <3>1. keys["INSERT"][k].op # "unread"
      BY <2>1 DEF EffectInv, DoneInv, Writes
    <3> QED  BY <3>1 DEF StatementInv, SinkInv, ShownInv
  <2>2. CASE d.by # "INSERT"
    BY <2>2 DEF EffectInv, DoneInv, Writes
  <2> QED  BY <2>1, <2>2
<1>2. PICK e \in Done : e.by # "INSERT" /\ k \in Cells(e)
  BY <1>1 DEF EffectInv, DoneInv
<1>3. e.by \in {"UPDATE", "DELETE"} /\ (e.by = "DELETE" => e.newKey = e.key)
  BY <1>2 DEF Done, StatementInv, TypeOK, Source, Sinks, SourceInv, RowShape
<1>4. e.key = k
  BY <1>2, <1>3 DEF EffectInv, DoneInv, Cells
<1> QED  BY <1>3, <1>4 DEF Vacates

\* A statement that completes has replaced exactly the rows it was fed by their
\* post-images: over an indexed base, whatever the chunks, the order of the
\* rows, the sinks they went to, and what other sessions committed before.
LEMMA StatementEnds ==
    ASSUME KeyIndex, StatementInv, EffectInv, EndStatement, Keyed
    PROVE  View(base', saved') = Expected
<1>0. Done = input
  BY DEF EndStatement, Done
<1>1. ASSUME NEW x \in View(base', saved')
      PROVE  x \in Expected
  <2>0. PICK k \in Key :
          \/ x = [key |-> k, val |-> saved'[k].val, origin |-> 1] /\ saved'[k].op \in {"I", "U"}
          \/ /\ x = [key |-> k, val |-> base'[k], origin |-> 0]
             /\ base'[k] # Null
             /\ saved'[k].op \notin {"U", "D"}
    BY <1>1 DEF View
  <2>1. CASE \A d \in input : ~Writes(d, k) /\ ~Vacates(d, k)
    <3>1. saved'[k] = saved[k] /\ base' = base
      BY <2>1, EndEffect
    <3>2. x \in View(base, saved) /\ x.key = k
      BY <2>0, <3>1 DEF View
    <3>3. x \notin NamedRows(Fed("UPDATE") \cup Fed("DELETE"))
      BY <2>1, <3>2 DEF NamedRows, Fed, Vacates
    <3> QED  BY <3>2, <3>3 DEF Expected
  <2>2. ASSUME NEW d \in input, Writes(d, k)
        PROVE  x \in Expected
    <3>1. /\ saved'[k].op \in {"I", "U"}
          /\ saved'[k].val = d.newVal
          /\ saved'[k].op = "I" => base[k] = Null
          /\ base' = base
      BY <2>2, EndEffect
    <3>2. x = [key |-> d.newKey, val |-> d.newVal, origin |-> 1]
      BY <2>0, <2>2, <3>1 DEF Writes
    <3>3. d \in Fed("INSERT") \cup Fed("UPDATE")
      BY <2>2 DEF Fed, Writes
    <3> QED  BY <3>2, <3>3 DEF Expected, PostImage
  <2>3. CASE (\E d \in input : Vacates(d, k)) /\ (\A d \in input : ~Writes(d, k))
    <3>1. /\ saved'[k].op = "D" \/ (saved'[k].op = "none" /\ base[k] = Null)
          /\ base' = base
      BY <2>3, EndEffect
    <3> QED  BY <2>0, <3>1
  <2> QED  BY <2>1, <2>2, <2>3
<1>2. ASSUME NEW x \in View(base, saved), x \notin NamedRows(Fed("UPDATE") \cup Fed("DELETE"))
      PROVE  x \in View(base', saved')
  <2>0. PICK k \in Key :
          \/ x = [key |-> k, val |-> saved[k].val, origin |-> 1] /\ saved[k].op \in {"I", "U"}
          \/ /\ x = [key |-> k, val |-> base[k], origin |-> 0]
             /\ base[k] # Null
             /\ saved[k].op \notin {"U", "D"}
    BY <1>2 DEF View
  <2>1. x.key = k
    BY <2>0
  <2>2. ASSUME NEW d \in input, Vacates(d, k)
        PROVE  FALSE
    <3>1. Names(d) /\ d.key = k
      BY <2>2, VacatedWasShown DEF Vacates
    <3>2. PICK y \in View(base, saved) : y.key = k /\ y.origin = d.origin
      <4>1. CASE d.origin = 0 /\ base[k] # Null /\ saved[k].op \notin {"U", "D"}
        <5>1. [key |-> k, val |-> base[k], origin |-> 0] \in View(base, saved)
          BY <4>1 DEF View
        <5> QED  BY <4>1, <5>1
      <4>2. CASE d.origin = 1 /\ saved[k].op \in {"I", "U"}
        <5>1. [key |-> k, val |-> saved[k].val, origin |-> 1] \in View(base, saved)
          BY <4>2 DEF View
        <5> QED  BY <4>2, <5>1
      <4> QED  BY <3>1, <4>1, <4>2 DEF Names
    <3>3. x = y
      BY <2>1, <3>2 DEF Keyed, UniqueKeys
    <3>4. d \in Fed("UPDATE") \cup Fed("DELETE")
      BY <2>2 DEF Fed, Vacates
    <3> QED  BY <1>2, <3>1, <3>2, <3>3, <3>4 DEF NamedRows
  <2>3. \A d \in input : ~Writes(d, k)
    <3>1. Shown(k)
      BY <2>0 DEF Shown
    <3> QED  BY <1>0, <2>2, <3>1, WrittenOverVacated
  <2>4. saved'[k] = saved[k] /\ base' = base
    BY <2>2, <2>3, EndEffect
  <2> QED  BY <2>0, <2>4 DEF View
<1>3. ASSUME NEW d \in Fed("INSERT") \cup Fed("UPDATE")
      PROVE  PostImage(d) \in View(base', saved')
  <2>1. d \in input /\ d.newKey \in Key /\ Writes(d, d.newKey)
    BY DEF Fed, Writes, StatementInv, TypeOK, Source
  <2>2. /\ saved'[d.newKey].op \in {"I", "U"}
        /\ saved'[d.newKey].val = d.newVal
    BY <2>1, EndEffect
  <2> QED  BY <2>1, <2>2 DEF View, PostImage
<1> QED  BY <1>1, <1>2, <1>3 DEF Expected

THEOREM StatementsHaveTheirEffect ==
    ASSUME KeyIndex
    PROVE  Spec => StatementEffect
<1>1. StatementInv /\ EffectInv =>
        (EndStatement /\ UniqueKeys(base, saved) => View(base', saved') = Expected)
  BY StatementEnds DEF Keyed
<1> QED  BY <1>1, StatementInvariant, EffectInvariant, PTL DEF Spec, StatementEffect

-----------------------------------------------------------------------------
(* The scenario table is an ordinary table.                                *)

\* The rows of the table, key by key.
LEMMA MergedFacts ==
    ASSUME TypeOK, ValueInv
    PROVE  /\ MergedRows \in [Key -> Val \cup {Null}]
           /\ KeyIndex => \A k \in Key : Shown(k) <=> MergedRows[k] # Null
<1>1. \A k \in Key : saved[k].op \in {"I", "U", "D", "none"} /\ saved[k].val \in Val \cup {Null}
  BY DEF TypeOK, DeltaRow, Ops
<1>2. MergedRows \in [Key -> Val \cup {Null}]
  BY <1>1 DEF MergedRows, TypeOK
<1>3. ASSUME KeyIndex, NEW k \in Key
      PROVE  Shown(k) <=> MergedRows[k] # Null
  <2>1. CASE saved[k].op \in {"I", "U"}
    BY <2>1, DmlAssumption DEF MergedRows, ValueInv, Shown
  <2>2. CASE saved[k].op \in {"D", "none"}
    BY <1>3, <2>2 DEF MergedRows, Shown
  <2> QED  BY <1>1, <2>1, <2>2
<1> QED  BY <1>2, <1>3

\* What the consumed rows did to the table.
LEMMA MergedEffect ==
    ASSUME KeyIndex, StatementInv, EffectInv, Keyed, EndStatement, NEW k \in Key
    PROVE  /\ (\A d \in input : ~Writes(d, k) /\ ~Vacates(d, k)) => MergedRows'[k] = MergedRows[k]
           /\ \A d \in input : Writes(d, k) => MergedRows'[k] = d.newVal
           /\ (\E d \in input : Vacates(d, k)) /\ (\A d \in input : ~Writes(d, k))
                => MergedRows'[k] = Null
<1>1. /\ base' = base
      /\ (\A d \in input : ~Writes(d, k) /\ ~Vacates(d, k)) => saved'[k] = saved[k]
      /\ \A d \in input : Writes(d, k) =>
           /\ saved'[k].op \in {"I", "U"}
           /\ saved'[k].val = d.newVal
      /\ (\E d \in input : Vacates(d, k)) /\ (\A d \in input : ~Writes(d, k)) =>
           \/ saved'[k].op = "D"
           \/ saved'[k].op = "none" /\ base[k] = Null
  BY EndEffect
<1>2. (\A d \in input : ~Writes(d, k) /\ ~Vacates(d, k)) => MergedRows'[k] = MergedRows[k]
  BY <1>1 DEF MergedRows
<1>3. ASSUME NEW d \in input, Writes(d, k)
      PROVE  MergedRows'[k] = d.newVal
  BY <1>1, <1>3 DEF MergedRows
<1>4. ASSUME NEW d \in input, Vacates(d, k), \A e \in input : ~Writes(e, k)
      PROVE  MergedRows'[k] = Null
  BY <1>1, <1>4 DEF MergedRows
<1> QED  BY <1>2, <1>3, <1>4

\* The rows of a statement other than a MERGE are all for its sink.
LEMMA OneSink ==
    ASSUME StatementInv, verb # "MERGE", NEW d \in input
    PROVE  /\ d.by = verb
           /\ d.key \in Key
           /\ d.newKey \in Key
           /\ d.by # "UPDATE" => d.newKey = d.key
           /\ d.by # "DELETE" => d.newVal \in Val
BY DEF StatementInv, SourceInv, RowShape, TypeOK, Source, Sinks

LEMMA InsertImplements ==
    ASSUME KeyIndex, StatementInv, EffectInv, Keyed, EndStatement, verb = "INSERT"
    PROVE  Ordinary!Insert
<1> DEFINE S == {d.newKey : d \in input}
           new == [k \in S |-> MergedRows'[k]]
<1>0. Done = input /\ verb' = "idle"
  BY DEF EndStatement, Done, Idle
<1>1. \A d \in input : /\ d.by = "INSERT"
                       /\ d.newKey \in Key
                       /\ d.newVal \in Val
                       /\ Writes(d, d.newKey)
  BY OneSink DEF Writes
<1>2. S \subseteq Key
  BY <1>1
<1>3. \A k \in S : MergedRows'[k] \in Val
  BY <1>1, MergedEffect
<1>4. new \in [S -> Val]
  BY <1>3
<1>5. \A k \in S : MergedRows[k] = Null
  <2>1. ASSUME NEW d \in input
        PROVE  ~Shown(d.newKey)
    <3>1. ~(\E e \in Done : Vacates(e, d.newKey))
      BY <1>0, <1>1 DEF Vacates
    <3> QED  BY <1>0, <1>1, <3>1, WrittenOverVacated
  <2>2. \A k \in Key : Shown(k) <=> MergedRows[k] # Null
    BY MergedFacts DEF StatementInv, SinkInv
  <2> QED  BY <1>2, <2>1, <2>2
<1>6. S \in SUBSET (Key \ Ordinary!Present)
  BY <1>2, <1>5 DEF Ordinary!Present
<1>7. \A k \in Key : MergedRows'[k] = IF k \in S THEN new[k] ELSE MergedRows[k]
  <2>1. ASSUME NEW k \in Key, k \notin S
        PROVE  MergedRows'[k] = MergedRows[k]
    <3>1. \A d \in input : ~Writes(d, k) /\ ~Vacates(d, k)
      BY <1>1, <2>1 DEF Writes, Vacates
    <3> QED  BY <3>1, MergedEffect
  <2> QED  BY <2>1
<1>8. MergedRows' = [k \in Key |-> IF k \in S THEN new[k] ELSE MergedRows[k]]
  <2> HIDE DEF S, new
  <2> QED  BY <1>7 DEF MergedRows
<1> HIDE DEF S, new
<1> QED  BY <1>0, <1>4, <1>6, <1>8 DEF Ordinary!Insert, Ordinary!Ends

LEMMA DeleteImplements ==
    ASSUME KeyIndex, StatementInv, EffectInv, Keyed, EndStatement, verb = "DELETE"
    PROVE  Ordinary!Delete
<1> DEFINE S == {d.key : d \in input}
<1>0. verb' = "idle"
  BY DEF EndStatement, Idle
<1>1. \A d \in input : d.by = "DELETE" /\ d.key \in Key /\ Vacates(d, d.key)
  BY OneSink DEF Vacates
<1>2. S \in SUBSET Ordinary!Present
  <2>1. \A d \in input : Shown(d.key)
    BY <1>1, VacatedWasShown
  <2>2. \A k \in Key : Shown(k) <=> MergedRows[k] # Null
    BY MergedFacts DEF StatementInv, SinkInv
  <2> QED  BY <1>1, <2>1, <2>2 DEF Ordinary!Present
<1>3. \A k \in Key : MergedRows'[k] = IF k \in S THEN Null ELSE MergedRows[k]
  <2>1. ASSUME NEW k \in Key, k \in S
        PROVE  MergedRows'[k] = Null
    <3>1. /\ \E d \in input : Vacates(d, k)
          /\ \A d \in input : ~Writes(d, k)
      BY <1>1, <2>1 DEF Writes
    <3> QED  BY <3>1, MergedEffect
  <2>2. ASSUME NEW k \in Key, k \notin S
        PROVE  MergedRows'[k] = MergedRows[k]
    <3>1. \A d \in input : ~Writes(d, k) /\ ~Vacates(d, k)
      BY <1>1, <2>2 DEF Writes, Vacates
    <3> QED  BY <3>1, MergedEffect
  <2> QED  BY <2>1, <2>2
<1>4. MergedRows' = [k \in Key |-> IF k \in S THEN Null ELSE MergedRows[k]]
  <2> HIDE DEF S
  <2> QED  BY <1>3 DEF MergedRows
<1> HIDE DEF S
<1> QED  BY <1>0, <1>2, <1>4 DEF Ordinary!Delete, Ordinary!Ends

LEMMA UpdateImplements ==
    ASSUME KeyIndex, StatementInv, EffectInv, Keyed, EndStatement, verb = "UPDATE"
    PROVE  Ordinary!Update
<1> DEFINE S == {d.key : d \in input}
           row(k) == CHOOSE d \in input : d.key = k
           to == [k \in S |-> row(k).newKey]
           new == [k \in S |-> row(k).newVal]
<1>0. Done = input /\ verb' = "idle"
  BY DEF EndStatement, Done, Idle
<1>1. \A d \in input : /\ d.by = "UPDATE"
                       /\ d.key \in Key
                       /\ d.newKey \in Key
                       /\ d.newVal \in Val
                       /\ Vacates(d, d.key)
                       /\ Writes(d, d.newKey)
  BY OneSink DEF Writes, Vacates
<1>2. \A d, e \in input : d.key = e.key \/ d.newKey = e.newKey => d = e
  BY <1>0, <1>1 DEF EffectInv, UpdatesApart
<1>3. \A d \in input : d.key \in S /\ row(d.key) = d /\ to[d.key] = d.newKey /\ new[d.key] = d.newVal
  <2>1. \A d \in input : d.key \in S
    OBVIOUS
  <2>2. ASSUME NEW d \in input
        PROVE  row(d.key) = d
    <3>1. row(d.key) \in input /\ row(d.key).key = d.key
      OBVIOUS
    <3> QED  BY <1>2, <3>1
  <2> QED  BY <2>1, <2>2
<1>4. \A k \in S : \E d \in input : d.key = k
  OBVIOUS
<1>5. to \in [S -> Key] /\ new \in [S -> Val]
  <2> HIDE DEF row, S
  <2>1. \A k \in S : to[k] \in Key /\ new[k] \in Val
    <3> HIDE DEF to, new
    <3> QED  BY <1>1, <1>3, <1>4
  <2> QED  BY <2>1
<1>6. S \in SUBSET Ordinary!Present
  <2>1. \A d \in input : Shown(d.key)
    BY <1>1, VacatedWasShown
  <2>2. \A k \in Key : Shown(k) <=> MergedRows[k] # Null
    BY MergedFacts DEF StatementInv, SinkInv
  <2> QED  BY <1>1, <2>1, <2>2 DEF Ordinary!Present
<1> HIDE DEF row, S, to, new
<1>7. \A k, l \in S : to[k] = to[l] => k = l
  BY <1>2, <1>3, <1>4
<1>8. \A k \in S : to[k] \in S \cup (Key \ Ordinary!Present)
  <2>1. ASSUME NEW d \in input, d.newKey # d.key
        PROVE  MergedRows[d.newKey] = Null
    <3>1. ~Shown(d.newKey)
      BY <1>0, <1>1, <2>1 DEF EffectInv, DoneInv
    <3>2. \A k \in Key : Shown(k) <=> MergedRows[k] # Null
      BY MergedFacts DEF StatementInv, SinkInv
    <3> QED  BY <1>1, <3>1, <3>2
  <2> QED  BY <1>1, <1>3, <1>4, <2>1 DEF Ordinary!Present
<1>9. ASSUME NEW k \in Key
      PROVE  MergedRows'[k] = IF \E s \in S : to[s] = k
                              THEN new[CHOOSE s \in S : to[s] = k]
                              ELSE IF k \in S THEN Null ELSE MergedRows[k]
  <2>1. ASSUME NEW s \in S, to[s] = k
        PROVE  MergedRows'[k] = new[CHOOSE t \in S : to[t] = k]
    <3>1. PICK d \in input : d.key = s
      BY <1>4
    <3>2. d.newKey = k /\ new[s] = d.newVal
      BY <1>3, <2>1, <3>1
    <3>3. (CHOOSE t \in S : to[t] = k) = s
      BY <1>7, <2>1
    <3>4. MergedRows'[k] = d.newVal
      BY <1>1, <3>1, <3>2, MergedEffect
    <3> QED  BY <3>2, <3>3, <3>4
  <2>2. ASSUME ~\E s \in S : to[s] = k
        PROVE  MergedRows'[k] = IF k \in S THEN Null ELSE MergedRows[k]
    <3>1. \A d \in input : ~Writes(d, k)
      BY <1>3, <2>2 DEF Writes
    <3>2. CASE k \in S
      <4>1. \E d \in input : Vacates(d, k)
        BY <1>1, <1>4, <3>2
      <4> QED  BY <3>1, <3>2, <4>1, MergedEffect
    <3>3. CASE k \notin S
      <4>1. \A d \in input : ~Vacates(d, k)
        BY <1>3, <3>3 DEF Vacates
      <4> QED  BY <3>1, <3>3, <4>1, MergedEffect
    <3> QED  BY <3>2, <3>3
  <2> QED  BY <2>1, <2>2
<1>10. MergedRows' = [k \in Key |-> IF \E s \in S : to[s] = k
                                    THEN new[CHOOSE s \in S : to[s] = k]
                                    ELSE IF k \in S THEN Null ELSE MergedRows[k]]
  BY <1>9 DEF MergedRows
<1> QED  BY <1>0, <1>5, <1>6, <1>7, <1>8, <1>10 DEF Ordinary!Update, Ordinary!Ends

\* Over a base nobody changes, with an index on the key, the statements of the
\* scenario table are those of an ordinary table with a primary key: each one
\* that succeeds takes effect at its end, in one step, as a statement of its
\* kind; one that fails changes nothing, whatever it had flushed.
THEOREM ScenarioTableIsOrdinary ==
    ASSUME ~LiveBase, KeyIndex
    PROVE  Spec => ImplementsOrdinaryTable
<1>1. ASSUME Init, StatementInv
      PROVE  Ordinary!Init
  <2>1. MergedRows \in [Key -> Val \cup {Null}]
    BY <1>1, MergedFacts DEF StatementInv, SinkInv
  <2> QED  BY <1>1, <2>1 DEF Init, Ordinary!Init
<1>2. ASSUME CanonicalInv, TypeOK
      PROVE  Keyed
  <2>1. \A x \in View(base, saved) :
          /\ x.key \in Key
          /\ \/ /\ saved[x.key].op \in {"I", "U"}
                /\ x = [key |-> x.key, val |-> saved[x.key].val, origin |-> 1]
             \/ /\ base[x.key] # Null
                /\ saved[x.key].op \notin {"U", "D"}
                /\ x = [key |-> x.key, val |-> base[x.key], origin |-> 0]
    BY DEF View
  <2> QED  BY <1>2, <2>1 DEF CanonicalInv, OpFits, Keyed, UniqueKeys
<1>3. ASSUME StatementInv, StatementInv', EffectInv, CanonicalInv, [Next]_vars
      PROVE  [Ordinary!Next]_<<MergedRows, verb>>
  <2>1. CASE BeginInsert \/ BeginUpdate \/ BeginDelete \/ BeginMerge
    <3>1. /\ verb = "idle"
          /\ verb' \in {"INSERT", "UPDATE", "DELETE", "MERGE"}
          /\ base' = base /\ saved' = saved
      BY <2>1 DEF BeginInsert, BeginUpdate, BeginDelete, BeginMerge, Start
    <3>2. MergedRows' = MergedRows
      BY <3>1 DEF MergedRows
    <3> QED  BY <3>1, <3>2 DEF Ordinary!Next, Ordinary!Begin
  <2>2. ASSUME NEW r \in todo, SinkRow(r)
        PROVE  UNCHANGED <<MergedRows, verb>>
    BY <2>2 DEF SinkRow, InsertRow, UpdateInPlace, UpdateMovingKey, DeleteSkips, DeleteRow, MergedRows
  <2>3. CASE FlushChunk
    BY <2>3 DEF FlushChunk, MergedRows
  <2>4. CASE EndStatement
    <3>1. Keyed
      BY <1>2, <1>3 DEF StatementInv
    <3>2. verb \in {"INSERT", "UPDATE", "DELETE", "MERGE"} /\ verb' = "idle"
      BY <1>3, <2>4 DEF EndStatement, Idle, StatementInv, TypeOK, Sinks
    <3>3. CASE verb = "INSERT"
      BY <1>3, <2>4, <3>1, <3>3, InsertImplements DEF Ordinary!Next
    <3>4. CASE verb = "UPDATE"
      BY <1>3, <2>4, <3>1, <3>4, UpdateImplements DEF Ordinary!Next
    <3>5. CASE verb = "DELETE"
      BY <1>3, <2>4, <3>1, <3>5, DeleteImplements DEF Ordinary!Next
    <3>6. CASE verb = "MERGE"
      <4>1. \A k \in Key : saved'[k].val \in Val \cup {Null} /\ base'[k] \in Val \cup {Null}
        BY <1>3 DEF StatementInv, TypeOK, DeltaRow
      <4>2. MergedRows' \in [Key -> Val \cup {Null}]
        BY <4>1 DEF MergedRows
      <4> QED  BY <3>2, <3>6, <4>2 DEF Ordinary!Next, Ordinary!Merge, Ordinary!Ends
    <3> QED  BY <3>2, <3>3, <3>4, <3>5, <3>6
  <2>5. CASE FailStatement
    BY <2>5 DEF FailStatement, Idle, MergedRows, Ordinary!Next, Ordinary!Fail
  <2>6. ASSUME NEW k \in Key, NEW v \in Val \cup {Null}, BaseCommit(k, v)
        PROVE  FALSE
    BY <2>6 DEF BaseCommit
  <2>7. CASE UNCHANGED vars
    BY <2>7 DEF vars, stmtVars, MergedRows
  <2> QED  BY <1>3, <2>1, <2>2, <2>3, <2>4, <2>5, <2>6, <2>7 DEF Next
<1> QED
  BY <1>1, <1>3, StatementInvariant, EffectInvariant, CanonicalInvariant, PTL
     DEF Spec, ImplementsOrdinaryTable, Ordinary!Spec

=============================================================================
