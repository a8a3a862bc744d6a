----------------------- MODULE ScenarioLakeMergeProofs -----------------------
(***************************************************************************)
(* Proofs about ScenarioLakeMerge: types for any number of merging         *)
(* sessions; the two properties of the tag for one session that merges at  *)
(* a time, with any rows and any number of writes, failures and retries.   *)
(***************************************************************************)
EXTENDS ScenarioLakeMerge, TLAPS

LEMMA NothingIsDelta == Nothing \in Delta
<1>1. 0 \in 0..MaxWrites BY LakeAssumption, SMT
<1> QED BY <1>1 DEF Nothing, Delta

LEMMA IdleIsCall == Idle \in Call
BY NothingIsDelta DEF Idle, Call

\* Every variable keeps its type, and clock its bound.
THEOREM TypeCorrect == Spec => []TypeOK
<1>1. Init => TypeOK
  <2>1. Nothing \in [Row -> Nat]
    BY DEF Nothing
  <2>2. 0 \in 0..MaxWrites
    BY LakeAssumption, SMT
  <2> QED
    BY <2>1, <2>2, NothingIsDelta, IdleIsCall DEF Init, TypeOK
<1>2. TypeOK /\ [Next]_vars => TypeOK'
  <2> SUFFICES ASSUME TypeOK, [Next]_vars PROVE TypeOK'
    OBVIOUS
  <2> USE DEF TypeOK
  <2>1. ASSUME NEW m \in Merger, Start(m) PROVE TypeOK'
    BY <2>1, IdleIsCall DEF Start, Call, Idle
  <2>2. ASSUME NEW m \in Merger, ReadDelta(m) PROVE TypeOK'
    BY <2>2 DEF ReadDelta, Call
  <2>3. ASSUME NEW m \in Merger, FindTag(m) PROVE TypeOK'
    <3>1. CASE Stop(m)
      BY <2>3, <3>1, IdleIsCall DEF FindTag, Stop
    <3>2. CASE Stage(m, "applying") \/ Stage(m, "closing")
      BY <2>3, <3>2 DEF FindTag, Stage, Call
    <3> QED BY <2>3, <3>1, <3>2 DEF FindTag
  <2>4. ASSUME NEW m \in Merger, CommitLake(m) PROVE TypeOK'
    <3>1. merge' \in [Merger -> Call]
      BY <2>4 DEF CommitLake, Stage, Call
    <3>2. copies' \in [Row -> Nat]
      BY <2>4 DEF CommitLake, AppliedCopies
    <3>3. merge[m].read \in Delta
      BY DEF Call
    <3>4. tag' \in Delta \cup {NoTag}
      BY <2>4, <3>3 DEF CommitLake, NewTag
    <3> QED BY <2>4, <3>1, <3>2, <3>4 DEF CommitLake
  <2>5. ASSUME NEW m \in Merger, Close(m) PROVE TypeOK'
    <3>1. delta' \in Delta
      <4>1. 0 \in 0..MaxWrites BY LakeAssumption, SMT
      <4> QED BY <2>5, <4>1 DEF Close, Delta
    <3>2. merge' \in [Merger -> Call]
      BY <2>5, IdleIsCall DEF Close, RegistryChanged, Call
    <3> QED BY <2>5, <3>1, <3>2 DEF Close
  <2>6. ASSUME NEW m \in Merger, Fail(m) PROVE TypeOK'
    BY <2>6, IdleIsCall DEF Fail, Stop
  <2>7. CASE Crash
    BY <2>7, IdleIsCall DEF Crash
  <2>8. ASSUME NEW r \in Row, WriteRow(r) PROVE TypeOK'
    <3>1. clock' \in 0..MaxWrites
      BY <2>8, LakeAssumption, SMT DEF WriteRow
    <3> QED BY <2>8, <3>1 DEF WriteRow, Delta
  <2>9. ASSUME NEW r \in Row, RemoveRow(r) PROVE TypeOK'
    <3>1. 0 \in 0..MaxWrites BY LakeAssumption, SMT
    <3> QED BY <2>9, <3>1 DEF RemoveRow, Delta
  <2>10. ASSUME NEW value \in BOOLEAN, SetFrozen(value) PROVE TypeOK'
    BY <2>10 DEF SetFrozen, Call
  <2>11. CASE UNCHANGED vars
    BY <2>11 DEF vars
  <2> QED
    BY <2>1, <2>2, <2>3, <2>4, <2>5, <2>6, <2>7, <2>8, <2>9, <2>10, <2>11 DEF Next
<1> QED BY <1>1, <1>2, PTL DEF Spec

-----------------------------------------------------------------------------
(* With one session merging at a time.                                     *)

OneMerger == \A m, n \in Merger : m = n

\* What makes the tag trustworthy: without one the lake has nothing of the
\* scenario, and a merge on its way to apply knows that there is none.
TagInv ==
    /\ tag = NoTag => copies = Nothing
    /\ \A m \in Merger : merge[m].at = "applying" => tag = NoTag

\* Every row reaches the lake at most once (AppliedOnce), when one session
\* merges at a time and the lake keeps tags.
THEOREM LakeAppliesOnce ==
    ASSUME OneMerger, Tagged
    PROVE  Spec => []AppliedOnce
<1> DEFINE IInv == TypeOK /\ TagInv /\ AppliedOnce
<1>1. Init => TagInv /\ AppliedOnce
  BY DEF Init, TagInv, AppliedOnce, Nothing, Idle
<1>2. TypeOK /\ TagInv /\ AppliedOnce /\ [Next]_vars => TagInv' /\ AppliedOnce'
  <2> SUFFICES ASSUME TypeOK, TagInv, AppliedOnce, [Next]_vars
               PROVE  TagInv' /\ AppliedOnce'
    OBVIOUS
  <2> USE DEF TagInv
  <2>1. ASSUME NEW m \in Merger, Start(m) PROVE TagInv' /\ AppliedOnce'
    BY <2>1 DEF Start, AppliedOnce, Idle, TypeOK
  <2>2. ASSUME NEW m \in Merger, ReadDelta(m) PROVE TagInv' /\ AppliedOnce'
    BY <2>2 DEF ReadDelta, AppliedOnce, TypeOK, Call
  <2>3. ASSUME NEW m \in Merger, FindTag(m) PROVE TagInv' /\ AppliedOnce'
    BY <2>3 DEF FindTag, Stage, Stop, Idle, AppliedOnce, TypeOK, Call
  <2>4. ASSUME NEW m \in Merger, CommitLake(m) PROVE TagInv' /\ AppliedOnce'
    <3>1. tag = NoTag /\ copies = Nothing
      BY <2>4 DEF CommitLake
    <3>2. AppliedOnce'
      BY <2>4, <3>1 DEF CommitLake, AppliedCopies, AppliedOnce, Nothing
    <3>3. \A n \in Merger : merge'[n].at = "closing"
      BY <2>4 DEF CommitLake, Stage, TypeOK, Call, OneMerger
    <3>4. merge[m].read \in Delta /\ merge[m].read # NoTag
      <4>1. merge[m].read \in Delta BY DEF TypeOK, Call
      <4>2. 0..MaxWrites \subseteq Nat BY LakeAssumption, SMT
      <4>3. merge[m].read \in [Row -> Nat] BY <4>1, <4>2 DEF Delta
      <4> QED BY <4>1, <4>3, LakeAssumption
    <3>5. CASE merge[m].read = Nothing
      <4>1. copies' = Nothing
        BY <2>4, <3>1, <3>5, SMT DEF CommitLake, AppliedCopies, Nothing
      <4> QED BY <3>2, <3>3, <4>1
    <3>6. CASE merge[m].read # Nothing
      <4>1. tag' # NoTag
        BY <2>4, <3>4, <3>6 DEF CommitLake, NewTag
      <4> QED BY <3>2, <3>3, <4>1
    <3> QED BY <3>5, <3>6
  <2>5. ASSUME NEW m \in Merger, Close(m) PROVE TagInv' /\ AppliedOnce'
    BY <2>5 DEF Close, RegistryChanged, Idle, AppliedOnce, TypeOK, Call
  <2>6. ASSUME NEW m \in Merger, Fail(m) PROVE TagInv' /\ AppliedOnce'
    BY <2>6 DEF Fail, Stop, Idle, AppliedOnce, TypeOK
  <2>7. CASE Crash
    BY <2>7 DEF Crash, Idle, AppliedOnce
  <2>8. ASSUME NEW r \in Row, WriteRow(r) PROVE TagInv' /\ AppliedOnce'
    BY <2>8 DEF WriteRow, AppliedOnce
  <2>9. ASSUME NEW r \in Row, RemoveRow(r) PROVE TagInv' /\ AppliedOnce'
    BY <2>9 DEF RemoveRow, AppliedOnce
  <2>10. ASSUME NEW value \in BOOLEAN, SetFrozen(value) PROVE TagInv' /\ AppliedOnce'
    BY <2>10 DEF SetFrozen, AppliedOnce, TypeOK, Call
  <2>11. CASE UNCHANGED vars
    BY <2>11 DEF vars, AppliedOnce
  <2> QED
    BY <2>1, <2>2, <2>3, <2>4, <2>5, <2>6, <2>7, <2>8, <2>9, <2>10, <2>11 DEF Next
<1> QED BY <1>1, <1>2, TypeCorrect, PTL DEF Spec

-----------------------------------------------------------------------------
\* The caller's snapshot (seen) is older than the one the lake was given
\* (read), but a row still as the caller saw it was also read so: times are
\* never used twice.  And a merge about to close has its reading in the tag.
ReadInv ==
    /\ \A r \in Row : delta[r] <= clock
    /\ \A m \in Merger, r \in Row :
           /\ merge[m].seen[r] <= clock
           /\ /\ merge[m].at \in {"looking", "applying", "closing"}
              /\ merge[m].seen[r] # 0
              /\ merge[m].seen[r] = delta[r]
              => merge[m].read[r] = delta[r]
    /\ \A m \in Merger : merge[m].at = "closing" =>
           merge[m].read = Nothing \/ tag = merge[m].read

LEMMA ReadInvariant ==
    ASSUME OneMerger, Tagged
    PROVE  Spec => []ReadInv
<1>1. Init => ReadInv
  BY LakeAssumption, SMT DEF Init, ReadInv, Nothing, Idle
<1>2. TypeOK /\ TypeOK' /\ ReadInv /\ [Next]_vars => ReadInv'
  <2> SUFFICES ASSUME TypeOK, TypeOK', ReadInv, [Next]_vars PROVE ReadInv'
    OBVIOUS
  <2>0. /\ clock \in Nat
        /\ \A r \in Row : delta[r] \in Nat
        /\ \A m \in Merger, r \in Row : merge[m].seen[r] \in Nat /\ merge[m].read[r] \in Nat
    <3>1. 0..MaxWrites \subseteq Nat BY LakeAssumption, SMT
    <3> QED BY <3>1 DEF TypeOK, Delta, Call
  <2>one. \A m, n \in Merger : n = m
    BY DEF OneMerger
  <2> USE DEF ReadInv
  <2>1. ASSUME NEW m \in Merger, Start(m) PROVE ReadInv'
    <3>1. merge'[m].at = "reading" /\ merge'[m].seen = delta
      BY <2>1 DEF Start, Idle, TypeOK
    <3>2. UNCHANGED <<delta, clock, tag>>
      BY <2>1 DEF Start
    <3> QED BY <3>1, <3>2, <2>one
  <2>2. ASSUME NEW m \in Merger, ReadDelta(m) PROVE ReadInv'
    <3>1. /\ merge'[m].at = "looking" /\ merge'[m].read = delta
          /\ merge'[m].seen = merge[m].seen
      BY <2>2 DEF ReadDelta, TypeOK, Call
    <3>2. UNCHANGED <<delta, clock, tag>>
      BY <2>2 DEF ReadDelta
    <3> QED BY <3>1, <3>2, <2>one
  <2>3. ASSUME NEW m \in Merger, FindTag(m) PROVE ReadInv'
    <3>1. CASE Stop(m)
      BY <2>3, <3>1, <2>0 DEF FindTag, Stop, Idle, Nothing, TypeOK, Call
    <3>2. CASE Stage(m, "applying")
      BY <2>3, <3>2, <2>0 DEF FindTag, Stage, TypeOK, Call
    <3>3. CASE Stage(m, "closing") /\ TagMatches(merge[m].read)
      BY <2>3, <3>3, <2>0 DEF FindTag, Stage, TypeOK, Call, TagMatches
    <3> QED BY <2>3, <3>1, <3>2, <3>3 DEF FindTag
  <2>4. ASSUME NEW m \in Merger, CommitLake(m) PROVE ReadInv'
    <3>1. \A n \in Merger : n = m
      BY DEF OneMerger
    <3>2. merge[m].read = Nothing \/ tag' = merge[m].read
      BY <2>4 DEF CommitLake, NewTag
    <3> QED BY <2>4, <3>1, <3>2, <2>0 DEF CommitLake, Stage, TypeOK, Call
  <2>5. ASSUME NEW m \in Merger, Close(m) PROVE ReadInv'
    <3>1. \A n \in Merger : merge'[n] = Idle
      BY <2>5 DEF Close, RegistryChanged, OneMerger
    <3> QED BY <2>5, <3>1, <2>0 DEF Close, Idle, Nothing, TypeOK, Delta
  <2>6. ASSUME NEW m \in Merger, Fail(m) PROVE ReadInv'
    BY <2>6, <2>0 DEF Fail, Stop, Idle, Nothing, TypeOK
  <2>7. CASE Crash
    BY <2>7, <2>0 DEF Crash, Idle, Nothing
  <2>8. ASSUME NEW r \in Row, WriteRow(r) PROVE ReadInv'
    <3>1. \A q \in Row : delta'[q] = IF q = r THEN clock + 1 ELSE delta[q]
      BY <2>8 DEF WriteRow, TypeOK, Delta
    <3>2. clock' = clock + 1 /\ UNCHANGED <<tag, merge>>
      BY <2>8 DEF WriteRow
    <3>3. ASSUME NEW m \in Merger, NEW q \in Row
          PROVE  merge[m].seen[q] <= clock /\ merge[m].seen[q] # clock + 1
      BY <2>0
    <3> QED BY <3>1, <3>2, <3>3, <2>0
  <2>9. ASSUME NEW r \in Row, RemoveRow(r) PROVE ReadInv'
    BY <2>9, <2>0 DEF RemoveRow, TypeOK, Delta
  <2>10. ASSUME NEW value \in BOOLEAN, SetFrozen(value) PROVE ReadInv'
    BY <2>10, <2>0 DEF SetFrozen, TypeOK, Call
  <2>11. CASE UNCHANGED vars
    BY <2>11 DEF vars
  <2> QED
    BY <2>1, <2>2, <2>3, <2>4, <2>5, <2>6, <2>7, <2>8, <2>9, <2>10, <2>11 DEF Next
<1> QED BY <1>1, <1>2, TypeCorrect, PTL DEF Spec

\* Closing a scenario removes from its delta only what the lake was given, in
\* that version (NothingDiscarded), whatever was written while the merge ran
\* or between a failed merge and the next.
THEOREM CloseDiscardsNothing ==
    ASSUME OneMerger, Tagged
    PROVE  Spec => NothingDiscarded
<1> DEFINE Discards == \A r \in Row :
       delta'[r] # delta[r] => delta'[r] = 0 /\ tag # NoTag /\ tag[r] = delta[r]
<1>1. TypeOK /\ ReadInv /\ [Next]_vars => [merged' /\ ~merged => Discards]_vars
  <2> SUFFICES ASSUME TypeOK, ReadInv, [Next]_vars, merged', ~merged
               PROVE  Discards
    BY DEF vars
  <2>1. PICK m \in Merger : Close(m)
    BY DEF Next, vars, Start, ReadDelta, FindTag, CommitLake, Fail, Crash,
           WriteRow, RemoveRow, SetFrozen
  <2>2. SUFFICES ASSUME NEW r \in Row, delta'[r] # delta[r]
                 PROVE  delta'[r] = 0 /\ tag # NoTag /\ tag[r] = delta[r]
    OBVIOUS
  <2>3. merge[m].seen[r] # 0 /\ delta'[r] = 0
    BY <2>1, <2>2 DEF Close
  <2>4. merge[m].read[r] = delta[r] /\ delta[r] # 0
    BY <2>1, <2>3 DEF Close, HostAccepts, ReadInv
  <2>5. merge[m].read # Nothing
    BY <2>4 DEF Nothing
  <2>6. tag = merge[m].read
    BY <2>1, <2>5 DEF Close, ReadInv
  <2>7. tag # NoTag
    <3>1. merge[m].read \in Delta BY DEF TypeOK, Call
    <3>2. 0..MaxWrites \subseteq Nat BY LakeAssumption, SMT
    <3>3. merge[m].read \in [Row -> Nat] BY <3>1, <3>2 DEF Delta
    <3> QED BY <2>6, <3>3, LakeAssumption
  <2> QED BY <2>3, <2>4, <2>6, <2>7
<1> QED BY <1>1, TypeCorrect, ReadInvariant, PTL DEF Spec, NothingDiscarded
=============================================================================
