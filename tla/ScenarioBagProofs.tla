--------------------------- MODULE ScenarioBagProofs ---------------------------
(***************************************************************************)
(* What holds of a keyless table of a scenario, for all values, any UNIQUE *)
(* column, any number of copies, any length of a statement and any size of *)
(* a chunk.                                                                *)
(***************************************************************************)
EXTENDS ScenarioBag, TLAPS, FiniteSetTheorems

-----------------------------------------------------------------------------
(* The invariant of a statement: what it did to the net.                   *)

\* The copies of a value among some copies.
CopiesOf(C, v) == {c \in C : c[1] = v}

\* A statement runs in an unmerged scenario.  It touched only copies its scan
\* emitted, each for one reason, and the net is what it was, less the touched
\* copies, plus the rows it added.
RunInv ==
    stmt # Idle =>
        /\ ~merged
        /\ stmt.op # "idle"
        /\ Touched \subseteq Emitted
        /\ stmt.updated \cap stmt.deleted = {}
        /\ \A v \in Value : stmt.added[v] <= stmt.rows
        /\ \A v \in Value :
               net[v] = stmt.before[v] - Cardinality(CopiesOf(Touched, v)) + stmt.added[v]
        /\ FixedBase => \A v \in Value : Seen[v] + stmt.before[v] >= 0

\* Until the merge the base keeps to the bound of the tables.
MergedInv == ~merged => main \in Bag

BagInv == TypeOK /\ MergedInv /\ RunInv /\ NoOverdraft

-----------------------------------------------------------------------------
(* Integers.                                                               *)

\* What the scan emits of a value: its copies in the base plus the net.
LEMMA ScanNets ==
    ASSUME NEW s \in Nat, NEW n \in Int
    PROVE  /\ AtLeastZero(n) + AtLeastZero(s - AtLeastZero(-n)) = AtLeastZero(s + n)
           /\ AtLeastZero(s + n) \in Nat
           /\ AtLeastZero(s + n) >= s + n
           /\ s + n >= 0 => AtLeastZero(s + n) = s + n
           /\ s + n < 0 => AtLeastZero(s + n) = 0
BY DEF AtLeastZero

-----------------------------------------------------------------------------
(* Copies and their numbers.                                               *)

LEMMA DisjointUnion ==
    ASSUME NEW S, NEW T, IsFiniteSet(S), IsFiniteSet(T), S \cap T = {}
    PROVE  /\ IsFiniteSet(S \cup T)
           /\ Cardinality(S \cup T) = Cardinality(S) + Cardinality(T)
<1>1. Cardinality(S \cap T) = 0
  BY FS_EmptySet
<1>2. Cardinality(S) \in Nat /\ Cardinality(T) \in Nat
  BY FS_CardinalityType
<1>3. /\ IsFiniteSet(S \cup T)
      /\ Cardinality(S \cup T) = Cardinality(S) + Cardinality(T) - Cardinality(S \cap T)
  BY FS_Union
<1> QED BY <1>1, <1>2, <1>3

\* A value has as many copies among some as their highest number, at most.
LEMMA CopiesBound ==
    ASSUME NEW v, NEW k \in Nat, NEW C \in SUBSET Copy,
           \A c \in C : c[1] = v => c[2] <= k
    PROVE  /\ IsFiniteSet(CopiesOf(C, v))
           /\ Cardinality(CopiesOf(C, v)) \in Nat
           /\ Cardinality(CopiesOf(C, v)) <= k
<1> DEFINE Y == CopiesOf(C, v)
           f == [c \in Y |-> c[2]]
<1>1. f \in Injection(Y, 1..k)
  <2>1. \A c \in Y : c[2] \in 1..k
    BY BagAssumption DEF CopiesOf, Copy
  <2>2. f \in [Y -> 1..k]
    BY <2>1
  <2>3. \A c, d \in Y : c[2] = d[2] => c = d
    BY DEF CopiesOf, Copy
  <2> QED BY <2>2, <2>3 DEF Injection, IsInjective
<1>2. IsFiniteSet(1..k) /\ Cardinality(1..k) = k
  BY FS_Interval
<1>3. IsFiniteSet(Y) /\ Cardinality(Y) <= k
  <2> HIDE DEF f, Y
  <2> QED BY <1>1, <1>2, FS_Injection
<1>4. Cardinality(Y) \in Nat
  BY <1>3, FS_CardinalityType
<1> QED BY <1>3, <1>4

LEMMA CopiesAreFinite ==
    ASSUME NEW v, NEW C \in SUBSET Copy
    PROVE  IsFiniteSet(CopiesOf(C, v)) /\ Cardinality(CopiesOf(C, v)) \in Nat
<1>1. MaxCopies \in Nat /\ \A c \in C : c[1] = v => c[2] <= MaxCopies
  BY BagAssumption DEF Copy
<1> QED BY <1>1, CopiesBound

LEMMA CopiesOfUnion ==
    ASSUME NEW v, NEW C \in SUBSET Copy, NEW D \in SUBSET Copy, C \cap D = {}
    PROVE  Cardinality(CopiesOf(C \cup D, v))
             = Cardinality(CopiesOf(C, v)) + Cardinality(CopiesOf(D, v))
<1>1. CopiesOf(C \cup D, v) = CopiesOf(C, v) \cup CopiesOf(D, v)
  BY DEF CopiesOf
<1>2. CopiesOf(C, v) \cap CopiesOf(D, v) = {}
  BY DEF CopiesOf
<1>3. /\ IsFiniteSet(CopiesOf(C, v)) /\ Cardinality(CopiesOf(C, v)) \in Nat
  BY CopiesAreFinite
<1>4. /\ IsFiniteSet(CopiesOf(D, v)) /\ Cardinality(CopiesOf(D, v)) \in Nat
  BY CopiesAreFinite
<1>5. Cardinality(CopiesOf(C, v) \cup CopiesOf(D, v))
        = Cardinality(CopiesOf(C, v)) + Cardinality(CopiesOf(D, v))
  <2> HIDE DEF CopiesOf
  <2> QED BY <1>2, <1>3, <1>4, DisjointUnion
<1> QED BY <1>1, <1>5

\* The indices of a chunk with some property.
LEMMA IndicesAreFinite ==
    ASSUME NEW n \in Nat, NEW I \in SUBSET (1..n)
    PROVE  IsFiniteSet(I) /\ Cardinality(I) \in Nat /\ Cardinality(I) <= n
<1>1. IsFiniteSet(1..n) /\ Cardinality(1..n) = n
  BY FS_Interval
<1>2. IsFiniteSet(I) /\ Cardinality(I) <= n
  BY <1>1, FS_Subset
<1> QED BY <1>2, FS_CardinalityType

LEMMA CountType ==
    ASSUME NEW n \in Nat, NEW seq, DOMAIN seq = 1..n
    PROVE  Count(seq) \in [Value -> 0..n]
<1>1. ASSUME NEW v \in Value
      PROVE  Cardinality({i \in DOMAIN seq : seq[i] = v}) \in 0..n
  BY IndicesAreFinite
<1> QED BY <1>1 DEF Count

\* The copies of a chunk are counted one by one if they are distinct.
LEMMA DistinctCount ==
    ASSUME NEW n \in Nat, NEW copies \in [1..n -> Copy], Distinct(copies), NEW v \in Value
    PROVE  Count(ValuesOf(copies))[v]
             = Cardinality(CopiesOf({copies[i] : i \in DOMAIN copies}, v))
<1> DEFINE N == {copies[i] : i \in 1..n}
           I == {i \in 1..n : copies[i][1] = v}
           f == [i \in I |-> copies[i]]
<1>1. DOMAIN copies = 1..n
  OBVIOUS
<1>2. Cardinality(1..n) = n /\ IsFiniteSet(1..n)
  BY FS_Interval
<1>3. Len(copies) = n
  BY <1>1
<1>4. copies \in Injection(1..n, N)
  <2>1. copies \in Surjection(1..n, N)
    BY DEF Surjection
  <2>2. Cardinality(N) = Cardinality(1..n)
    BY <1>1, <1>2, <1>3 DEF Distinct
  <2> HIDE DEF N
  <2> QED BY <2>1, <2>2, <1>2, FS_Surjection
<1>5. \A i, j \in 1..n : copies[i] = copies[j] => i = j
  BY <1>1, <1>4 DEF Injection, IsInjective
<1>6. f \in Bijection(I, CopiesOf(N, v))
  <2>1. f \in [I -> CopiesOf(N, v)]
    BY DEF CopiesOf
  <2>2. \A c \in CopiesOf(N, v) : \E i \in I : f[i] = c
    BY DEF CopiesOf
  <2>3. IsInjective(f)
    BY <1>5 DEF IsInjective
  <2> QED BY <2>1, <2>2, <2>3 DEF Bijection, Injection, Surjection
<1>7. IsFiniteSet(I)
  BY IndicesAreFinite
<1>8. Cardinality(CopiesOf(N, v)) = Cardinality(I)
  <2> HIDE DEF f, N, I
  <2>1. ExistsBijection(I, CopiesOf(N, v))
    BY <1>6 DEF ExistsBijection
  <2> QED BY <2>1, <1>7, FS_Bijection
<1>9. Count(ValuesOf(copies))[v] = Cardinality(I)
  <2>1. {i \in DOMAIN ValuesOf(copies) : ValuesOf(copies)[i] = v} = I
    BY <1>1 DEF ValuesOf
  <2> QED BY <2>1 DEF Count
<1> QED BY <1>1, <1>8, <1>9

-----------------------------------------------------------------------------
(* The scan of a statement, and what the delta holds of it.                *)

\* What the base holds is a number, and so is what the scan emits.
LEMMA SeenType ==
    ASSUME TypeOK, MergedInv
    PROVE  /\ \A v \in Value : Seen[v] \in Nat
           /\ ~merged => \A v \in Value : Seen[v] <= MaxCopies
           /\ MaxCopies \in Nat
BY BagAssumption DEF TypeOK, MergedInv, Seen, Bag

LEMMA ViewIs ==
    ASSUME TypeOK, MergedInv, NEW n \in [Value -> Int], NEW v \in Value
    PROVE  /\ View(n)[v] = AtLeastZero(Seen[v] + n[v])
           /\ View(n)[v] \in Nat
           /\ View(n)[v] >= Seen[v] + n[v]
           /\ Seen[v] + n[v] >= 0 => View(n)[v] = Seen[v] + n[v]
           /\ Seen[v] + n[v] < 0 => View(n)[v] = 0
<1>1. Seen[v] \in Nat /\ n[v] \in Int
  BY SeenType
<1>2. View(n)[v] = AtLeastZero(n[v]) + AtLeastZero(Seen[v] - AtLeastZero(-n[v]))
  BY DEF View
<1> QED BY <1>1, <1>2 DEF AtLeastZero

\* A statement touches at most the copies its scan emitted.
LEMMA TouchedBound ==
    ASSUME BagInv, NEW C \in SUBSET Emitted, NEW v \in Value
    PROVE  /\ C \in SUBSET Copy
           /\ Cardinality(CopiesOf(C, v)) \in Nat
           /\ Cardinality(CopiesOf(C, v)) <= View(stmt.before)[v]
<1>1. stmt.before \in [Value -> Int]
  BY BagAssumption DEF BagInv, TypeOK, Nets
<1>2. View(stmt.before)[v] \in Nat
  BY <1>1, ViewIs DEF BagInv
<1>3. C \in SUBSET Copy /\ \A c \in C : c[1] = v => c[2] <= View(stmt.before)[v]
  BY DEF Emitted
<1> QED BY <1>2, <1>3, CopiesBound

\* The state after a chunk: the copies in M are taken, the new rows added.
Took(M, new, len) ==
    /\ stmt # Idle
    /\ stmt.rows + len <= MaxRows
    /\ net' = [v \in Value |-> net[v] - Cardinality(CopiesOf(M, v)) + Count(new)[v]]
    /\ \A v \in Value : net'[v] <= MaxCopies
    /\ stmt'.op = stmt.op /\ stmt'.repeats = stmt.repeats /\ stmt'.before = stmt.before
    /\ stmt'.rows = stmt.rows + len
    /\ stmt'.added = [v \in Value |-> stmt.added[v] + Count(new)[v]]
    /\ stmt'.updated \cup stmt'.deleted = Touched \cup M
    /\ stmt'.updated \cap stmt'.deleted = {}
    /\ UNCHANGED <<kind, main, snap, merged>>

LEMMA ChunkNets ==
    ASSUME BagInv, NEW M \in SUBSET Emitted, M \cap Touched = {},
           NEW len \in Nat, NEW n \in 0..len, NEW new, DOMAIN new = 1..n,
           Took(M, new, len), NEW v \in Value
    PROVE  /\ net'[v] = stmt.before[v] - Cardinality(CopiesOf(Touched \cup M, v)) + stmt'.added[v]
           /\ stmt'.added[v] \in 0..(stmt.rows + len)
           /\ net'[v] \in -MaxCopies..MaxCopies
           /\ FixedBase => Seen[v] + net'[v] >= 0
<1>1. Touched \in SUBSET Emitted /\ Touched \cup M \in SUBSET Emitted
  BY DEF BagInv, RunInv, Took
<1>2. /\ Cardinality(CopiesOf(Touched, v)) \in Nat
      /\ Touched \in SUBSET Copy
  BY <1>1, TouchedBound
<1>3. /\ Cardinality(CopiesOf(Touched \cup M, v)) \in Nat
      /\ Cardinality(CopiesOf(Touched \cup M, v)) <= View(stmt.before)[v]
  BY <1>1, TouchedBound
<1>4. /\ Cardinality(CopiesOf(M, v)) \in Nat
      /\ M \in SUBSET Copy
  BY TouchedBound
<1>5. Cardinality(CopiesOf(Touched \cup M, v))
        = Cardinality(CopiesOf(Touched, v)) + Cardinality(CopiesOf(M, v))
  BY <1>2, <1>4, CopiesOfUnion
<1>6. Count(new)[v] \in 0..len
  <2>1. Count(new) \in [Value -> 0..n]
    BY CountType
  <2> QED BY <2>1
<1>7. /\ net[v] = stmt.before[v] - Cardinality(CopiesOf(Touched, v)) + stmt.added[v]
      /\ stmt.added[v] <= stmt.rows
      /\ ~merged
      /\ FixedBase => Seen[v] + stmt.before[v] >= 0
  BY DEF BagInv, RunInv, Took
<1>8. /\ stmt.added[v] \in Nat /\ stmt.rows \in Nat
      /\ stmt.before[v] \in Int /\ stmt.before[v] >= -MaxCopies
      /\ stmt.before \in [Value -> Int]
      /\ net[v] \in Int
  BY BagAssumption DEF BagInv, TypeOK, Nets
<1>9. /\ net'[v] = net[v] - Cardinality(CopiesOf(M, v)) + Count(new)[v]
      /\ stmt'.added[v] = stmt.added[v] + Count(new)[v]
      /\ net'[v] <= MaxCopies
  BY DEF Took
<1>10. Seen[v] \in Nat /\ Seen[v] <= MaxCopies /\ MaxCopies \in Nat
  BY <1>7, SeenType DEF BagInv
<1>11. /\ Seen[v] + stmt.before[v] >= 0 => View(stmt.before)[v] = Seen[v] + stmt.before[v]
       /\ Seen[v] + stmt.before[v] < 0 => View(stmt.before)[v] = 0
  BY <1>8, ViewIs DEF BagInv
<1>12. /\ net'[v] = stmt.before[v] - Cardinality(CopiesOf(Touched \cup M, v)) + stmt'.added[v]
       /\ stmt'.added[v] \in 0..(stmt.rows + len)
  <2>1. Count(new)[v] \in Nat /\ Count(new)[v] <= len
    BY <1>6
  <2>2. /\ stmt'.added[v] \in Nat
        /\ stmt'.added[v] <= stmt.rows + len
    BY <2>1, <1>7, <1>8, <1>9
  <2>3. PICK t \in Int : t = Cardinality(CopiesOf(Touched, v))
    BY <1>2
  <2>4. PICK m \in Int : m = Cardinality(CopiesOf(M, v))
    BY <1>4
  <2>5. PICK u \in Int : u = Cardinality(CopiesOf(Touched \cup M, v))
    BY <1>3
  <2>6. PICK c \in Int : c = Count(new)[v]
    BY <2>1
  <2>7. PICK b \in Int, o \in Int : b = stmt.before[v] /\ o = stmt.added[v]
    BY <1>8
  <2>8. /\ net[v] = b - t + o
        /\ u = t + m
        /\ net'[v] = net[v] - m + c
        /\ stmt'.added[v] = o + c
    BY <1>5, <1>7, <1>9, <2>3, <2>4, <2>5, <2>6, <2>7
  <2>9. net'[v] = b - u + stmt'.added[v]
    BY <2>8
  <2>10. net'[v] = stmt.before[v] - Cardinality(CopiesOf(Touched \cup M, v)) + stmt'.added[v]
    BY <2>5, <2>7, <2>9
  <2> QED BY <2>2, <2>10, <1>8
<1>13. stmt'.added[v] \in Nat
  BY <1>12, <1>8
<1>14. PICK u \in Int : u = Cardinality(CopiesOf(Touched \cup M, v))
  BY <1>3
<1>15. PICK o \in Int, b \in Int, w \in Int :
           o = stmt'.added[v] /\ b = stmt.before[v] /\ w = View(stmt.before)[v]
  <2>1. View(stmt.before)[v] \in Int
    BY <1>8, <1>10, <1>11
  <2> QED BY <2>1, <1>8, <1>13
<1>16. PICK e \in Int, x \in Int : e = Seen[v] /\ x = net'[v]
  <2>1. net'[v] \in Int
    BY <1>12, <1>14, <1>15
  <2> QED BY <2>1, <1>10
<1>17. /\ u <= w /\ x = b - u + o /\ o >= 0 /\ b >= -MaxCopies /\ x <= MaxCopies
       /\ e >= 0 /\ e <= MaxCopies
       /\ e + b >= 0 => w = e + b
       /\ e + b < 0 => w = 0
  BY <1>3, <1>8, <1>9, <1>10, <1>11, <1>12, <1>13, <1>14, <1>15, <1>16
<1>18. /\ x >= -MaxCopies
       /\ e + b >= 0 => e + x >= 0
  BY <1>10, <1>17
<1>19. net'[v] \in -MaxCopies..MaxCopies
  BY <1>10, <1>16, <1>17, <1>18
<1>20. FixedBase => Seen[v] + net'[v] >= 0
  BY <1>7, <1>15, <1>16, <1>18
<1> QED BY <1>12, <1>19, <1>20


\* A chunk keeps the invariant, whichever sink takes it.
LEMMA ChunkKeeps ==
    ASSUME BagInv, NEW M \in SUBSET Emitted, M \cap Touched = {},
           NEW len \in Nat, NEW n \in 0..len, NEW new, DOMAIN new = 1..n,
           Took(M, new, len),
           stmt' = [op |-> stmt'.op, repeats |-> stmt'.repeats, before |-> stmt'.before,
                    rows |-> stmt'.rows, updated |-> stmt'.updated,
                    deleted |-> stmt'.deleted, added |-> stmt'.added]
    PROVE  BagInv'
<1>1. \A v \in Value :
          /\ net'[v] = stmt.before[v] - Cardinality(CopiesOf(Touched \cup M, v)) + stmt'.added[v]
          /\ stmt'.added[v] \in 0..(stmt.rows + len)
          /\ net'[v] \in -MaxCopies..MaxCopies
          /\ FixedBase => Seen[v] + net'[v] >= 0
  BY ChunkNets
<1>2. Seen' = Seen /\ FixedBase' = FixedBase
  BY DEF Took, Seen, FixedBase
<1>3. Emitted' = Emitted
  BY <1>2 DEF Took, Emitted, View
<1>4. Touched' = Touched \cup M /\ Touched' \in SUBSET Emitted /\ Touched' \in SUBSET Copy
  BY DEF Touched, Took, BagInv, RunInv, Emitted
<1>5. stmt.op # "idle" /\ ~merged
  BY DEF BagInv, RunInv, Took
<1>6. /\ stmt.rows \in Nat
      /\ stmt'.rows \in 0..MaxRows
      /\ stmt'.rows = stmt.rows + len
  BY BagAssumption DEF BagInv, TypeOK, Took
<1>7. stmt'.added \in [Value -> 0..MaxRows]
  <2>1. ASSUME NEW v \in Value PROVE stmt'.added[v] \in 0..MaxRows
    BY <1>1, <1>6, BagAssumption
  <2>2. stmt'.added = [v \in Value |-> stmt'.added[v]]
    BY DEF Took
  <2> QED BY <2>1, <2>2
<1>8. net' \in Nets
  <2>1. net' = [v \in Value |-> net'[v]]
    BY DEF Took
  <2> QED BY <1>1, <2>1 DEF Nets
<1>9. TypeOK'
  <2>1. stmt'.updated \subseteq Copy /\ stmt'.deleted \subseteq Copy
    BY <1>4 DEF Touched
  <2>2. /\ stmt'.op \in {"idle", "insert", "update", "delete", "merge"}
        /\ stmt'.repeats \in BOOLEAN
        /\ stmt'.before \in Nets
    BY DEF Took, BagInv, TypeOK
  <2>3. stmt' \in [op : {"idle", "insert", "update", "delete", "merge"}, repeats : BOOLEAN,
                   before : Nets, rows : 0..MaxRows, updated : SUBSET Copy, deleted : SUBSET Copy,
                   added : [Value -> 0..MaxRows]]
    <3> HIDE DEF Nets
    <3> QED BY <1>6, <1>7, <2>1, <2>2
  <2> QED BY <1>8, <2>3 DEF BagInv, TypeOK, Took
<1>10. MergedInv'
  BY DEF BagInv, MergedInv, Took
<1>11. RunInv'
  <2>1. stmt'.before = stmt.before /\ stmt'.op = stmt.op /\ merged' = merged
    BY DEF Took
  <2>2. FixedBase => \A v \in Value : Seen[v] + stmt.before[v] >= 0
    BY DEF BagInv, RunInv, Took
  <2>3. stmt'.updated \cap stmt'.deleted = {}
    BY DEF Took
  <2>4. ASSUME NEW v \in Value PROVE stmt'.added[v] <= stmt'.rows
    BY <1>1, <1>6
  <2>5. ASSUME NEW v \in Value
        PROVE  net'[v] = stmt'.before[v] - Cardinality(CopiesOf(Touched', v)) + stmt'.added[v]
    BY <1>1, <1>4, <2>1
  <2>6. ~merged' /\ stmt'.op # "idle"
    BY <1>5, <2>1
  <2>7. Touched' \subseteq Emitted'
    BY <1>3, <1>4
  <2>8. FixedBase' => \A v \in Value : Seen'[v] + stmt'.before[v] >= 0
    BY <1>2, <2>1, <2>2
  <2> QED BY <2>3, <2>4, <2>5, <2>6, <2>7, <2>8 DEF RunInv
<1>12. NoOverdraft'
  BY <1>1, <1>2 DEF NoOverdraft
<1> QED BY <1>9, <1>10, <1>11, <1>12 DEF BagInv

-----------------------------------------------------------------------------
(* The sinks.                                                              *)

\* The rows of a chunk.
LEMMA ChunkIs ==
    ASSUME NEW S, NEW chunk \in Chunks(S)
    PROVE  \E n \in Nat \ {0} : chunk \in [1..n -> S]
BY BagAssumption DEF Chunks

LEMMA FlushedFields ==
    ASSUME TypeOK, NEW new, NEW len
    PROVE  Flushed(new, len) =
             [op |-> stmt.op, repeats |-> stmt.repeats, before |-> stmt.before,
              rows |-> stmt.rows + len, updated |-> stmt.updated, deleted |-> stmt.deleted,
              added |-> [v \in Value |-> stmt.added[v] + Count(new)[v]]]
<1>1. stmt = [op |-> stmt.op, repeats |-> stmt.repeats, before |-> stmt.before,
              rows |-> stmt.rows, updated |-> stmt.updated, deleted |-> stmt.deleted,
              added |-> stmt.added]
  BY DEF TypeOK
<1> DEFINE c == Count(new)
<1> HIDE DEF c
<1>2. Flushed(new, len) = [stmt EXCEPT !.rows = stmt.rows + len,
                                       !.added = [v \in Value |-> stmt.added[v] + c[v]]]
  BY <1>1 DEF Flushed, c
<1> QED BY <1>1, <1>2 DEF c

\* Nothing is taken of the empty chunk.
LEMMA NothingCounted ==
    /\ \A v : Cardinality(CopiesOf({}, v)) = 0
    /\ \A v \in Value : Count(<<>>)[v] = 0
<1>1. \A v : CopiesOf({}, v) = {}
  BY DEF CopiesOf
<1>2. \A v \in Value : Count(<<>>)[v] = Cardinality({})
  BY DEF Count
<1> QED BY <1>1, <1>2, FS_EmptySet

\* What fits the table on the scan fits it in the delta.
LEMMA FitsBounds ==
    ASSUME BagInv, ~merged, net' \in [Value -> Int], Fits, NEW v \in Value
    PROVE  net'[v] <= MaxCopies
<1>1. Seen[v] \in Nat /\ MaxCopies \in Nat
  BY SeenType DEF BagInv
<1>2. View(net')[v] = AtLeastZero(net'[v]) + AtLeastZero(Seen[v] - AtLeastZero(-net'[v]))
  BY DEF View
<1>3. View(net')[v] <= MaxCopies /\ net'[v] \in Int
  BY DEF Fits
<1> QED BY <1>1, <1>2, <1>3 DEF AtLeastZero

LEMMA InsertKeeps ==
    ASSUME BagInv, NEW new \in Chunks(Value), SinkInsert(new)
    PROVE  BagInv'
<1>1. PICK n \in Nat \ {0} : new \in [1..n -> Value]
  BY ChunkIs
<1>2. /\ DOMAIN new = 1..n /\ Len(new) = n /\ n \in 0..n
  BY <1>1
<1>3. stmt.op # "idle" /\ stmt # Idle /\ ~merged /\ stmt.rows + n <= MaxRows
  <2>1. stmt.op # "idle" /\ stmt.rows + n <= MaxRows
    BY <1>2 DEF SinkInsert, Arrives
  <2>2. stmt # Idle
    BY <2>1 DEF Idle
  <2> QED BY <2>1, <2>2 DEF BagInv, RunInv
<1>4. net' = [v \in Value |-> net[v] - Cardinality(CopiesOf({}, v)) + Count(new)[v]]
  <2>1. net' = [v \in Value |-> net[v] - Zero[v] + Count(new)[v]]
    BY DEF SinkInsert, FlushAppends
  <2> QED BY <2>1, NothingCounted DEF Zero
<1>5. \A v \in Value : net'[v] <= MaxCopies
  <2>1. Count(new) \in [Value -> 0..n]
    BY <1>2, CountType
  <2>2. net' \in [Value -> Int]
    BY <1>4, <2>1, NothingCounted, BagAssumption DEF BagInv, TypeOK, Nets
  <2> QED BY <1>3, <2>2, FitsBounds DEF SinkInsert
<1>6. stmt' = [op |-> stmt.op, repeats |-> stmt.repeats, before |-> stmt.before,
               rows |-> stmt.rows + n, updated |-> stmt.updated, deleted |-> stmt.deleted,
               added |-> [v \in Value |-> stmt.added[v] + Count(new)[v]]]
  BY <1>2, FlushedFields DEF SinkInsert, BagInv
<1>7. Took({}, new, n)
  BY <1>3, <1>4, <1>5, <1>6 DEF Took, SinkInsert, BagInv, RunInv, Touched
<1> QED BY <1>2, <1>6, <1>7, ChunkKeeps


\* The copies a chunk names are copies of the scan.
LEMMA ChunkCopies ==
    ASSUME NEW n \in Nat, NEW copies \in [1..n -> Emitted]
    PROVE  /\ {copies[i] : i \in DOMAIN copies} \in SUBSET Emitted
           /\ copies \in [1..n -> Copy]
BY DEF Emitted

LEMMA UpdateKeeps ==
    ASSUME BagInv, NEW copies \in Chunks(Emitted), NEW new \in [DOMAIN copies -> Value],
           SinkUpdate(copies, new)
    PROVE  BagInv'
<1> DEFINE N == {copies[i] : i \in DOMAIN copies}
<1>1. PICK n \in Nat \ {0} : copies \in [1..n -> Emitted]
  BY ChunkIs
<1>2. /\ DOMAIN new = 1..n /\ Len(new) = n /\ Len(copies) = n /\ n \in 0..n
  BY <1>1
<1>3. stmt.op # "idle" /\ stmt # Idle /\ ~merged /\ stmt.rows + n <= MaxRows
  <2>1. stmt.op # "idle" /\ stmt.rows + n <= MaxRows
    BY <1>2 DEF SinkUpdate, Arrives
  <2>2. stmt # Idle
    BY <2>1 DEF Idle
  <2> QED BY <2>1, <2>2 DEF BagInv, RunInv
<1>4. N \in SUBSET Emitted /\ N \in SUBSET Copy /\ N \cap Touched = {} /\ Distinct(copies)
  BY <1>1, ChunkCopies DEF SinkUpdate, UpdateTouchRejected, Emitted
<1>5. net' = [v \in Value |-> net[v] - Cardinality(CopiesOf(N, v)) + Count(new)[v]]
  <2>1. net' = [v \in Value |-> net[v] - Count(ValuesOf(copies))[v] + Count(new)[v]]
    BY DEF SinkUpdate, FlushAppends
  <2>2. \A v \in Value : Count(ValuesOf(copies))[v] = Cardinality(CopiesOf(N, v))
    BY <1>1, <1>4, ChunkCopies, DistinctCount
  <2> QED BY <2>1, <2>2
<1>6. \A v \in Value : net'[v] <= MaxCopies
  <2>1. Count(new) \in [Value -> 0..n]
    BY <1>2, CountType
  <2>2. \A v \in Value : Cardinality(CopiesOf(N, v)) \in Nat
    BY <1>4, CopiesAreFinite
  <2>3. net \in [Value -> Int]
    BY BagAssumption DEF BagInv, TypeOK, Nets
  <2>4. net' \in [Value -> Int]
    <3> HIDE DEF N
    <3> QED BY <1>5, <2>1, <2>2, <2>3
  <2> QED BY <1>3, <2>4, FitsBounds DEF SinkUpdate
<1>7. stmt' = [op |-> stmt.op, repeats |-> stmt.repeats, before |-> stmt.before,
               rows |-> stmt.rows + n, updated |-> stmt.updated \cup N, deleted |-> stmt.deleted,
               added |-> [v \in Value |-> stmt.added[v] + Count(new)[v]]]
  <2> DEFINE added == [v \in Value |-> stmt.added[v] + Count(new)[v]]
  <2>1. stmt' = [Flushed(new, n) EXCEPT !.updated = @ \cup N]
    BY <1>2 DEF SinkUpdate
  <2>2. Flushed(new, n) =
             [op |-> stmt.op, repeats |-> stmt.repeats, before |-> stmt.before,
              rows |-> stmt.rows + n, updated |-> stmt.updated, deleted |-> stmt.deleted,
              added |-> added]
    BY FlushedFields DEF BagInv
  <2>3. [Flushed(new, n) EXCEPT !.updated = @ \cup N] =
             [op |-> stmt.op, repeats |-> stmt.repeats, before |-> stmt.before,
              rows |-> stmt.rows + n, updated |-> stmt.updated \cup N, deleted |-> stmt.deleted,
              added |-> added]
    <3> HIDE DEF N, added
    <3> QED BY <2>2
  <2> QED BY <2>1, <2>3
<1>8. Took(N, new, n)
  <2>1. stmt.updated \cap stmt.deleted = {}
    BY <1>3 DEF BagInv, RunInv
  <2>2. /\ stmt'.updated \cup stmt'.deleted = Touched \cup N
        /\ stmt'.updated \cap stmt'.deleted = {}
    <3> HIDE DEF N
    <3> QED BY <1>4, <1>7, <2>1 DEF Touched
  <2>3. UNCHANGED <<kind, main, snap, merged>>
    BY DEF SinkUpdate
  <2> HIDE DEF N
  <2> QED BY <1>3, <1>5, <1>6, <1>7, <2>2, <2>3 DEF Took
<1> HIDE DEF N
<1> QED BY <1>2, <1>4, <1>7, <1>8, ChunkKeeps

LEMMA DeleteKeeps ==
    ASSUME BagInv, NEW copies \in Chunks(Emitted), SinkDelete(copies)
    PROVE  BagInv'
<1> DEFINE N == {copies[i] : i \in DOMAIN copies}
           M == N \ stmt.deleted
<1>1. PICK n \in Nat \ {0} : copies \in [1..n -> Emitted]
  BY ChunkIs
<1>2. Len(copies) = n /\ DOMAIN <<>> = 1..0 /\ 0 \in 0..n
  BY <1>1
<1>3. stmt.op # "idle" /\ stmt # Idle /\ ~merged /\ stmt.rows + n <= MaxRows
  <2>1. stmt.op # "idle" /\ stmt.rows + n <= MaxRows
    BY <1>2 DEF SinkDelete, Arrives
  <2>2. stmt # Idle
    BY <2>1 DEF Idle
  <2> QED BY <2>1, <2>2 DEF BagInv, RunInv
<1>4. N \in SUBSET Emitted /\ N \cap stmt.updated = {}
  BY <1>1, ChunkCopies DEF SinkDelete, DeleteTouchRejected
<1>5. M \in SUBSET Emitted /\ M \in SUBSET Copy /\ M \cap Touched = {}
  <2> HIDE DEF N
  <2> QED BY <1>4 DEF Touched, Emitted
<1>6. \A v \in Value : Doomed(copies)[v] = Cardinality(CopiesOf(M, v))
  <2>1. ASSUME NEW v \in Value
        PROVE  {c \in N : c[1] = v /\ c \notin stmt.deleted} = CopiesOf(M, v)
    BY DEF CopiesOf
  <2>2. \A v \in Value :
            Doomed(copies)[v] = Cardinality({c \in N : c[1] = v /\ c \notin stmt.deleted})
    BY DEF Doomed
  <2> QED BY <2>1, <2>2
<1>7. net' = [v \in Value |-> net[v] - Cardinality(CopiesOf(M, v)) + Count(<<>>)[v]]
  <2>1. net' = [v \in Value |-> net[v] - Doomed(copies)[v] + Count(<<>>)[v]]
    BY DEF SinkDelete, FlushAppends
  <2> HIDE DEF M
  <2> QED BY <2>1, <1>6
<1>8. \A v \in Value : net'[v] <= MaxCopies
  <2>1. \A v \in Value : Cardinality(CopiesOf(M, v)) \in Nat
    BY <1>5, CopiesAreFinite
  <2>2. \A v \in Value : net[v] \in Int /\ net[v] <= MaxCopies
    BY BagAssumption DEF BagInv, TypeOK, Nets
  <2> HIDE DEF M
  <2> QED BY <1>7, <2>1, <2>2, NothingCounted, BagAssumption
<1>9. stmt' = [op |-> stmt.op, repeats |-> stmt.repeats, before |-> stmt.before,
               rows |-> stmt.rows + n, updated |-> stmt.updated, deleted |-> stmt.deleted \cup N,
               added |-> [v \in Value |-> stmt.added[v] + Count(<<>>)[v]]]
  <2> DEFINE added == [v \in Value |-> stmt.added[v] + Count(<<>>)[v]]
  <2>1. stmt' = [Flushed(<<>>, n) EXCEPT !.deleted = @ \cup N]
    BY <1>2 DEF SinkDelete
  <2>2. Flushed(<<>>, n) =
             [op |-> stmt.op, repeats |-> stmt.repeats, before |-> stmt.before,
              rows |-> stmt.rows + n, updated |-> stmt.updated, deleted |-> stmt.deleted,
              added |-> added]
    BY FlushedFields DEF BagInv
  <2>3. stmt' = [[op |-> stmt.op, repeats |-> stmt.repeats, before |-> stmt.before,
                  rows |-> stmt.rows + n, updated |-> stmt.updated, deleted |-> stmt.deleted,
                  added |-> added] EXCEPT !.deleted = @ \cup N]
    <3> HIDE DEF N, added
    <3> QED BY <2>1, <2>2
  <2> QED BY <2>1, <2>3
<1>10. Took(M, <<>>, n)
  <2>1. stmt.updated \cap stmt.deleted = {}
    BY <1>3 DEF BagInv, RunInv
  <2>2. /\ stmt'.updated \cup stmt'.deleted = Touched \cup M
        /\ stmt'.updated \cap stmt'.deleted = {}
    <3> HIDE DEF N
    <3> QED BY <1>4, <1>9, <2>1 DEF Touched
  <2>3. UNCHANGED <<kind, main, snap, merged>>
    BY DEF SinkDelete
  <2> HIDE DEF M
  <2> QED BY <1>3, <1>7, <1>8, <1>9, <2>2, <2>3 DEF Took
<1> HIDE DEF N, M
<1> QED BY <1>2, <1>5, <1>9, <1>10, ChunkKeeps


-----------------------------------------------------------------------------
(* The other actions.                                                      *)

\* The statement that ends leaves nothing behind.
LEMMA IdleInv ==
    /\ Zero \in Nets /\ Zero \in [Value -> 0..MaxRows]
    /\ Idle \in [op : {"idle", "insert", "update", "delete", "merge"}, repeats : BOOLEAN,
                 before : Nets, rows : 0..MaxRows, updated : SUBSET Copy, deleted : SUBSET Copy,
                 added : [Value -> 0..MaxRows]]
<1>1. Zero \in Nets /\ Zero \in [Value -> 0..MaxRows]
  BY BagAssumption DEF Zero, Nets
<1> QED BY <1>1, BagAssumption DEF Idle

LEMMA InitBag == ASSUME Init PROVE BagInv
<1>1. snap \in Bag /\ main = snap /\ kind \in {"overlay", "materialized", "branch"}
  BY DEF Init
<1>2. net = Zero /\ merged = FALSE /\ stmt = Idle
  BY DEF Init
<1>3. TypeOK
  <2>1. main \in [Value -> 0..(2 * MaxCopies)]
    BY <1>1, BagAssumption DEF Bag
  <2> QED BY <1>1, <1>2, <2>1, IdleInv DEF TypeOK
<1>4. MergedInv /\ RunInv
  BY <1>1 DEF Init, MergedInv, RunInv
<1>5. NoOverdraft
  <2>1. \A v \in Value : Seen[v] \in Nat
    BY <1>3, <1>4, SeenType
  <2> QED BY <2>1 DEF NoOverdraft, Init, Zero
<1> QED BY <1>3, <1>4, <1>5 DEF BagInv

LEMMA BaseCommitKeeps ==
    ASSUME BagInv, NEW v \in Value, NEW n \in 0..MaxCopies, BaseCommit(v, n)
    PROVE  BagInv'
<1>1. main \in Bag => main' \in Bag
  BY DEF BaseCommit, Bag
<1>2. main' \in [Value -> 0..(2 * MaxCopies)]
  BY BagAssumption DEF BaseCommit, BagInv, TypeOK
<1>3. TypeOK'
  BY <1>2 DEF BaseCommit, BagInv, TypeOK
<1>4. MergedInv' /\ RunInv'
  BY <1>1 DEF BaseCommit, BagInv, MergedInv, RunInv
<1>5. NoOverdraft'
  BY DEF BaseCommit, BagInv, NoOverdraft, FixedBase, Seen
<1> QED BY <1>3, <1>4, <1>5 DEF BagInv

LEMMA BeginKeeps ==
    ASSUME BagInv, NEW op \in {"insert", "update", "delete", "merge"}, NEW repeats \in BOOLEAN,
           Begin(op, repeats)
    PROVE  BagInv'
<1>1. stmt' = [op |-> op, repeats |-> repeats, before |-> net, rows |-> 0,
               updated |-> {}, deleted |-> {}, added |-> Zero]
  BY DEF Begin, Idle
<1>2. UNCHANGED <<kind, main, snap, net, merged>> /\ ~merged
  BY DEF Begin
<1>3. TypeOK'
  <2>1. stmt' \in [op : {"idle", "insert", "update", "delete", "merge"}, repeats : BOOLEAN,
                  before : Nets, rows : 0..MaxRows, updated : SUBSET Copy, deleted : SUBSET Copy,
                  added : [Value -> 0..MaxRows]]
    <3>1. net \in Nets
      BY DEF BagInv, TypeOK
    <3> QED BY <1>1, <3>1, IdleInv, BagAssumption
  <2> QED BY <1>2, <2>1 DEF BagInv, TypeOK
<1>4. MergedInv'
  BY <1>2 DEF BagInv, MergedInv
<1>5. NoOverdraft' /\ Seen' = Seen /\ FixedBase' = FixedBase
  BY <1>2 DEF BagInv, NoOverdraft, FixedBase, Seen
<1>6. RunInv'
  <2>1. Touched' = {} /\ stmt'.updated \cap stmt'.deleted = {}
    BY <1>1 DEF Touched
  <2>2. ASSUME NEW v \in Value
        PROVE  /\ net'[v] = stmt'.before[v] - Cardinality(CopiesOf(Touched', v)) + stmt'.added[v]
               /\ stmt'.added[v] <= stmt'.rows
    <3>1. Cardinality(CopiesOf(Touched', v)) = 0
      BY <2>1, NothingCounted
    <3>2. net[v] \in Int
      BY BagAssumption DEF BagInv, TypeOK, Nets
    <3> QED BY <1>1, <1>2, <3>1, <3>2 DEF Zero
  <2>3. FixedBase' => \A v \in Value : Seen'[v] + stmt'.before[v] >= 0
    BY <1>1, <1>5 DEF BagInv, NoOverdraft
  <2>4. ~merged' /\ stmt'.op # "idle"
    BY <1>1, <1>2
  <2> QED BY <2>1, <2>2, <2>3, <2>4 DEF RunInv
<1> QED BY <1>3, <1>4, <1>5, <1>6 DEF BagInv

LEMMA FailKeeps == ASSUME BagInv, Fail PROVE BagInv'
<1>1. stmt' = Idle /\ net' = stmt.before /\ UNCHANGED <<kind, main, snap, merged>>
  BY DEF Fail
<1>2. stmt.before \in Nets
  BY DEF BagInv, TypeOK
<1>3. TypeOK'
  BY <1>1, <1>2, IdleInv DEF BagInv, TypeOK
<1>4. MergedInv' /\ RunInv'
  BY <1>1 DEF BagInv, MergedInv, RunInv, Idle
<1>5. NoOverdraft'
  BY <1>1 DEF Fail, BagInv, RunInv, NoOverdraft, FixedBase, Seen
<1> QED BY <1>3, <1>4, <1>5 DEF BagInv

LEMMA EndKeeps == ASSUME BagInv, End PROVE BagInv'
<1>1. stmt' = Idle /\ UNCHANGED <<kind, main, snap, net, merged>>
  BY DEF End
<1>2. TypeOK'
  BY <1>1, IdleInv DEF BagInv, TypeOK
<1>3. MergedInv' /\ RunInv'
  BY <1>1 DEF BagInv, MergedInv, RunInv, Idle
<1>4. NoOverdraft'
  BY <1>1 DEF BagInv, NoOverdraft, FixedBase, Seen
<1> QED BY <1>2, <1>3, <1>4 DEF BagInv

\* What the merge leaves of a value.
LEMMA ResultType ==
    ASSUME BagInv, ~merged, NEW policy \in {"abort", "ours", "theirs"}
    PROVE  Result(policy) \in [Value -> 0..(2 * MaxCopies)]
<1>1. ASSUME NEW v \in Value
      PROVE  /\ AtLeastZero(main[v] + net[v]) \in 0..(2 * MaxCopies)
             /\ Target(v) \in 0..(2 * MaxCopies)
             /\ Kept(v) \in 0..(2 * MaxCopies)
  <2>1. /\ main[v] \in 0..MaxCopies /\ snap[v] \in 0..MaxCopies
        /\ net[v] \in -MaxCopies..MaxCopies /\ MaxCopies \in Nat
    BY BagAssumption DEF BagInv, TypeOK, MergedInv, Bag, Nets
  <2> QED BY <2>1 DEF AtLeastZero, Target, Kept
<1> QED BY <1>1 DEF Result

LEMMA MergeKeeps ==
    ASSUME BagInv, NEW policy \in {"abort", "ours", "theirs"}, Merge(policy)
    PROVE  BagInv'
<1>1. /\ ~merged /\ merged' = TRUE /\ main' = Result(policy) /\ net' = Zero
      /\ stmt = Idle /\ UNCHANGED <<kind, snap, stmt>>
  BY DEF Merge
<1>2. TypeOK'
  BY <1>1, ResultType, IdleInv DEF BagInv, TypeOK
<1>3. MergedInv' /\ RunInv'
  BY <1>1 DEF MergedInv, RunInv, Idle
<1>4. NoOverdraft'
  <2>1. \A v \in Value : Seen'[v] \in Nat
    BY <1>2, BagAssumption DEF TypeOK, Seen, Bag
  <2>2. \A v \in Value : net'[v] = 0
    BY <1>1 DEF Zero
  <2> QED BY <2>1, <2>2 DEF NoOverdraft
<1> QED BY <1>2, <1>3, <1>4 DEF BagInv

LEMMA StutterBag == ASSUME BagInv, UNCHANGED vars PROVE BagInv'
<1>1. UNCHANGED <<kind, main, snap, net, merged, stmt>>
  BY DEF vars
<1>2. Touched' = Touched /\ Seen' = Seen /\ FixedBase' = FixedBase
  BY <1>1 DEF Touched, Seen, FixedBase
<1>3. Emitted' = Emitted
  BY <1>1, <1>2 DEF Emitted, View
<1>4. TypeOK'
  BY <1>1 DEF BagInv, TypeOK
<1>5. MergedInv' /\ NoOverdraft'
  BY <1>1, <1>2 DEF BagInv, MergedInv, NoOverdraft
<1>6. RunInv'
  BY <1>1, <1>2, <1>3 DEF BagInv, RunInv
<1> QED BY <1>4, <1>5, <1>6 DEF BagInv

\* The actions of a step.
LEMMA StepCases ==
    ASSUME Next
    PROVE  \/ \E v \in Value, n \in 0..MaxCopies : BaseCommit(v, n)
           \/ \E op \in {"insert", "update", "delete", "merge"}, repeats \in BOOLEAN :
                 Begin(op, repeats)
           \/ \E new \in Chunks(Value) : SinkInsert(new)
           \/ \E copies \in Chunks(Emitted) : SinkDelete(copies)
           \/ \E copies \in Chunks(Emitted) : \E new \in [DOMAIN copies -> Value] :
                 SinkUpdate(copies, new)
           \/ Fail
           \/ End
           \/ \E policy \in {"abort", "ours", "theirs"} : Merge(policy)
BY DEF Next

\* At every moment of a statement's chunks the net has its type and its bound,
\* it is what the statement found less what its sinks touched plus what they
\* added, and it takes no copy the base does not have.
THEOREM BagInvariant == Spec => []BagInv
<1>1. Init => BagInv
  BY InitBag
<1>2. BagInv /\ [Next]_vars => BagInv'
  <2> SUFFICES ASSUME BagInv, [Next]_vars PROVE BagInv'
    OBVIOUS
  <2>1. CASE UNCHANGED vars
    BY <2>1, StutterBag
  <2>2. CASE \E v \in Value, n \in 0..MaxCopies : BaseCommit(v, n)
    BY <2>2, BaseCommitKeeps
  <2>3. CASE \E op \in {"insert", "update", "delete", "merge"}, repeats \in BOOLEAN : Begin(op, repeats)
    BY <2>3, BeginKeeps
  <2>4. CASE \E new \in Chunks(Value) : SinkInsert(new)
    BY <2>4, InsertKeeps
  <2>5. CASE \E copies \in Chunks(Emitted) : SinkDelete(copies)
    BY <2>5, DeleteKeeps
  <2>6. CASE \E copies \in Chunks(Emitted) : \E new \in [DOMAIN copies -> Value] :
                 SinkUpdate(copies, new)
    BY <2>6, UpdateKeeps
  <2>7. CASE Fail
    BY <2>7, FailKeeps
  <2>8. CASE End
    BY <2>8, EndKeeps
  <2>9. CASE \E policy \in {"abort", "ours", "theirs"} : Merge(policy)
    BY <2>9, MergeKeeps
  <2> QED BY <2>1, <2>2, <2>3, <2>4, <2>5, <2>6, <2>7, <2>8, <2>9, StepCases
<1> QED BY <1>1, <1>2, PTL DEF Spec

-----------------------------------------------------------------------------
(* Sums of copies over sets of values, by induction on the set.            *)

\* A nonempty set of numbers has a least one.
LEMMA LeastNumber ==
    ASSUME NEW T \in SUBSET Nat, T # {}
    PROVE  \E n \in T : \A m \in T : n <= m
<1> DEFINE R == {ss \in Nat \X Nat : ss[1] < ss[2]}
<1>1. IsWellFoundedOn(R, Nat)
  BY NatLessThanWellFounded DEF OpToRel
<1>2. \E n \in T : \A y \in T : ~(<<y, n>> \in R)
  <2> HIDE DEF R
  <2> QED BY <1>1, WFMin
<1>3. PICK n \in T : \A y \in T : ~(<<y, n>> \in R)
  BY <1>2
<1>4. ASSUME NEW m \in T PROVE n <= m
  <2>1. m < n => <<m, n>> \in R
    OBVIOUS
  <2> QED BY <2>1, <1>3
<1> QED BY <1>4

\* Induction on a number: G holds the numbers of which a fact is true.
LEMMA NumberInduction ==
    ASSUME NEW G \in SUBSET Nat, 0 \in G, \A n \in G : n + 1 \in G
    PROVE  G = Nat
<1>1. SUFFICES ASSUME Nat \ G # {} PROVE FALSE
  OBVIOUS
<1>2. PICK n \in Nat \ G : \A m \in Nat \ G : n <= m
  <2>1. Nat \ G \in SUBSET Nat
    OBVIOUS
  <2> QED BY <1>1, <2>1, LeastNumber
<1>3. n # 0 /\ n - 1 \in Nat /\ n - 1 < n
  BY <1>2
<1>4. n - 1 \in G
  BY <1>2, <1>3
<1>5. (n - 1) + 1 \in G
  BY <1>4
<1> QED BY <1>2, <1>5

\* Induction on a set of values: G holds the sets of which a fact is true.
LEMMA SetInduction ==
    ASSUME NEW G \in SUBSET SUBSET Value,
           \A S \in SUBSET Value : (\A x \in S : S \ {x} \in G) => S \in G
    PROVE  G = SUBSET Value
<1> DEFINE I == {n \in Nat : \A S \in SUBSET Value : Cardinality(S) = n => S \in G}
<1>1. \A S \in SUBSET Value : IsFiniteSet(S) /\ Cardinality(S) \in Nat
  BY FS_Subset, FS_CardinalityType, BagAssumption
<1>2. 0 \in I
  <2>1. ASSUME NEW S \in SUBSET Value, Cardinality(S) = 0 PROVE S \in G
    <3>1. S = {}
      BY <1>1, <2>1, FS_EmptySet
    <3> QED BY <3>1
  <2> QED BY <2>1
<1>3. ASSUME NEW n \in I PROVE n + 1 \in I
  <2>1. ASSUME NEW S \in SUBSET Value, Cardinality(S) = n + 1 PROVE S \in G
    <3>1. ASSUME NEW x \in S PROVE S \ {x} \in G
      <4>1. Cardinality(S \ {x}) = Cardinality(S) - 1
        BY <1>1, FS_RemoveElement
      <4>2. Cardinality(S \ {x}) = n
        BY <4>1, <2>1
      <4> QED BY <4>2
    <3> QED BY <3>1
  <2> QED BY <2>1
<1>4. I = Nat
  <2>1. I \in SUBSET Nat
    OBVIOUS
  <2> HIDE DEF I
  <2> QED BY <1>2, <1>3, <2>1, NumberInduction
<1>5. ASSUME NEW S \in SUBSET Value PROVE S \in G
  <2>1. Cardinality(S) \in I
    BY <1>1, <1>4
  <2> QED BY <2>1
<1> QED BY <1>5

\* The value a sum over S starts with.
First(S) == CHOOSE x \in S : TRUE

\* The sums of f over the sets of a family.
SumsOver(f, family) ==
    CHOOSE g : g = [S \in family |-> IF S = {} THEN 0 ELSE f[First(S)] + g[S \ {First(S)}]]

\* The sum of f over a set of values.
Sum(f, S) == SumsOver(f, SUBSET S)[S]

LEMMA FirstIn == ASSUME NEW S, S # {} PROVE First(S) \in S
BY DEF First

LEMMA HeldIsSum ==
    ASSUME NEW table, NEW t
    PROVE  Held(table, t) = Sum(table, {v \in Value : Unique[v] = t})
BY DEF Held, MapThenSumSet, MapThenFoldSet, Sum, SumsOver, First

\* The sums over the subsets of a finite set are defined.
LEMMA SumsDefined ==
    ASSUME NEW f, NEW V \in SUBSET Value
    PROVE  LET g == SumsOver(f, SUBSET V) IN
           g = [S \in SUBSET V |-> IF S = {} THEN 0 ELSE f[First(S)] + g[S \ {First(S)}]]
<1> DEFINE D(n) == {S \in SUBSET V : Cardinality(S) <= n}
           Def(g, n) == g = [S \in D(n) |-> IF S = {} THEN 0 ELSE f[First(S)] + g[S \ {First(S)}]]
           I == {n \in Nat : \E g : Def(g, n)}
<1>1. \A S \in SUBSET V : IsFiniteSet(S) /\ Cardinality(S) \in Nat
  BY FS_Subset, FS_CardinalityType, BagAssumption
<1>2. 0 \in I
  <2>1. \A S \in D(0) : S = {}
    BY <1>1, FS_EmptySet
  <2> DEFINE g == [S \in D(0) |-> 0]
  <2>2. Def(g, 0)
    BY <2>1
  <2> QED BY <2>2
<1>3. ASSUME NEW n \in I PROVE n + 1 \in I
  <2>1. PICK g : Def(g, n)
    OBVIOUS
  <2> DEFINE h == [S \in D(n + 1) |-> IF S = {} THEN 0 ELSE f[First(S)] + g[S \ {First(S)}]]
  <2>2. ASSUME NEW S \in D(n + 1), S # {} PROVE S \ {First(S)} \in D(n)
    <3>1. First(S) \in S
      BY <2>2, FirstIn
    <3>2. Cardinality(S \ {First(S)}) = Cardinality(S) - 1
      BY <1>1, <3>1, FS_RemoveElement
    <3> QED BY <1>1, <3>2
  <2>3. ASSUME NEW S \in D(n) PROVE h[S] = g[S]
    <3>1. S \in D(n + 1)
      BY <1>1
    <3>2. g[S] = IF S = {} THEN 0 ELSE f[First(S)] + g[S \ {First(S)}]
      BY <2>1
    <3> QED BY <3>1, <3>2
  <2>4. Def(h, n + 1)
    BY <2>2, <2>3
  <2>5. \E w : Def(w, n + 1)
    <3> HIDE DEF h, Def
    <3> QED BY <2>4
  <2> HIDE DEF Def
  <2> QED BY <2>5
<1>4. I = Nat
  <2>1. I \in SUBSET Nat
    OBVIOUS
  <2> HIDE DEF I
  <2> QED BY <1>2, <1>3, <2>1, NumberInduction
<1>5. PICK n \in Nat : D(n) = SUBSET V
  <2>1. Cardinality(V) \in Nat /\ \A S \in SUBSET V : Cardinality(S) <= Cardinality(V)
    BY <1>1, FS_Subset
  <2> QED BY <2>1
<1>6. \E g : Def(g, n)
  BY <1>4
<1>7. \E g : g = [S \in SUBSET V |-> IF S = {} THEN 0 ELSE f[First(S)] + g[S \ {First(S)}]]
  BY <1>5, <1>6
<1> QED BY <1>7 DEF SumsOver

\* One value less, and the sum of none.
LEMMA SumFirst ==
    ASSUME NEW f, NEW V \in SUBSET Value
    PROVE  LET g == SumsOver(f, SUBSET V) IN
           /\ g[{}] = 0
           /\ \A S \in SUBSET V : S # {} => g[S] = f[First(S)] + g[S \ {First(S)}]
<1> DEFINE g == SumsOver(f, SUBSET V)
<1>1. g = [S \in SUBSET V |-> IF S = {} THEN 0 ELSE f[First(S)] + g[S \ {First(S)}]]
  BY SumsDefined
<1> HIDE DEF g
<1>2. g[{}] = 0
  BY <1>1
<1>3. ASSUME NEW S \in SUBSET V, S # {} PROVE g[S] = f[First(S)] + g[S \ {First(S)}]
  BY <1>1, <1>3
<1> QED BY <1>2, <1>3 DEF g

\* The sum over a set does not depend on the family it is taken from.
LEMMA SumLocal ==
    ASSUME NEW f, NEW V \in SUBSET Value, NEW S \in SUBSET V
    PROVE  SumsOver(f, SUBSET V)[S] = SumsOver(f, SUBSET Value)[S]
<1> DEFINE g == SumsOver(f, SUBSET V)
           h == SumsOver(f, SUBSET Value)
           G == {T \in SUBSET Value : T \subseteq V => g[T] = h[T]}
<1>1. /\ g[{}] = 0
      /\ \A T \in SUBSET V : T # {} => g[T] = f[First(T)] + g[T \ {First(T)}]
  BY SumFirst, ZenonT(60)
<1>2. /\ h[{}] = 0
      /\ \A T \in SUBSET Value : T # {} => h[T] = f[First(T)] + h[T \ {First(T)}]
  <2>1. Value \in SUBSET Value
    OBVIOUS
  <2> QED BY <2>1, SumFirst, ZenonT(60)
<1> HIDE DEF g, h
<1>3. ASSUME NEW T \in SUBSET Value, \A x \in T : T \ {x} \in G PROVE T \in G
  <2>1. CASE T = {}
    BY <2>1, <1>1, <1>2
  <2>2. CASE T # {}
    <3>1. First(T) \in T
      BY <2>2, FirstIn
    <3>2. T \ {First(T)} \in G
      BY <3>1, <1>3
    <3> QED BY <2>2, <3>1, <3>2, <1>1, <1>2
  <2> QED BY <2>1, <2>2
<1>4. G = SUBSET Value
  <2>1. G \in SUBSET SUBSET Value
    OBVIOUS
  <2> HIDE DEF G
  <2> QED BY <1>3, <2>1, SetInduction
<1> QED BY <1>4 DEF g, h

LEMMA SumBase ==
    ASSUME NEW f
    PROVE  /\ Sum(f, {}) = 0
           /\ \A S \in SUBSET Value :
                 S # {} => First(S) \in S /\ Sum(f, S) = f[First(S)] + Sum(f, S \ {First(S)})
<1> DEFINE h == SumsOver(f, SUBSET Value)
<1>1. \A S \in SUBSET Value : Sum(f, S) = h[S]
  BY SumLocal DEF Sum
<1>2. /\ h[{}] = 0
      /\ \A T \in SUBSET Value : T # {} => h[T] = f[First(T)] + h[T \ {First(T)}]
  <2>1. Value \in SUBSET Value
    OBVIOUS
  <2> QED BY <2>1, SumFirst
<1> HIDE DEF h
<1>3. {} \in SUBSET Value
  OBVIOUS
<1>4. ASSUME NEW S \in SUBSET Value, S # {}
      PROVE  First(S) \in S /\ Sum(f, S) = f[First(S)] + Sum(f, S \ {First(S)})
  BY <1>1, <1>2, <1>4, FirstIn
<1> QED BY <1>1, <1>2, <1>3, <1>4

LEMMA SumType ==
    ASSUME NEW f, \A v \in Value : f[v] \in Int
    PROVE  \A S \in SUBSET Value : Sum(f, S) \in Int
<1> DEFINE G == {S \in SUBSET Value : Sum(f, S) \in Int}
<1>1. ASSUME NEW S \in SUBSET Value, \A x \in S : S \ {x} \in G PROVE S \in G
  <2>1. CASE S = {}
    BY <2>1, SumBase
  <2>2. CASE S # {}
    <3>1. First(S) \in S /\ Sum(f, S) = f[First(S)] + Sum(f, S \ {First(S)})
      BY <2>2, SumBase
    <3>2. S \ {First(S)} \in G
      BY <3>1, <1>1
    <3> QED BY <3>1, <3>2
  <2> QED BY <2>1, <2>2
<1>2. G = SUBSET Value
  <2>1. G \in SUBSET SUBSET Value
    OBVIOUS
  <2> HIDE DEF G
  <2> QED BY <1>1, <2>1, SetInduction
<1> QED BY <1>2

\* Any value may be taken out first.
LEMMA SumOut ==
    ASSUME NEW f, \A v \in Value : f[v] \in Int, NEW S \in SUBSET Value, NEW x \in S
    PROVE  Sum(f, S) = f[x] + Sum(f, S \ {x})
<1> DEFINE G == {T \in SUBSET Value : \A y \in T : Sum(f, T) = f[y] + Sum(f, T \ {y})}
<1>1. \A T \in SUBSET Value : Sum(f, T) \in Int
  BY SumType
<1>2. ASSUME NEW T \in SUBSET Value, \A y \in T : T \ {y} \in G PROVE T \in G
  <2> SUFFICES ASSUME NEW y \in T PROVE Sum(f, T) = f[y] + Sum(f, T \ {y})
    OBVIOUS
  <2> DEFINE p == First(T)
  <2>1. p \in T /\ Sum(f, T) = f[p] + Sum(f, T \ {p})
    BY SumBase
  <2> HIDE DEF p
  <2>2. CASE y # p
    <3>1. T \ {p} \in G /\ T \ {y} \in G
      BY <1>2, <2>1
    <3>2. y \in T \ {p} /\ p \in T \ {y}
      BY <2>1, <2>2
    <3>3. Sum(f, T \ {p}) = f[y] + Sum(f, (T \ {p}) \ {y})
      BY <3>1, <3>2
    <3>4. Sum(f, T \ {y}) = f[p] + Sum(f, (T \ {y}) \ {p})
      BY <3>1, <3>2
    <3>5. (T \ {p}) \ {y} = (T \ {y}) \ {p} /\ (T \ {y}) \ {p} \in SUBSET Value
      OBVIOUS
    <3>6. f[p] \in Int /\ f[y] \in Int
      BY <2>1
    <3>7. PICK r \in Int : r = Sum(f, (T \ {y}) \ {p})
      BY <1>1, <3>5
    <3>8. Sum(f, T \ {p}) = f[y] + r /\ Sum(f, T \ {y}) = f[p] + r
      BY <3>3, <3>4, <3>5, <3>7
    <3>9. Sum(f, T) = f[p] + (f[y] + r)
      BY <2>1, <3>8
    <3>10. f[p] + (f[y] + r) = f[y] + (f[p] + r)
      BY <3>6
    <3> QED BY <3>8, <3>9, <3>10
  <2> QED BY <2>1, <2>2
<1>3. G = SUBSET Value
  <2>1. G \in SUBSET SUBSET Value
    OBVIOUS
  <2> HIDE DEF G
  <2> QED BY <1>2, <2>1, SetInduction
<1> QED BY <1>3

\* A table h: what f and g hold together.
Together(f, g, h) == \A v \in Value : f[v] \in Int /\ g[v] \in Int /\ h[v] = f[v] + g[v]

LEMMA SumTogether ==
    ASSUME NEW f, NEW g, NEW h, Together(f, g, h)
    PROVE  \A S \in SUBSET Value : Sum(h, S) = Sum(f, S) + Sum(g, S)
<1> USE DEF Together
<1> DEFINE G == {S \in SUBSET Value : Sum(h, S) = Sum(f, S) + Sum(g, S)}
<1>1. \A T \in SUBSET Value : Sum(f, T) \in Int
  BY SumType
<1>2. \A T \in SUBSET Value : Sum(g, T) \in Int
  BY SumType
<1>3. ASSUME NEW S \in SUBSET Value, \A x \in S : S \ {x} \in G PROVE S \in G
  <2>1. CASE S = {}
    <3>1. Sum(f, {}) = 0
      BY SumBase
    <3>2. Sum(g, {}) = 0
      BY SumBase
    <3>3. Sum(h, {}) = 0
      BY SumBase
    <3> QED BY <2>1, <3>1, <3>2, <3>3
  <2>2. CASE S # {}
    <3> DEFINE x == First(S)
    <3>1. x \in S /\ Sum(f, S) = f[x] + Sum(f, S \ {x})
      BY <2>2, SumBase
    <3>2. Sum(g, S) = g[x] + Sum(g, S \ {x})
      BY <2>2, SumBase
    <3>3. Sum(h, S) = h[x] + Sum(h, S \ {x})
      BY <2>2, SumBase
    <3> HIDE DEF x
    <3>4. S \ {x} \in SUBSET Value /\ Sum(h, S \ {x}) = Sum(f, S \ {x}) + Sum(g, S \ {x})
      BY <3>1, <1>3
    <3>5. Sum(f, S \ {x}) \in Int /\ Sum(g, S \ {x}) \in Int
      BY <3>4, <1>1, <1>2
    <3>6. f[x] \in Int /\ g[x] \in Int /\ h[x] = f[x] + g[x]
      BY <3>1
    <3> QED BY <3>1, <3>2, <3>3, <3>4, <3>5, <3>6
  <2> QED BY <2>1, <2>2
<1>4. G = SUBSET Value
  <2>1. G \in SUBSET SUBSET Value
    OBVIOUS
  <2> HIDE DEF G
  <2> QED BY <1>3, <2>1, SetInduction
<1> QED BY <1>4

\* A sum grows with its terms.
LEMMA SumGrows ==
    ASSUME NEW f, NEW g, NEW V \in SUBSET Value,
           \A v \in Value : f[v] \in Int /\ g[v] \in Int,
           \A v \in V : f[v] <= g[v]
    PROVE  Sum(f, V) <= Sum(g, V)
<1> DEFINE G == {S \in SUBSET Value : S \subseteq V => Sum(f, S) <= Sum(g, S)}
<1>1. \A T \in SUBSET Value : Sum(f, T) \in Int
  BY SumType
<1>2. \A T \in SUBSET Value : Sum(g, T) \in Int
  BY SumType
<1>3. ASSUME NEW S \in SUBSET Value, \A x \in S : S \ {x} \in G PROVE S \in G
  <2>1. CASE S = {}
    <3>1. Sum(f, {}) = 0
      BY SumBase
    <3>2. Sum(g, {}) = 0
      BY SumBase
    <3> QED BY <2>1, <3>1, <3>2
  <2>2. CASE S # {} /\ S \subseteq V
    <3> DEFINE x == First(S)
    <3>1. x \in S /\ Sum(f, S) = f[x] + Sum(f, S \ {x})
      BY <2>2, SumBase
    <3>2. Sum(g, S) = g[x] + Sum(g, S \ {x})
      BY <2>2, SumBase
    <3> HIDE DEF x
    <3>3. S \ {x} \in SUBSET Value /\ Sum(f, S \ {x}) <= Sum(g, S \ {x})
      BY <3>1, <1>3, <2>2
    <3>4. Sum(f, S \ {x}) \in Int /\ Sum(g, S \ {x}) \in Int
      BY <3>3, <1>1, <1>2
    <3>5. f[x] \in Int /\ g[x] \in Int /\ f[x] <= g[x]
      BY <3>1, <2>2
    <3>6. Sum(f, S) <= Sum(g, S)
      BY <3>1, <3>2, <3>3, <3>4, <3>5
    <3> QED BY <3>6
  <2> QED BY <2>1, <2>2
<1>4. G = SUBSET Value
  <2>1. G \in SUBSET SUBSET Value
    OBVIOUS
  <2> HIDE DEF G
  <2> QED BY <1>3, <2>1, SetInduction
<1> QED BY <1>4

\* A table f that holds at most what g holds.
Under(f, g) == \A v \in Value : f[v] \in Int /\ g[v] \in Int /\ f[v] <= g[v]

LEMMA SumUnder ==
    ASSUME NEW f, NEW g, Under(f, g), NEW V \in SUBSET Value
    PROVE  Sum(f, V) <= Sum(g, V)
BY SumGrows DEF Under

LEMMA SumSame ==
    ASSUME NEW f, NEW g, NEW V \in SUBSET Value,
           \A v \in Value : f[v] \in Int /\ g[v] \in Int,
           \A v \in V : f[v] = g[v]
    PROVE  Sum(f, V) = Sum(g, V)
<1>1. \A v \in V : f[v] <= g[v] /\ g[v] <= f[v]
  OBVIOUS
<1>2. Sum(f, V) <= Sum(g, V)
  BY <1>1, SumGrows
<1>3. Sum(g, V) <= Sum(f, V)
  BY <1>1, SumGrows
<1>4. Sum(f, V) \in Int
  BY SumType
<1>5. Sum(g, V) \in Int
  BY SumType
<1> QED BY <1>2, <1>3, <1>4, <1>5

LEMMA SumZero == \A S \in SUBSET Value : Sum(Zero, S) = 0
<1> DEFINE G == {S \in SUBSET Value : Sum(Zero, S) = 0}
<1>1. ASSUME NEW S \in SUBSET Value, \A x \in S : S \ {x} \in G PROVE S \in G
  <2>1. CASE S = {}
    BY <2>1, SumBase
  <2>2. CASE S # {}
    <3>1. First(S) \in S /\ Sum(Zero, S) = Zero[First(S)] + Sum(Zero, S \ {First(S)})
      BY <2>2, SumBase
    <3>2. S \ {First(S)} \in G /\ Zero[First(S)] = 0
      BY <3>1, <1>1 DEF Zero
    <3> QED BY <3>1, <3>2
  <2> QED BY <2>1, <2>2
<1>2. G = SUBSET Value
  <2>1. G \in SUBSET SUBSET Value
    OBVIOUS
  <2> HIDE DEF G
  <2> QED BY <1>1, <2>1, SetInduction
<1> QED BY <1>2

LEMMA SumNatural ==
    ASSUME NEW f, NEW V \in SUBSET Value, \A v \in Value : f[v] \in Int,
           \A v \in V : f[v] >= 0
    PROVE  Sum(f, V) \in Nat
<1>1. \A v \in Value : Zero[v] \in Int /\ Zero[v] = 0
  BY DEF Zero
<1>2. Sum(Zero, V) <= Sum(f, V)
  <2>1. \A v \in V : Zero[v] <= f[v]
    BY <1>1
  <2> QED BY <1>1, <2>1, SumGrows
<1>3. Sum(f, V) \in Int
  BY SumType
<1> QED BY <1>2, <1>3, SumZero

\* A sum of numbers is at least each of them.
LEMMA SumAtLeast ==
    ASSUME NEW f, NEW V \in SUBSET Value, \A v \in Value : f[v] \in Int,
           \A v \in V : f[v] >= 0, NEW x \in V
    PROVE  Sum(f, V) >= f[x]
<1>1. Sum(f, V) = f[x] + Sum(f, V \ {x})
  BY SumOut
<1>2. Sum(f, V \ {x}) \in Nat
  <2>1. V \ {x} \in SUBSET Value /\ \A v \in V \ {x} : f[v] >= 0
    OBVIOUS
  <2> QED BY <2>1, SumNatural
<1> QED BY <1>1, <1>2

\* Values that count nothing may be left out of a sum.
LEMMA SumPart ==
    ASSUME NEW f, NEW V \in SUBSET Value, NEW U \in SUBSET V,
           \A v \in Value : f[v] \in Int, \A v \in V \ U : f[v] = 0
    PROVE  Sum(f, U) = Sum(f, V)
<1> DEFINE G == {S \in SUBSET Value : U \subseteq S /\ S \subseteq V => Sum(f, U) = Sum(f, S)}
<1>1. ASSUME NEW S \in SUBSET Value, \A x \in S : S \ {x} \in G PROVE S \in G
  <2>1. CASE S = U
    BY <2>1
  <2>2. CASE S # U /\ U \subseteq S /\ S \subseteq V
    <3>1. PICK x \in S : x \notin U
      BY <2>2
    <3>2. Sum(f, S) = f[x] + Sum(f, S \ {x})
      BY SumOut
    <3>3. U \subseteq S \ {x} /\ S \ {x} \subseteq V /\ S \ {x} \in SUBSET Value
      BY <2>2, <3>1
    <3>4. Sum(f, U) = Sum(f, S \ {x})
      BY <1>1, <3>3
    <3>5. Sum(f, S \ {x}) \in Int
      BY <3>3, SumType
    <3>6. f[x] = 0
      BY <2>2, <3>1
    <3>7. Sum(f, U) = Sum(f, S)
      BY <3>2, <3>4, <3>5, <3>6
    <3> QED BY <3>7
  <2> QED BY <2>1, <2>2
<1>2. G = SUBSET Value
  <2>1. G \in SUBSET SUBSET Value
    OBVIOUS
  <2> HIDE DEF G
  <2> QED BY <1>1, <2>1, SetInduction
<1> QED BY <1>2

\* The rows of a chunk whose values are in a set, counted value by value.
LEMMA SumCount ==
    ASSUME NEW n \in Nat, NEW seq, DOMAIN seq = 1..n
    PROVE  \A V \in SUBSET Value :
               Sum(Count(seq), V) = Cardinality({i \in 1..n : seq[i] \in V})
<1> DEFINE At(S) == {i \in 1..n : seq[i] \in S}
           G == {S \in SUBSET Value : Sum(Count(seq), S) = Cardinality(At(S))}
<1>1. ASSUME NEW S \in SUBSET Value, \A x \in S : S \ {x} \in G PROVE S \in G
  <2>1. CASE S = {}
    <3>1. At(S) = {}
      BY <2>1
    <3>2. Sum(Count(seq), {}) = 0
      BY SumBase
    <3> QED BY <2>1, <3>1, <3>2, FS_EmptySet
  <2>2. CASE S # {}
    <3> DEFINE x == First(S)
    <3>1. x \in S /\ Sum(Count(seq), S) = Count(seq)[x] + Sum(Count(seq), S \ {x})
      BY <2>2, SumBase
    <3> HIDE DEF x
    <3>2. Sum(Count(seq), S \ {x}) = Cardinality(At(S \ {x}))
      BY <1>1, <3>1
    <3>3. Count(seq)[x] = Cardinality(At({x}))
      <4>1. At({x}) = {i \in DOMAIN seq : seq[i] = x}
        OBVIOUS
      <4> QED BY <3>1, <4>1 DEF Count
    <3>4. At(S) = At({x}) \cup At(S \ {x}) /\ At({x}) \cap At(S \ {x}) = {}
      BY <3>1
    <3>5. IsFiniteSet(At({x})) /\ IsFiniteSet(At(S \ {x}))
      BY IndicesAreFinite
    <3>6. Cardinality(At(S)) = Cardinality(At({x})) + Cardinality(At(S \ {x}))
      <4> HIDE DEF At
      <4> QED BY <3>4, <3>5, DisjointUnion
    <3> HIDE DEF At
    <3>7. Sum(Count(seq), S) = Cardinality(At(S))
      BY <3>1, <3>2, <3>3, <3>6
    <3> QED BY <3>7
  <2> QED BY <2>1, <2>2
<1>2. G = SUBSET Value
  <2>1. G \in SUBSET SUBSET Value
    OBVIOUS
  <2> HIDE DEF G
  <2> QED BY <1>1, <2>1, SetInduction
<1> QED BY <1>2

-----------------------------------------------------------------------------
(* UNIQUE.                                                                 *)

\* The values with a UNIQUE column.
With(t) == {v \in Value : Unique[v] = t}

\* UNIQUE holds on the base a materialized scenario reads, on what the scenario
\* shows, and on what it showed when the running statement started.
UniqueInv ==
    /\ UniqueHolds(snap)
    /\ UniqueOnMergedView
    /\ stmt # Idle /\ FixedBase => UniqueHolds(View(stmt.before))

\* What ProbeKeyless takes the base to hold of a tuple is what it holds.
LEMMA BaseHolds ==
    ASSUME BagInv, FixedBase, UniqueHolds(snap), NEW t \in Tuples
    PROVE  Sum(Seen, With(t)) = IF InBase(t) THEN 1 ELSE 0
<1>1. Seen = snap
  BY DEF FixedBase, Seen
<1>2. \A v \in Value : Seen[v] \in Int /\ Seen[v] >= 0
  BY SeenType DEF BagInv
<1>3. With(t) \in SUBSET Value
  BY DEF With
<1>4. Sum(Seen, With(t)) \in Nat
  BY <1>2, <1>3, SumNatural
<1>5. Sum(Seen, With(t)) <= 1
  <2>1. Held(snap, t) <= 1
    BY DEF UniqueHolds
  <2>2. Held(snap, t) = Sum(snap, With(t))
    BY HeldIsSum DEF With
  <2> QED BY <1>1, <2>1, <2>2
<1>6. CASE InBase(t)
  <2>1. PICK x \in With(t) : Seen[x] > 0
    BY <1>6 DEF InBase, With
  <2>2. Sum(Seen, With(t)) >= Seen[x]
    BY <1>2, <1>3, SumAtLeast
  <2>3. Seen[x] \in Int
    BY <1>2, <1>3
  <2> QED BY <1>4, <1>5, <1>6, <2>1, <2>2, <2>3
<1>7. CASE ~InBase(t)
  <2>1. \A v \in With(t) : Seen[v] = Zero[v]
    BY <1>2, <1>7 DEF InBase, With, Zero
  <2>2. \A v \in Value : Zero[v] \in Int
    BY DEF Zero
  <2>3. Sum(Seen, With(t)) = Sum(Zero, With(t))
    BY <1>2, <1>3, <2>1, <2>2, SumSame
  <2> QED BY <1>3, <1>7, <2>3, SumZero
<1> QED BY <1>6, <1>7

\* A table w: what f and g hold, less what h takes, plus what k adds.
Netted(f, g, h, k, w) ==
    /\ \A v \in Value : f[v] \in Int
    /\ \A v \in Value : g[v] \in Int
    /\ \A v \in Value : h[v] \in Int
    /\ \A v \in Value : k[v] \in Int
    /\ \A v \in Value : w[v] = f[v] + g[v] - h[v] + k[v]

LEMMA SumOfNetted ==
    ASSUME NEW f, NEW g, NEW h, NEW k, NEW w, Netted(f, g, h, k, w)
    PROVE  \A S \in SUBSET Value : Sum(w, S) = Sum(f, S) + Sum(g, S) - Sum(h, S) + Sum(k, S)
<1> USE DEF Netted
<1> DEFINE b == [v \in Value |-> f[v] + g[v]]
           a == [v \in Value |-> b[v] + k[v]]
<1>1. Together(f, g, b) /\ Together(b, k, a) /\ Together(w, h, a)
  BY DEF Together
<1> HIDE DEF a, b
<1>2. \A S \in SUBSET Value : Sum(b, S) = Sum(f, S) + Sum(g, S)
  BY <1>1, SumTogether
<1>3. \A S \in SUBSET Value : Sum(a, S) = Sum(b, S) + Sum(k, S)
  BY <1>1, SumTogether
<1>10. \A S \in SUBSET Value : Sum(a, S) = Sum(w, S) + Sum(h, S)
  BY <1>1, SumTogether
<1> SUFFICES ASSUME NEW S \in SUBSET Value
             PROVE  Sum(w, S) = Sum(f, S) + Sum(g, S) - Sum(h, S) + Sum(k, S)
  OBVIOUS
<1>4. Sum(w, S) \in Int
  <2>1. \A v \in Value : w[v] \in Int
    OBVIOUS
  <2> QED BY <2>1, SumType
<1>5. Sum(f, S) \in Int
  BY SumType
<1>6. Sum(g, S) \in Int
  BY SumType
<1>7. Sum(h, S) \in Int
  BY SumType
<1>8. Sum(k, S) \in Int
  BY SumType
<1>9. Sum(w, S) + Sum(h, S) = (Sum(f, S) + Sum(g, S)) + Sum(k, S)
  BY <1>2, <1>3, <1>10
<1> QED BY <1>4, <1>5, <1>6, <1>7, <1>8, <1>9

\* A table w: what a chunk leaves that deletes "gone" and inserts "new".
AfterChunk(w, gone, new) ==
    /\ \A v \in Value : gone[v] \in Nat
    /\ \A v \in Value : w[v] = Seen[v] + net[v] - gone[v] + Count(new)[v]

\* The rows of a chunk with a UNIQUE column.
RowsWith(new, n, t) == {i \in 1..n : Unique[new[i]] = t}

\* The rows with a UNIQUE value after a chunk.
LEMMA Balance ==
    ASSUME BagInv, NEW gone, NEW n \in Nat, NEW new \in [1..n -> Value], NEW w,
           AfterChunk(w, gone, new), NEW t
    PROVE  /\ Sum(w, With(t)) = Sum(Seen, With(t)) + Sum(net, With(t)) - Sum(gone, With(t))
                                  + Cardinality(RowsWith(new, n, t))
           /\ Sum(w, With(t)) \in Int /\ Sum(gone, With(t)) \in Int
           /\ Sum(Seen, With(t)) \in Int /\ Sum(net, With(t)) \in Int
           /\ Cardinality(RowsWith(new, n, t)) \in Nat
<1> DEFINE V == With(t)
           c == Count(new)
<1>1. V \in SUBSET Value
  BY DEF With
<1>2. \A v \in Value : Seen[v] \in Int
  BY SeenType DEF BagInv
<1>3. \A v \in Value : net[v] \in Int
  BY BagAssumption DEF BagInv, TypeOK, Nets
<1>4. \A v \in Value : c[v] \in Int
  <2>1. c \in [Value -> 0..n]
    BY CountType
  <2> HIDE DEF c
  <2> QED BY <2>1
<1>5. Sum(c, V) = Cardinality(RowsWith(new, n, t))
  <2>1. {i \in 1..n : new[i] \in V} = RowsWith(new, n, t)
    BY DEF With, RowsWith
  <2>2. Sum(c, V) = Cardinality({i \in 1..n : new[i] \in V})
    BY <1>1, SumCount
  <2> QED BY <2>1, <2>2
<1>6. Cardinality(RowsWith(new, n, t)) \in Nat
  <2>1. RowsWith(new, n, t) \in SUBSET (1..n)
    BY DEF RowsWith
  <2> QED BY <2>1, IndicesAreFinite
<1>7. \A v \in Value : w[v] = Seen[v] + net[v] - gone[v] + c[v]
  BY DEF AfterChunk
<1>14. \A v \in Value : gone[v] \in Int
  BY DEF AfterChunk
<1> HIDE DEF V, c
<1>8. Sum(w, V) = Sum(Seen, V) + Sum(net, V) - Sum(gone, V) + Sum(c, V)
  <2>1. \A S \in SUBSET Value : Sum(w, S) = Sum(Seen, S) + Sum(net, S) - Sum(gone, S) + Sum(c, S)
    <3>1. Netted(Seen, net, gone, c, w)
      BY <1>2, <1>3, <1>4, <1>7, <1>14 DEF Netted
    <3> QED BY <3>1, SumOfNetted
  <2> QED BY <1>1, <2>1
<1>9. \A v \in Value : w[v] \in Int
  BY <1>2, <1>3, <1>4, <1>7, <1>14
<1>10. Sum(w, V) \in Int
  BY <1>1, <1>9, SumType
<1>11. Sum(gone, V) \in Int
  BY <1>1, <1>14, SumType
<1>12. Sum(Seen, V) \in Int
  BY <1>1, <1>2, SumType
<1>13. Sum(net, V) \in Int
  BY <1>1, <1>3, SumType
<1> QED BY <1>5, <1>6, <1>8, <1>10, <1>11, <1>12, <1>13 DEF V

\* The last row of a chunk with a UNIQUE column has all others before it.
LEMMA LastRow ==
    ASSUME NEW n \in Nat, NEW J \in SUBSET (1..n), J # {}
    PROVE  \E i \in J : Cardinality(J \cap (1..(i - 1))) = Cardinality(J) - 1
<1> DEFINE T == {k \in Nat : n - k \in J}
<1>1. T # {}
  <2>1. PICK j \in J : TRUE
    OBVIOUS
  <2>2. n - j \in Nat /\ n - (n - j) = j
    BY <2>1
  <2> QED BY <2>1, <2>2
<1>2. PICK k \in T : \A m \in T : k <= m
  <2>1. T \in SUBSET Nat
    OBVIOUS
  <2> HIDE DEF T
  <2> QED BY <1>1, <2>1, LeastNumber
<1> DEFINE i == n - k
<1>3. i \in J /\ i \in 1..n
  BY <1>2
<1>4. \A j \in J : j <= i
  <2> SUFFICES ASSUME NEW j \in J PROVE j <= i
    OBVIOUS
  <2>1. n - j \in Nat /\ n - (n - j) = j
    OBVIOUS
  <2>2. n - j \in T
    BY <2>1
  <2>3. k <= n - j /\ k \in Nat
    BY <1>2, <2>2
  <2> QED BY <2>1, <2>3
<1>5. J \cap (1..(i - 1)) = J \ {i}
  <2>1. ASSUME NEW j \in J PROVE j \in 1..(i - 1) <=> j # i
    <3>1. j \in 1..n /\ j <= i /\ i \in Int
      BY <1>3, <1>4
    <3> HIDE DEF i
    <3> QED BY <3>1
  <2> QED BY <1>3, <2>1
<1>6. Cardinality(J \ {i}) = Cardinality(J) - 1
  <2>1. IsFiniteSet(J)
    BY IndicesAreFinite
  <2> HIDE DEF i
  <2> QED BY <1>3, <2>1, FS_RemoveElement
<1> QED BY <1>3, <1>5, <1>6

\* A chunk ProbeKeyless accepts leaves every UNIQUE value to one row.
LEMMA AcceptedIsUnique ==
    ASSUME BagInv, UniqueInv, FixedBase, NEW gone,
           NEW n \in Nat, NEW new \in [1..n -> Value], ~Duplicate(new, gone), NEW w,
           AfterChunk(w, gone, new)
    PROVE  UniqueHolds(w)
<1> SUFFICES ASSUME NEW t \in Tuples PROVE Held(w, t) <= 1
  BY DEF UniqueHolds
<1> DEFINE V == With(t)
           J == RowsWith(new, n, t)
<1>1. V \in SUBSET Value /\ t # NoTuple
  BY DEF With, Tuples
<1>2. Held(w, t) = Sum(w, V) /\ Held(net, t) = Sum(net, V) /\ Held(gone, t) = Sum(gone, V)
  BY HeldIsSum DEF With
<1>3. /\ Sum(w, V) = Sum(Seen, V) + Sum(net, V) - Sum(gone, V) + Cardinality(J)
      /\ Sum(w, V) \in Int /\ Sum(gone, V) \in Int
      /\ Sum(Seen, V) \in Int /\ Sum(net, V) \in Int
      /\ Cardinality(J) \in Nat
  BY Balance
<1>4. CASE J = {}
  <2>1. Cardinality(J) = 0
    BY <1>4, FS_EmptySet
  <2>2. Sum(gone, V) \in Nat
    <3>1. (\A v \in Value : gone[v] \in Int) /\ \A v \in V : gone[v] >= 0
      BY <1>1 DEF AfterChunk
    <3> QED BY <1>1, <3>1, SumNatural
  <2>3. Sum(Seen, V) + Sum(net, V) <= 1
    <3>1. net \in [Value -> Int] /\ \A v \in Value : Seen[v] \in Int /\ net[v] \in Int
      <4>1. net \in [Value -> Int]
        BY BagAssumption DEF BagInv, TypeOK, Nets
      <4>2. \A v \in Value : Seen[v] \in Int
        BY SeenType DEF BagInv
      <4> QED BY <4>1, <4>2
    <3>2. \A v \in Value : View(net)[v] = Seen[v] + net[v]
      BY <3>1, ViewIs DEF BagInv, NoOverdraft
    <3>3. \A S \in SUBSET Value : Sum(View(net), S) = Sum(Seen, S) + Sum(net, S)
      <4>1. Together(Seen, net, View(net))
        BY <3>1, <3>2 DEF Together
      <4> QED BY <4>1, SumTogether
    <3>4. Held(View(net), t) <= 1
      BY DEF UniqueInv, UniqueOnMergedView, UniqueHolds
    <3>5. Held(View(net), t) = Sum(View(net), V)
      BY HeldIsSum DEF With
    <3> QED BY <1>1, <3>3, <3>4, <3>5
  <2> HIDE DEF V, J
  <2> QED BY <1>2, <1>3, <2>1, <2>2, <2>3
<1>5. CASE J # {}
  <2>1. PICK i \in J : Cardinality(J \cap (1..(i - 1))) = Cardinality(J) - 1
    <3>1. J \in SUBSET (1..n)
      BY DEF RowsWith
    <3> HIDE DEF J
    <3> QED BY <1>5, <3>1, LastRow
  <2>2. i \in 1..n /\ Unique[new[i]] = t
    BY DEF RowsWith
  <2>3. J \cap (1..(i - 1)) = {j \in 1..(i - 1) : Unique[new[j]] = t}
    BY <2>2 DEF RowsWith
  <2>4. ~((IF InBase(t) THEN 1 ELSE 0) + Held(net, t) - Held(gone, t)
            + Cardinality({j \in 1..(i - 1) : Unique[new[j]] = t}) > 0)
    <3>1. i \in DOMAIN new
      BY <2>2
    <3> QED BY <1>1, <2>2, <3>1 DEF Duplicate
  <2>5. Sum(Seen, V) = IF InBase(t) THEN 1 ELSE 0
    BY BaseHolds DEF UniqueInv
  <2> HIDE DEF V, J
  <2>6. ~(Sum(Seen, V) + Sum(net, V) - Sum(gone, V) + (Cardinality(J) - 1) > 0)
    BY <1>2, <2>1, <2>3, <2>4, <2>5
  <2> QED BY <1>2, <1>3, <2>6
<1> QED BY <1>4, <1>5

\* A chunk ProbeKeyless refuses would give a UNIQUE value to two rows.
LEMMA RefusedIsDuplicate ==
    ASSUME BagInv, UniqueInv, FixedBase, NEW gone,
           NEW n \in Nat, NEW new \in [1..n -> Value], Duplicate(new, gone), NEW w,
           AfterChunk(w, gone, new)
    PROVE  ~UniqueHolds(w)
<1>1. PICK i \in 1..n :
          /\ Unique[new[i]] # NoTuple
          /\ (IF InBase(Unique[new[i]]) THEN 1 ELSE 0) + Held(net, Unique[new[i]])
               - Held(gone, Unique[new[i]])
               + Cardinality({j \in 1..(i - 1) : Unique[new[j]] = Unique[new[i]]}) > 0
  BY DEF Duplicate
<1> DEFINE t == Unique[new[i]]
           V == With(t)
           J == RowsWith(new, n, t)
           K == {j \in 1..(i - 1) : Unique[new[j]] = t}
<1>2. t \in Tuples
  BY <1>1 DEF Tuples
<1> HIDE DEF t
<1>3. Held(w, t) = Sum(w, V) /\ Held(net, t) = Sum(net, V) /\ Held(gone, t) = Sum(gone, V)
  BY HeldIsSum DEF With
<1>4. /\ Sum(w, V) = Sum(Seen, V) + Sum(net, V) - Sum(gone, V) + Cardinality(J)
      /\ Sum(w, V) \in Int /\ Sum(gone, V) \in Int
      /\ Sum(Seen, V) \in Int /\ Sum(net, V) \in Int
      /\ Cardinality(J) \in Nat
  BY Balance
<1>5. Sum(Seen, V) = IF InBase(t) THEN 1 ELSE 0
  BY <1>2, BaseHolds DEF UniqueInv
<1>6. Cardinality(K) \in Nat /\ Cardinality(J) >= Cardinality(K) + 1
  <2>1. K \cup {i} \in SUBSET J /\ i \notin K
    BY DEF RowsWith, t
  <2>2. IsFiniteSet(J) /\ IsFiniteSet(K) /\ Cardinality(K) \in Nat
    <3>1. J \in SUBSET (1..n) /\ K \in SUBSET (1..n)
      BY DEF RowsWith
    <3> HIDE DEF J, K
    <3> QED BY <3>1, IndicesAreFinite
  <2> HIDE DEF J, K
  <2>3. Cardinality(K \cup {i}) = Cardinality(K) + 1
    BY <2>1, <2>2, FS_AddElement
  <2>4. Cardinality(K \cup {i}) <= Cardinality(J)
    BY <2>1, <2>2, FS_Subset
  <2> QED BY <2>2, <2>3, <2>4, <1>4
<1>7. (IF InBase(t) THEN 1 ELSE 0) + Held(net, t) - Held(gone, t) + Cardinality(K) > 0
  BY <1>1 DEF t
<1>8. Held(w, t) > 1
  <2> HIDE DEF V, J, K
  <2>1. Sum(Seen, V) + Sum(net, V) - Sum(gone, V) + Cardinality(K) > 0
    BY <1>3, <1>5, <1>7
  <2> QED BY <1>3, <1>4, <1>6, <2>1
<1> QED BY <1>2, <1>3, <1>4, <1>8 DEF UniqueHolds

\* Over a fixed base the scan shows the base plus the net.
LEMMA ViewIsSum ==
    ASSUME BagInv, FixedBase, NEW n \in [Value -> Int], \A v \in Value : Seen[v] + n[v] >= 0
    PROVE  \A v \in Value : View(n)[v] = Seen[v] + n[v]
BY ViewIs DEF BagInv

\* A scenario that changed nothing shows the base it reads.
LEMMA ViewOfZero ==
    ASSUME BagInv, FixedBase
    PROVE  View(Zero) = snap
<1>1. Seen = snap /\ snap = [v \in Value |-> snap[v]]
  BY DEF FixedBase, Seen, BagInv, TypeOK, Bag
<1>2. \A v \in Value : Seen[v] \in Nat /\ Zero[v] = 0
  BY SeenType DEF BagInv, Zero
<1>3. ASSUME NEW v \in Value
      PROVE  AtLeastZero(Zero[v]) + AtLeastZero(Seen[v] - AtLeastZero(-Zero[v])) = snap[v]
  BY <1>1, <1>2 DEF AtLeastZero
<1> QED BY <1>1, <1>3 DEF View

\* A view depends on the net and on the base the scenario reads.
LEMMA ViewStays ==
    ASSUME Seen' = Seen
    PROVE  /\ net' = net => View(net)' = View(net)
           /\ View(net)' = View(net')
           /\ stmt'.before = stmt.before => View(stmt.before)' = View(stmt.before)
           /\ stmt'.before = net => View(stmt.before)' = View(net)
           /\ net' = stmt.before => View(net)' = View(stmt.before)
BY DEF View

LEMMA UniqueInvWhen ==
    ASSUME snap' = snap, FixedBase' = FixedBase, UniqueInv,
           FixedBase => UniqueHolds(View(net)'),
           stmt' # Idle /\ FixedBase => UniqueHolds(View(stmt.before)')
    PROVE  UniqueInv'
<1>1. UniqueHolds(snap')
  BY DEF UniqueInv
<1> QED BY <1>1 DEF UniqueInv, UniqueOnMergedView

LEMMA InitUnique == ASSUME Init, BagInv PROVE UniqueInv
<1>1. UniqueHolds(snap) /\ net = Zero /\ stmt = Idle
  BY DEF Init
<1> QED BY <1>1, ViewOfZero DEF UniqueInv, UniqueOnMergedView

\* A step between two statements, or at the end of one.
LEMMA IdleUnique ==
    ASSUME UniqueInv, BagInv, snap' = snap, kind' = kind, net' = net,
           stmt' = Idle \/ stmt'.before = net
    PROVE  UniqueInv'
<1>1. FixedBase' = FixedBase
  BY DEF FixedBase
<1>2. CASE FixedBase
  <2>1. Seen' = Seen
    BY <1>2 DEF Seen, FixedBase
  <2>2. View(net)' = View(net)
    BY <2>1, ViewStays
  <2>3. stmt'.before = net => View(stmt.before)' = View(net)
    BY <2>1, ViewStays
  <2> QED BY <1>1, <1>2, <2>2, <2>3, UniqueInvWhen DEF UniqueInv, UniqueOnMergedView
<1>3. CASE ~FixedBase
  BY <1>1, <1>3, UniqueInvWhen
<1> QED BY <1>2, <1>3

\* A chunk that keeps UNIQUE, in a running statement.
LEMMA ChunkUnique ==
    ASSUME UniqueInv, stmt # Idle, UNCHANGED <<kind, main, snap>>, stmt'.before = stmt.before,
           FixedBase => UniqueHolds(View(net'))
    PROVE  UniqueInv'
<1>1. FixedBase' = FixedBase /\ Seen' = Seen
  BY DEF FixedBase, Seen
<1>2. View(net)' = View(net') /\ View(stmt.before)' = View(stmt.before)
  BY <1>1, ViewStays
<1> QED BY <1>1, <1>2, UniqueInvWhen DEF UniqueInv

\* What the scan shows after a chunk, from what the chunk does to the net.
LEMMA ViewAfterChunk ==
    ASSUME BagInv, BagInv', FixedBase, UNCHANGED <<kind, main, snap>>,
           NEW gone, NEW n \in Nat, NEW new, DOMAIN new = 1..n,
           \A v \in Value : gone[v] \in Nat, FlushAppends(new, gone)
    PROVE  AfterChunk(View(net'), gone, new)
<1>1. Seen' = Seen /\ FixedBase'
  BY DEF Seen, FixedBase
<1>2. net' \in [Value -> Int]
  BY BagAssumption DEF BagInv, TypeOK, Nets
<1>3. \A v \in Value : Seen[v] + net'[v] >= 0
  BY <1>1 DEF BagInv, NoOverdraft
<1>4. \A v \in Value : View(net')[v] = Seen[v] + net'[v]
  BY <1>2, <1>3, ViewIsSum
<1>5. ASSUME NEW v \in Value
      PROVE  View(net')[v] = Seen[v] + net[v] - gone[v] + Count(new)[v]
  <2>1. net'[v] = net[v] - gone[v] + Count(new)[v]
    BY DEF FlushAppends
  <2>2. Count(new)[v] \in Int
    <3>1. Count(new) \in [Value -> 0..n]
      BY CountType
    <3> QED BY <3>1
  <2>3. net[v] \in Int /\ Seen[v] \in Int /\ gone[v] \in Int
    <3>1. net[v] \in Int
      BY BagAssumption DEF BagInv, TypeOK, Nets
    <3>2. Seen[v] \in Int
      BY SeenType DEF BagInv
    <3> QED BY <3>1, <3>2
  <2> QED BY <1>4, <2>1, <2>2, <2>3
<1> QED BY <1>5 DEF AfterChunk

LEMMA InsertUnique ==
    ASSUME BagInv, BagInv', UniqueInv, NEW new \in Chunks(Value), SinkInsert(new)
    PROVE  UniqueInv'
<1>1. PICK n \in Nat \ {0} : new \in [1..n -> Value]
  BY ChunkIs
<1>2. stmt # Idle /\ stmt'.before = stmt.before /\ UNCHANGED <<kind, main, snap>>
  <2>1. stmt.op # "idle"
    BY DEF SinkInsert, Arrives
  <2>2. stmt'.before = stmt.before
    BY FlushedFields DEF SinkInsert, BagInv
  <2> QED BY <2>1, <2>2 DEF SinkInsert, Idle
<1>3. FixedBase => UniqueHolds(View(net'))
  <2> SUFFICES ASSUME FixedBase PROVE UniqueHolds(View(net'))
    OBVIOUS
  <2>1. FlushAppends(new, Zero) /\ ~Duplicate(new, Zero)
    BY DEF SinkInsert
  <2>2. n \in Nat /\ DOMAIN new = 1..n /\ \A v \in Value : Zero[v] \in Nat
    BY <1>1 DEF Zero
  <2>3. AfterChunk(View(net'), Zero, new)
    BY <1>2, <2>1, <2>2, ViewAfterChunk
  <2> QED BY <1>1, <2>1, <2>3, AcceptedIsUnique
<1> QED BY <1>2, <1>3, ChunkUnique

LEMMA UpdateUnique ==
    ASSUME BagInv, BagInv', UniqueInv, NEW copies \in Chunks(Emitted),
           NEW new \in [DOMAIN copies -> Value], SinkUpdate(copies, new)
    PROVE  UniqueInv'
<1> DEFINE gone == Count(ValuesOf(copies))
<1>1. PICK n \in Nat \ {0} : copies \in [1..n -> Emitted]
  BY ChunkIs
<1>2. stmt # Idle /\ stmt'.before = stmt.before /\ UNCHANGED <<kind, main, snap>>
  <2>1. stmt.op # "idle"
    BY DEF SinkUpdate, Arrives
  <2>2. Flushed(new, Len(copies)).before = stmt.before
    BY FlushedFields DEF BagInv
  <2>3. stmt'.before = Flushed(new, Len(copies)).before
    BY DEF SinkUpdate
  <2> QED BY <2>1, <2>2, <2>3 DEF SinkUpdate, Idle
<1>3. FixedBase => UniqueHolds(View(net'))
  <2> SUFFICES ASSUME FixedBase PROVE UniqueHolds(View(net'))
    OBVIOUS
  <2>1. FlushAppends(new, gone) /\ ~Duplicate(new, gone)
    BY DEF SinkUpdate, Pending
  <2>2. \A v \in Value : gone[v] \in Nat
    <3>1. DOMAIN ValuesOf(copies) = 1..n
      BY <1>1 DEF ValuesOf
    <3>2. gone \in [Value -> 0..n]
      BY <3>1, CountType
    <3> HIDE DEF gone
    <3> QED BY <3>2
  <2>3. n \in Nat /\ DOMAIN new = 1..n /\ new \in [1..n -> Value]
    BY <1>1
  <2> HIDE DEF gone
  <2>4. AfterChunk(View(net'), gone, new)
    BY <1>2, <2>1, <2>2, <2>3, ViewAfterChunk
  <2> QED BY <2>1, <2>3, <2>4, AcceptedIsUnique
<1> QED BY <1>2, <1>3, ChunkUnique

\* A DELETE takes rows away.
LEMMA DeleteUnique ==
    ASSUME BagInv, BagInv', UniqueInv, NEW copies \in Chunks(Emitted), SinkDelete(copies)
    PROVE  UniqueInv'
<1>1. stmt # Idle /\ stmt'.before = stmt.before /\ UNCHANGED <<kind, main, snap>>
  <2>1. stmt.op # "idle"
    BY DEF SinkDelete, Arrives
  <2>2. Flushed(<<>>, Len(copies)).before = stmt.before
    BY FlushedFields DEF BagInv
  <2>3. stmt'.before = Flushed(<<>>, Len(copies)).before
    BY DEF SinkDelete
  <2> QED BY <2>1, <2>2, <2>3 DEF SinkDelete, Idle
<1>2. FixedBase => UniqueHolds(View(net'))
  <2> SUFFICES ASSUME FixedBase, NEW t \in Tuples PROVE Held(View(net'), t) <= 1
    BY DEF UniqueHolds
  <2>1. \A v \in Value : Doomed(copies)[v] \in Nat
    <3>1. PICK n \in Nat \ {0} : copies \in [1..n -> Emitted]
      BY ChunkIs
    <3>2. {copies[i] : i \in DOMAIN copies} \ stmt.deleted \in SUBSET Copy
      BY <3>1, ChunkCopies DEF Emitted
    <3>3. ASSUME NEW v \in Value PROVE Doomed(copies)[v] \in Nat
      <4>1. Doomed(copies)[v] =
              Cardinality(CopiesOf({copies[i] : i \in DOMAIN copies} \ stmt.deleted, v))
        <5>1. {c \in {copies[i] : i \in DOMAIN copies} : c[1] = v /\ c \notin stmt.deleted}
                = CopiesOf({copies[i] : i \in DOMAIN copies} \ stmt.deleted, v)
          BY DEF CopiesOf
        <5> QED BY <5>1 DEF Doomed
      <4> QED BY <3>2, <4>1, CopiesAreFinite
    <3> QED BY <3>3
  <2>2. FlushAppends(<<>>, Doomed(copies)) /\ 0 \in Nat /\ DOMAIN <<>> = 1..0
    BY DEF SinkDelete
  <2>3. AfterChunk(View(net'), Doomed(copies), <<>>)
    BY <1>1, <2>1, <2>2, ViewAfterChunk
  <2>4. net \in [Value -> Int] /\ \A v \in Value : Seen[v] \in Int /\ net[v] \in Int
    BY BagAssumption, SeenType DEF BagInv, TypeOK, Nets
  <2>5. \A v \in Value : View(net)[v] = Seen[v] + net[v]
    BY <2>4, ViewIsSum DEF BagInv, NoOverdraft
  <2>6. \A v \in Value : /\ View(net')[v] \in Int /\ View(net)[v] \in Int
                          /\ View(net')[v] <= View(net)[v]
    <3>1. \A v \in Value : View(net')[v] = Seen[v] + net[v] - Doomed(copies)[v] + 0
      BY <2>3, NothingCounted DEF AfterChunk
    <3> QED BY <2>1, <2>4, <2>5, <3>1
  <2>7. Sum(View(net'), With(t)) <= Sum(View(net), With(t))
    <3>1. With(t) \in SUBSET Value
      BY DEF With
    <3>2. Under(View(net'), View(net))
      BY <2>6 DEF Under
    <3> QED BY <3>1, <3>2, SumUnder
  <2>8. Sum(View(net'), With(t)) \in Int
    <3>1. With(t) \in SUBSET Value
      BY DEF With
    <3> QED BY <2>6, <3>1, SumType
  <2>9. Sum(View(net), With(t)) \in Int
    <3>1. With(t) \in SUBSET Value
      BY DEF With
    <3> QED BY <2>6, <3>1, SumType
  <2>10. Held(View(net'), t) = Sum(View(net'), With(t))
    BY HeldIsSum DEF With
  <2>11. Held(View(net), t) = Sum(View(net), With(t))
    BY HeldIsSum DEF With
  <2>12. Held(View(net), t) <= 1
    BY DEF UniqueInv, UniqueOnMergedView, UniqueHolds
  <2> QED BY <2>7, <2>8, <2>9, <2>10, <2>11, <2>12
<1> QED BY <1>1, <1>2, ChunkUnique

LEMMA MergeUnique ==
    ASSUME BagInv', UniqueInv, NEW policy \in {"abort", "ours", "theirs"}, Merge(policy)
    PROVE  UniqueInv'
<1>1. snap' = snap /\ kind' = kind /\ net' = Zero /\ stmt' = Idle
  BY DEF Merge
<1>2. UniqueHolds(snap') /\ FixedBase' = FixedBase
  BY <1>1 DEF UniqueInv, FixedBase
<1>3. FixedBase => View(net)' = snap'
  <2> SUFFICES ASSUME FixedBase PROVE View(net)' = snap'
    OBVIOUS
  <2>1. Seen' = snap' /\ snap' = [v \in Value |-> snap'[v]]
    BY <1>2 DEF FixedBase, Seen, BagInv, TypeOK, Bag
  <2>2. ASSUME NEW v \in Value
        PROVE  AtLeastZero(net'[v]) + AtLeastZero(Seen'[v] - AtLeastZero(-net'[v])) = snap'[v]
    <3>1. net'[v] = 0
      BY <1>1 DEF Zero
    <3>2. snap'[v] \in Nat
      BY BagAssumption DEF BagInv, TypeOK, Bag
    <3> QED BY <2>1, <3>1, <3>2 DEF AtLeastZero
  <2> QED BY <2>1, <2>2 DEF View
<1>4. FixedBase => UniqueHolds(View(net)')
  BY <1>2, <1>3
<1> QED BY <1>1, <1>2, <1>4, UniqueInvWhen

LEMMA FailUnique ==
    ASSUME UniqueInv, Fail
    PROVE  UniqueInv'
<1>1. /\ stmt # Idle /\ net' = stmt.before /\ stmt' = Idle
      /\ Seen' = Seen /\ FixedBase' = FixedBase /\ snap' = snap
  BY DEF Fail, Seen, FixedBase
<1>2. View(net)' = View(stmt.before)
  BY <1>1, ViewStays
<1>3. FixedBase => UniqueHolds(View(net)')
  BY <1>1, <1>2 DEF UniqueInv
<1> QED BY <1>1, <1>3, UniqueInvWhen

\* Over a base that keeps still, a UNIQUE value is in one row of what the scan
\* shows, after each chunk ProbeKeyless let pass and before the statement.
THEOREM UniqueInvariant == Spec => []UniqueInv
<1>1. Init /\ BagInv => UniqueInv
  BY InitUnique
<1>2. BagInv /\ BagInv' /\ UniqueInv /\ [Next]_vars => UniqueInv'
  <2> SUFFICES ASSUME BagInv, BagInv', UniqueInv, [Next]_vars PROVE UniqueInv'
    OBVIOUS
  <2>1. CASE UNCHANGED vars
    <3>1. Seen' = Seen /\ FixedBase' = FixedBase /\ UNCHANGED <<snap, net, stmt>>
      BY <2>1 DEF vars, Seen, FixedBase
    <3>2. View(net)' = View(net) /\ View(stmt.before)' = View(stmt.before)
      BY <3>1, ViewStays
    <3> QED BY <3>1, <3>2, UniqueInvWhen DEF UniqueInv, UniqueOnMergedView
  <2>2. CASE \E v \in Value, n \in 0..MaxCopies : BaseCommit(v, n)
    <3>1. UNCHANGED <<kind, snap, net, stmt>> /\ stmt = Idle
      BY <2>2 DEF BaseCommit
    <3> QED BY <3>1, IdleUnique
  <2>3. CASE \E op \in {"insert", "update", "delete", "merge"}, repeats \in BOOLEAN : Begin(op, repeats)
    <3>1. UNCHANGED <<kind, snap, net>> /\ stmt'.before = net
      BY <2>3 DEF Begin, Idle
    <3> QED BY <3>1, IdleUnique
  <2>4. CASE \E new \in Chunks(Value) : SinkInsert(new)
    BY <2>4, InsertUnique
  <2>5. CASE \E copies \in Chunks(Emitted) : SinkDelete(copies)
    BY <2>5, DeleteUnique
  <2>6. CASE \E copies \in Chunks(Emitted) : \E new \in [DOMAIN copies -> Value] :
                 SinkUpdate(copies, new)
    BY <2>6, UpdateUnique
  <2>7. CASE Fail
    BY <2>7, FailUnique
  <2>8. CASE End
    <3>1. UNCHANGED <<kind, snap, net>> /\ stmt' = Idle
      BY <2>8 DEF End
    <3> QED BY <3>1, IdleUnique
  <2>9. CASE \E policy \in {"abort", "ours", "theirs"} : Merge(policy)
    BY <2>9, MergeUnique
  <2> QED BY <2>1, <2>2, <2>3, <2>4, <2>5, <2>6, <2>7, <2>8, <2>9, StepCases
<1> QED BY <1>1, <1>2, BagInvariant, PTL DEF Spec

-----------------------------------------------------------------------------
(* What follows.                                                           *)

\* A keyless table keeps its types, and with them the bound of the tables: a
\* net never leaves what its base and one table can hold.
THEOREM TypeCorrect == Spec => []TypeOK
<1>1. BagInv => TypeOK
  BY DEF BagInv
<1> QED BY <1>1, BagInvariant, PTL

\* The delta never deletes more copies than the base has (the scan numbers the
\* copies it emits, TouchRowno lets each be taken once).
THEOREM NeverOverdrawn == Spec => []NoOverdraft
<1>1. BagInv => NoOverdraft
  BY DEF BagInv
<1> QED BY <1>1, BagInvariant, PTL

\* UNIQUE holds on what a scenario with a fixed base shows, although its sinks
\* only count (ProbeKeyless).
THEOREM UniqueOnWhatIsShown == Spec => []UniqueOnMergedView
<1>1. UniqueInv => UniqueOnMergedView
  BY DEF UniqueInv
<1> QED BY <1>1, UniqueInvariant, PTL

\* A statement does to the table what it says: the touched copies go, the new
\* rows come, whatever its chunks are and however often a join repeats a copy.
THEOREM StatementsHaveTheirEffect == Spec => []StatementEffect
<1>1. BagInv => StatementEffect
  <2> SUFFICES ASSUME BagInv, FixedBase, stmt # Idle
               PROVE  /\ stmt.updated \cap stmt.deleted = {}
                      /\ \A v \in Value :
                             View(net)[v] = View(stmt.before)[v]
                                 - Cardinality({c \in Touched : c[1] = v}) + stmt.added[v]
    BY DEF StatementEffect
  <2>1. /\ stmt.updated \cap stmt.deleted = {}
        /\ \A v \in Value :
               net[v] = stmt.before[v] - Cardinality(CopiesOf(Touched, v)) + stmt.added[v]
        /\ \A v \in Value : Seen[v] + stmt.before[v] >= 0
        /\ Touched \subseteq Emitted
    BY DEF BagInv, RunInv
  <2>2. /\ net \in [Value -> Int] /\ stmt.before \in [Value -> Int]
        /\ \A v \in Value : stmt.added[v] \in Int
    BY BagAssumption DEF BagInv, TypeOK, Nets
  <2>3. \A v \in Value : View(net)[v] = Seen[v] + net[v]
    BY <2>2, ViewIsSum DEF BagInv, NoOverdraft
  <2>4. \A v \in Value : View(stmt.before)[v] = Seen[v] + stmt.before[v]
    BY <2>1, <2>2, ViewIsSum
  <2>5. ASSUME NEW v \in Value
        PROVE  View(net)[v] = View(stmt.before)[v]
                   - Cardinality({c \in Touched : c[1] = v}) + stmt.added[v]
    <3>1. PICK k \in Int : k = Cardinality(CopiesOf(Touched, v))
      <4>1. Touched \in SUBSET Emitted
        BY <2>1
      <4>2. Cardinality(CopiesOf(Touched, v)) \in Nat
        BY <4>1, TouchedBound
      <4> QED BY <4>2
    <3>2. PICK s \in Int : s = Seen[v]
      BY SeenType DEF BagInv
    <3>3. PICK b \in Int, a \in Int : b = stmt.before[v] /\ a = stmt.added[v]
      BY <2>2
    <3>4. net[v] = b - k + a
      BY <2>1, <3>1, <3>3
    <3>5. View(net)[v] = s + net[v] /\ View(stmt.before)[v] = s + b
      BY <2>3, <2>4, <3>2, <3>3
    <3>6. View(net)[v] = View(stmt.before)[v] - k + a
      BY <3>4, <3>5
    <3> QED BY <3>1, <3>3, <3>6 DEF CopiesOf
  <2> QED BY <2>1, <2>5
<1> QED BY <1>1, BagInvariant, PTL

\* ProbeKeyless refuses a statement's first chunk only if the table it asks for
\* would hold a UNIQUE value twice.
THEOREM DuplicateErrorsAreTrue == Spec => []DuplicatesAreReal
<1>1. BagInv /\ UniqueInv => DuplicatesAreReal
  <2> SUFFICES ASSUME BagInv, UniqueInv, FixedBase, NEW copies \in Chunks(Emitted),
                      NEW new \in [DOMAIN copies -> Value], Duplicate(new, Pending(copies))
               PROVE  ~UniqueHolds([v \in Value |->
                          View(net)[v] - Count(ValuesOf(copies))[v] + Count(new)[v]])
    BY DEF DuplicatesAreReal
  <2> DEFINE old == Count(ValuesOf(copies))
             w == [v \in Value |-> View(net)[v] - old[v] + Count(new)[v]]
  <2>1. PICK n \in Nat \ {0} : copies \in [1..n -> Emitted]
    BY ChunkIs
  <2>2. n \in Nat /\ new \in [1..n -> Value] /\ DOMAIN ValuesOf(copies) = 1..n
    BY <2>1 DEF ValuesOf
  <2>3. \A v \in Value : old[v] \in Nat
    <3>1. old \in [Value -> 0..n]
      BY <2>2, CountType
    <3> HIDE DEF old
    <3> QED BY <3>1
  <2>4. \A v \in Value : View(net)[v] = Seen[v] + net[v]
    <3>1. net \in [Value -> Int]
      BY BagAssumption DEF BagInv, TypeOK, Nets
    <3> QED BY <3>1, ViewIsSum DEF BagInv, NoOverdraft
  <2>5. Duplicate(new, old)
    BY DEF Pending
  <2>6. AfterChunk(w, old, new)
    <3> HIDE DEF old
    <3>1. ASSUME NEW v \in Value PROVE w[v] = Seen[v] + net[v] - old[v] + Count(new)[v]
      <4>1. w[v] = View(net)[v] - old[v] + Count(new)[v]
        OBVIOUS
      <4>2. Seen[v] \in Int /\ net[v] \in Int
        BY BagAssumption, SeenType DEF BagInv, TypeOK, Nets
      <4>3. Count(new)[v] \in Int
        <5>1. DOMAIN new = 1..n
          BY <2>2
        <5>2. Count(new) \in [Value -> 0..n]
          BY <2>2, <5>1, CountType
        <5> QED BY <5>2
      <4> HIDE DEF w
      <4> QED BY <2>3, <2>4, <4>1, <4>2, <4>3
    <3> HIDE DEF w
    <3> QED BY <2>3, <3>1 DEF AfterChunk
  <2>7. ~UniqueHolds(w)
    <3> HIDE DEF old, w
    <3> QED BY <2>2, <2>5, <2>6, RefusedIsDuplicate
  <2> QED BY <2>7
<1> QED BY <1>1, BagInvariant, UniqueInvariant, PTL

\* A base as it was at the scenario's creation accepts the merge.
THEOREM UnchangedBaseTakesTheMerge == Spec => []UnchangedBaseAccepts
<1>1. BagInv /\ UniqueInv => UnchangedBaseAccepts
  <2> SUFFICES ASSUME BagInv, UniqueInv, FixedBase, main = snap
               PROVE  (\A v \in Value : ~Conflict(v)) /\ AppendAccepted("abort")
    BY DEF UnchangedBaseAccepts
  <2>1. \A v \in Value : ~Conflict(v)
    BY DEF Conflict
  <2>2. Seen = main
    BY DEF Seen, FixedBase
  <2>3. net \in [Value -> Int] /\ \A v \in Value : Seen[v] \in Nat
    BY BagAssumption, SeenType DEF BagInv, TypeOK, Nets
  <2>4. ASSUME NEW v \in Value
        PROVE  AtLeastZero(net[v]) + AtLeastZero(Seen[v] - AtLeastZero(-net[v]))
                 = AtLeastZero(main[v] + net[v])
    BY <2>2, <2>3 DEF AtLeastZero
  <2>5. Result("abort") = [v \in Value |-> AtLeastZero(main[v] + net[v])]
    BY <2>1 DEF Result
  <2>6. Result("abort") = View(net)
    BY <2>4, <2>5 DEF View
  <2> QED BY <2>1, <2>6 DEF AppendAccepted, UniqueInv, UniqueOnMergedView
<1> QED BY <1>1, BagInvariant, UniqueInvariant, PTL

\* The preview lists what the merge adds and deletes of every unflagged value.
THEOREM PreviewIsTrue == Spec => []PreviewListsTheCopies
<1>1. BagInv => PreviewListsTheCopies
  <2> SUFFICES ASSUME BagInv, kind = "materialized", NEW v \in Value, ~PreviewConflict(v)
               PROVE  Result("abort")[v] - main[v] = PreviewCopies(v)
    BY DEF PreviewListsTheCopies
  <2>1. /\ net[v] \in Int /\ main[v] \in Nat
        /\ snap[v] + net[v] >= 0
    BY BagAssumption DEF BagInv, TypeOK, Nets, NoOverdraft, FixedBase, Seen
  <2>2. net[v] < 0 => main[v] = snap[v]
    BY DEF PreviewConflict
  <2>3. Result("abort")[v] = AtLeastZero(main[v] + net[v])
    BY DEF Result
  <2> QED BY <2>1, <2>2, <2>3 DEF AtLeastZero, PreviewCopies
<1> QED BY <1>1, BagInvariant, PTL

\* The merge gives the base what the scenario changed, copy by copy.
THEOREM MergeIsTheChange == Spec => MergeBringsTheChange
<1> DEFINE Brings == \A policy \in {"abort", "ours", "theirs"} : Merge(policy) /\ kind # "branch" =>
                \A v \in Value :
                    IF Conflict(v) /\ policy = "ours" THEN main'[v] = View(net)[v]
                    ELSE IF Conflict(v) /\ policy = "theirs" THEN main'[v] = main[v]
                    ELSE main'[v] - main[v] = View(net)[v] - Seen[v]
<1>1. BagInv => Brings
  <2> SUFFICES ASSUME BagInv, NEW policy \in {"abort", "ours", "theirs"}, Merge(policy),
                      kind # "branch", NEW v \in Value
               PROVE  IF Conflict(v) /\ policy = "ours" THEN main'[v] = View(net)[v]
                      ELSE IF Conflict(v) /\ policy = "theirs" THEN main'[v] = main[v]
                      ELSE main'[v] - main[v] = View(net)[v] - Seen[v]
    OBVIOUS
  <2>1. /\ net[v] \in Int /\ main[v] \in Nat /\ snap[v] \in Nat
        /\ net \in [Value -> Int]
        /\ kind \in {"overlay", "materialized"}
    BY BagAssumption DEF BagInv, TypeOK, Nets, Bag
  <2>2. Seen = (IF kind = "overlay" THEN main ELSE snap) /\ Seen[v] \in Nat
    BY <2>1 DEF Seen
  <2>3. View(net)[v] = AtLeastZero(Seen[v] + net[v])
    BY <2>1, ViewIs DEF BagInv
  <2>4. main'[v] = Result(policy)[v]
    BY DEF Merge
  <2>5. CASE Conflict(v) /\ policy = "ours"
    <3>1. main'[v] = AtLeastZero(snap[v] + net[v]) /\ Seen = snap
      BY <2>2, <2>4, <2>5 DEF Result, Target, Conflict
    <3> QED BY <2>3, <2>5, <3>1
  <2>6. CASE Conflict(v) /\ policy = "theirs"
    BY <2>4, <2>6 DEF Result, Kept
  <2>7. CASE ~Conflict(v)
    <3>1. main'[v] = AtLeastZero(main[v] + net[v])
      BY <2>4, <2>7 DEF Result
    <3>2. CASE kind = "overlay"
      BY <2>1, <2>2, <2>3, <2>7, <3>1, <3>2
    <3>3. CASE kind = "materialized"
      <4>1. snap[v] + net[v] >= 0 /\ Seen = snap
        BY <2>2, <3>3 DEF BagInv, NoOverdraft, FixedBase
      <4>2. net[v] >= 0 \/ main[v] = snap[v]
        BY <2>1, <2>7, <3>3 DEF Conflict
      <4>3. main'[v] - main[v] = net[v]
        BY <2>1, <3>1, <4>1, <4>2 DEF AtLeastZero
      <4>4. View(net)[v] - Seen[v] = net[v]
        BY <2>1, <2>3, <4>1 DEF AtLeastZero
      <4> QED BY <2>7, <4>3, <4>4
    <3> QED BY <2>1, <3>2, <3>3
  <2>8. ~Conflict(v) \/ policy # "abort"
    BY DEF Merge
  <2> QED BY <2>5, <2>6, <2>7, <2>8
<1>2. BagInv /\ [Next]_vars => [Brings]_vars
  <2> HIDE DEF Brings
  <2> QED BY <1>1
<1> QED BY <1>2, BagInvariant, PTL DEF Spec, MergeBringsTheChange

\* A materialized scenario's merge removes copies only of values nobody changed
\* since its creation, unless it is told "ours" (Conflict).
THEOREM MergeKeepsBaseChanges == Spec => NoBaseChangeLost
<1> DEFINE Keeps == \A policy \in {"abort", "theirs"} : Merge(policy) /\ kind = "materialized" =>
                \A v \in Value : main'[v] < main[v] => main[v] = snap[v]
<1>1. BagInv => Keeps
  <2> SUFFICES ASSUME BagInv, NEW policy \in {"abort", "theirs"}, Merge(policy),
                      kind = "materialized", NEW v \in Value, main'[v] < main[v]
               PROVE  main[v] = snap[v]
    OBVIOUS
  <2>1. net[v] \in Int /\ main[v] \in Nat
    BY BagAssumption DEF BagInv, TypeOK, Nets
  <2>2. main'[v] = Result(policy)[v]
    BY DEF Merge
  <2>3. CASE Conflict(v)
    <3>1. policy = "theirs"
      BY <2>3 DEF Merge
    <3>2. main'[v] = main[v]
      BY <2>2, <2>3, <3>1 DEF Result, Kept
    <3> QED BY <2>1, <3>2
  <2>4. CASE ~Conflict(v)
    <3>1. main'[v] = AtLeastZero(main[v] + net[v])
      BY <2>2, <2>4 DEF Result
    <3>2. net[v] < 0
      BY <2>1, <3>1 DEF AtLeastZero
    <3> QED BY <2>4, <3>2 DEF Conflict
  <2> QED BY <2>3, <2>4
<1>2. BagInv /\ [Next]_vars => [Keeps]_vars
  <2> HIDE DEF Keeps
  <2> QED BY <1>1
<1> QED BY <1>2, BagInvariant, PTL DEF Spec, NoBaseChangeLost

\* The sum of a table over the values where it is positive, and the sum of its
\* positive part.
LEMMA PositivePart ==
    ASSUME NEW f, NEW p, \A v \in Value : f[v] \in Int, \A v \in Value : p[v] = AtLeastZero(f[v])
    PROVE  Sum(f, {v \in Value : f[v] > 0}) = Sum(p, Value)
<1> DEFINE U == {v \in Value : f[v] > 0}
<1>1. \A v \in Value : p[v] \in Int
  BY DEF AtLeastZero
<1>2. U \in SUBSET Value /\ Value \in SUBSET Value
  OBVIOUS
<1>3. \A v \in U : f[v] = p[v]
  BY DEF AtLeastZero
<1>4. \A v \in Value \ U : p[v] = 0
  BY DEF AtLeastZero
<1> HIDE DEF U
<1>5. Sum(f, U) = Sum(p, U)
  BY <1>1, <1>2, <1>3, SumSame
<1>6. Sum(p, U) = Sum(p, Value)
  BY <1>1, <1>2, <1>4, SumPart
<1> QED BY <1>5, <1>6 DEF U

\* The same for the negative part.
LEMMA NegativePart ==
    ASSUME NEW f, NEW p, \A v \in Value : f[v] \in Int, \A v \in Value : p[v] = AtLeastZero(-f[v])
    PROVE  -Sum(f, {v \in Value : f[v] < 0}) = Sum(p, Value)
<1> DEFINE U == {v \in Value : f[v] < 0}
           g == [v \in Value |-> -f[v]]
           h == [v \in Value |-> 0]
<1>1. \A v \in Value : g[v] \in Int /\ p[v] = AtLeastZero(g[v])
  OBVIOUS
<1>2. Together(f, g, h)
  BY DEF Together
<1>3. U \in SUBSET Value /\ U = {v \in Value : g[v] > 0} /\ h = Zero
  BY DEF Zero
<1> HIDE DEF U, g, h
<1>4. Sum(h, U) = Sum(f, U) + Sum(g, U)
  BY <1>2, <1>3, SumTogether
<1>5. Sum(h, U) = 0
  BY <1>3, SumZero
<1>6. Sum(g, U) = Sum(p, Value)
  BY <1>1, <1>3, PositivePart
<1>7. Sum(f, U) \in Int
  BY <1>3, SumType
<1>8. Sum(g, U) \in Int
  BY <1>1, <1>3, SumType
<1> QED BY <1>4, <1>5, <1>6, <1>7, <1>8 DEF U

\* The diff lists exactly what differs, and the summary counts it.
THEOREM DiffIsExact == Spec => []DiffShowsTheChange
<1>1. BagInv => DiffShowsTheChange
  <2> SUFFICES ASSUME BagInv PROVE DiffShowsTheChange
    OBVIOUS
  <2>1. /\ net \in [Value -> Int] /\ \A v \in Value : net[v] \in Int
        /\ \A v \in Value : Seen[v] \in Nat
    BY BagAssumption, SeenType DEF BagInv, TypeOK, Nets
  <2>2. MergedRelation = View(net)
    <3>1. ASSUME NEW v \in Value
          PROVE  AtLeastZero(Seen[v] + net[v])
                   = AtLeastZero(net[v]) + AtLeastZero(Seen[v] - AtLeastZero(-net[v]))
      BY <2>1 DEF AtLeastZero
    <3> QED BY <3>1 DEF MergedRelation, View
  <2>3. FixedBase => Diff = DiffSides(Seen, View(net))
    <3> SUFFICES ASSUME FixedBase PROVE Diff = DiffSides(Seen, View(net))
      OBVIOUS
    <3>1. \A v \in Value : View(net)[v] = Seen[v] + net[v]
      BY <2>1, ViewIsSum DEF BagInv, NoOverdraft
    <3>2. ASSUME NEW v \in Value
          PROVE  /\ View(net)[v] - Seen[v] = net[v]
                 /\ Seen[v] - View(net)[v] = -net[v]
      BY <2>1, <3>1
    <3> QED BY <3>2 DEF Diff, DiffSides, ExceptAll
  <2>4. Summary = [added |-> MapThenSumSet(LAMBDA v : Diff.added[v], Value),
                   removed |-> MapThenSumSet(LAMBDA v : Diff.removed[v], Value)]
    <3> DEFINE plus == [v \in Value |-> AtLeastZero(net[v])]
               minus == [v \in Value |-> AtLeastZero(-net[v])]
    <3>1. Diff = [added |-> plus, removed |-> minus]
      BY DEF Diff
    <3>2. /\ \A v \in Value : plus[v] = AtLeastZero(net[v])
          /\ \A v \in Value : minus[v] = AtLeastZero(-net[v])
      OBVIOUS
    <3> HIDE DEF plus, minus
    <3>3. Sum(net, {v \in Value : net[v] > 0}) = Sum(plus, Value)
      BY <2>1, <3>2, PositivePart
    <3>4. -Sum(net, {v \in Value : net[v] < 0}) = Sum(minus, Value)
      BY <2>1, <3>2, NegativePart
    <3>5. MapThenSumSet(LAMBDA v : net[v], {v \in Value : net[v] > 0}) = Sum(net, {v \in Value : net[v] > 0})
      BY DEF MapThenSumSet, MapThenFoldSet, Sum, SumsOver, First
    <3>6. MapThenSumSet(LAMBDA v : net[v], {v \in Value : net[v] < 0}) = Sum(net, {v \in Value : net[v] < 0})
      BY DEF MapThenSumSet, MapThenFoldSet, Sum, SumsOver, First
    <3>7. MapThenSumSet(LAMBDA v : plus[v], Value) = Sum(plus, Value)
      BY DEF MapThenSumSet, MapThenFoldSet, Sum, SumsOver, First
    <3>8. MapThenSumSet(LAMBDA v : minus[v], Value) = Sum(minus, Value)
      BY DEF MapThenSumSet, MapThenFoldSet, Sum, SumsOver, First
    <3>9. Diff.added = plus /\ Diff.removed = minus
      BY <3>1
    <3> QED BY <3>3, <3>4, <3>5, <3>6, <3>7, <3>8, <3>9 DEF Summary
  <2> QED BY <2>2, <2>3, <2>4 DEF DiffShowsTheChange
<1> QED BY <1>1, BagInvariant, PTL

=============================================================================
