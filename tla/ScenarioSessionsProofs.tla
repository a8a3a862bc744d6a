------------------------ MODULE ScenarioSessionsProofs ------------------------
(***************************************************************************)
(* Proofs about ScenarioNames, for any letters and names of any length,    *)
(* and about MCScenarioSessions, for any values of the constants: each of  *)
(* the components it puts side by side runs as if it were alone.           *)
(*                                                                         *)
(* The theorems about ScenarioIdentity and ScenarioUpgrade are in their    *)
(* own modules and come with the instances.                                *)
(***************************************************************************)
EXTENDS MCScenarioSessions, TLAPS, NaturalsInduction, WellFoundedInduction, SequenceTheorems

-----------------------------------------------------------------------------
(* Names.  Induction over the naturals, for the sets that a proof names.   *)

Char == Letter \cup {Dot, Quote}

\* A set of naturals has a least member.
LEMMA LeastNumber ==
    ASSUME NEW T \in SUBSET Nat, T # {}
    PROVE  \E n \in T : \A m \in T : n <= m
<1> DEFINE R == {ss \in Nat \X Nat : ss[1] < ss[2]}
<1>1. IsWellFoundedOn(R, Nat)
  BY NatLessThanWellFounded DEF OpToRel
<1>2. \E n \in T : \A y \in T : ~(<<y, n>> \in R)
  <2> HIDE DEF R
  <2> QED BY <1>1, WFMin
<1>3. PICK n \in T : \A y \in T : ~(<<y, n>> \in R)
  BY <1>2
<1>4. ASSUME NEW m \in T PROVE n <= m
  <2>1. m < n => <<m, n>> \in R
    OBVIOUS
  <2> QED BY <2>1, <1>3
<1> QED BY <1>4

\* A set with 0, and with the successor of each member, holds every natural.
LEMMA NumberInduction ==
    ASSUME NEW G \in SUBSET Nat, 0 \in G, \A n \in G : n + 1 \in G
    PROVE  G = Nat
<1>1. SUFFICES ASSUME Nat \ G # {} PROVE FALSE
  OBVIOUS
<1>2. PICK n \in Nat \ G : \A m \in Nat \ G : n <= m
  <2>1. Nat \ G \in SUBSET Nat
    OBVIOUS
  <2> QED BY <1>1, <2>1, LeastNumber
<1>3. n # 0 /\ n - 1 \in Nat /\ n - 1 < n
  BY <1>2
<1>4. n - 1 \in G
  BY <1>2, <1>3
<1>5. (n - 1) + 1 \in G
  BY <1>4
<1> QED BY <1>2, <1>5

-----------------------------------------------------------------------------
(* Flattening, piece by piece.                                             *)

\* The first i pieces of s one after the other, for each i.
Flattened(s) ==
    CHOOSE f : f = [i \in 1..Len(s) |-> IF i = 1 THEN s[i] ELSE f[i - 1] \o s[i]]

\* FlattenSeq gives the last of Flattened, which the equation determines.
LEMMA FlattenedIs ==
    ASSUME NEW T, NEW s \in Seq(Seq(T)), s # <<>>
    PROVE  /\ FlattenSeq(s) = Flattened(s)[Len(s)]
           /\ Flattened(s) = [i \in 1..Len(s) |-> IF i = 1 THEN s[i] ELSE Flattened(s)[i - 1] \o s[i]]
<1> DEFINE Sat(f, m) == \A i \in 1..m : f[i] = IF i = 1 THEN s[i] ELSE f[i - 1] \o s[i]
           G == {m \in Nat : \E f \in [1..Len(s) -> Seq(T)] : m <= Len(s) => Sat(f, m)}
<1>0. Len(s) \in Nat \ {0} /\ \A i \in 1..Len(s) : s[i] \in Seq(T)
  OBVIOUS
<1>1. 0 \in G
  <2>1. [i \in 1..Len(s) |-> <<>>] \in [1..Len(s) -> Seq(T)]
    OBVIOUS
  <2> QED BY <2>1
<1>2. ASSUME NEW m \in G PROVE m + 1 \in G
  <2>0. m \in Nat
    OBVIOUS
  <2>1. PICK f \in [1..Len(s) -> Seq(T)] : m <= Len(s) => Sat(f, m)
    OBVIOUS
  <2>2. CASE m + 1 \in 1..Len(s)
    <3> DEFINE v == IF m + 1 = 1 THEN s[m + 1] ELSE f[m] \o s[m + 1]
               g == [f EXCEPT ![m + 1] = v]
    <3>1. v \in Seq(T)
      <4>1. s[m + 1] \in Seq(T)
        BY <1>0, <2>2
      <4>2. ASSUME m # 0 PROVE f[m] \in Seq(T)
        <5>1. m \in 1..Len(s)
          BY <1>0, <2>0, <2>2, <4>2
        <5> HIDE DEF Sat, G
        <5> QED BY <5>1
      <4>3. m # 0 => f[m] \o s[m + 1] \in Seq(T)
        BY <4>1, <4>2
      <4> QED BY <4>1, <4>3
    <3>2. g \in [1..Len(s) -> Seq(T)] /\ g[m + 1] = v /\ \A i \in 1..m : g[i] = f[i]
      <4> HIDE DEF v
      <4> QED BY <1>0, <2>2, <3>1
    <3>3. ASSUME NEW i \in 1..(m + 1)
          PROVE  g[i] = IF i = 1 THEN s[i] ELSE g[i - 1] \o s[i]
      <4> HIDE DEF g
      <4>1. CASE i = m + 1
        <5>1. m # 0 => m \in 1..m /\ g[m] = f[m]
          BY <3>2
        <5> QED BY <3>2, <4>1, <5>1
      <4>2. CASE i \in 1..m
        <5>1. f[i] = IF i = 1 THEN s[i] ELSE f[i - 1] \o s[i]
          BY <2>1, <2>2, <4>2, <1>0
        <5>2. i # 1 => i - 1 \in 1..m
          BY <4>2
        <5> QED BY <3>2, <4>2, <5>1, <5>2
      <4> QED BY <4>1, <4>2
    <3>4. Sat(g, m + 1)
      BY <3>3
    <3> HIDE DEF g, Sat
    <3> QED BY <3>2, <3>4
  <2>3. CASE m + 1 \notin 1..Len(s)
    <3>1. ~(m + 1 <= Len(s))
      BY <1>0, <2>3
    <3> HIDE DEF Sat
    <3> QED BY <2>1, <3>1
  <2> QED BY <2>2, <2>3
<1>3. G = Nat
  <2>1. G \in SUBSET Nat
    OBVIOUS
  <2> HIDE DEF G
  <2> QED BY <1>1, <1>2, <2>1, NumberInduction
<1>4. PICK f \in [1..Len(s) -> Seq(T)] : Sat(f, Len(s))
  <2>1. Len(s) \in G
    BY <1>0, <1>3
  <2> HIDE DEF Sat
  <2> QED BY <1>0, <2>1
<1>5. f = [i \in 1..Len(s) |-> IF i = 1 THEN s[i] ELSE f[i - 1] \o s[i]]
  BY <1>4
<1>6. Flattened(s) = [i \in 1..Len(s) |-> IF i = 1 THEN s[i] ELSE Flattened(s)[i - 1] \o s[i]]
  BY <1>5, Zenon DEF Flattened
<1>7. FlattenSeq(s) = Flattened(s)[Len(s)]
  BY <1>0 DEF FlattenSeq, Flattened
<1> QED BY <1>6, <1>7

-----------------------------------------------------------------------------
(* A part as its quoted form writes it.                                    *)

\* One character.
Width(c) == IF c = Quote THEN 2 ELSE 1

Doubled(part) == [i \in DOMAIN part |-> IF part[i] = Quote THEN <<Quote, Quote>> ELSE <<part[i]>>]

\* The text e holds the first m characters of a part, the i-th of them from
\* position at[i].
Written(e, part, at, m) ==
    /\ e \in Seq(Char)
    /\ Len(e) = at[m + 1] - 1
    /\ \A i \in 1..m :
          /\ at[i] + Width(part[i]) = at[i + 1]
          /\ at[i] \in Nat \ {0} /\ at[i + 1] \in Nat /\ at[i + 1] <= at[m + 1]
          /\ e[at[i]] = part[i]
          /\ part[i] = Quote => e[at[i] + 1] = Quote

\* Each character becomes one character, a quote two.
LEMMA DoubledIs ==
    ASSUME NEW n \in Nat \ {0}, NEW part \in [1..n -> Char]
    PROVE  /\ Doubled(part) \in Seq(Seq(Char))
           /\ Len(Doubled(part)) = n
           /\ \A i \in 1..n :
                 /\ Doubled(part)[i] \in Seq(Char)
                 /\ Len(Doubled(part)[i]) = Width(part[i])
                 /\ Doubled(part)[i][1] = part[i]
                 /\ part[i] = Quote => Doubled(part)[i][2] = Quote
<1>1. ASSUME NEW i \in 1..n
      PROVE  /\ Doubled(part)[i] \in Seq(Char)
             /\ Len(Doubled(part)[i]) = Width(part[i])
             /\ Doubled(part)[i][1] = part[i]
             /\ part[i] = Quote => Doubled(part)[i][2] = Quote
  <2>1. part[i] \in Char /\ Quote \in Char
    BY DEF Char
  <2>2. DOMAIN part = 1..n
    OBVIOUS
  <2>3. CASE part[i] = Quote
    <3>1. Doubled(part)[i] = <<Quote, Quote>>
      BY <2>2, <2>3 DEF Doubled
    <3> QED BY <2>1, <2>3, <3>1 DEF Width
  <2>4. CASE part[i] # Quote
    <3>1. Doubled(part)[i] = <<part[i]>>
      BY <2>2, <2>4 DEF Doubled
    <3> QED BY <2>1, <2>4, <3>1 DEF Width
  <2> QED BY <2>3, <2>4
<1>2. DOMAIN Doubled(part) = 1..n
  BY DEF Doubled
<1>3. Doubled(part) = [i \in 1..n |-> Doubled(part)[i]]
  BY DEF Doubled
<1>4. Doubled(part) \in [1..n -> Seq(Char)]
  BY <1>1, <1>3
<1>5. Doubled(part) \in Seq(Seq(Char))
  BY <1>4
<1> QED BY <1>1, <1>2, <1>5

\* The text of the first character.
LEMMA WrittenOne ==
    ASSUME NEW n \in Nat \ {0}, NEW part \in [1..n -> Char], NEW at, at[1] = 1, at[2] = 1 + Width(part[1])
    PROVE  Written(Doubled(part)[1], part, at, 1)
<1>1. /\ Doubled(part)[1] \in Seq(Char)
      /\ Len(Doubled(part)[1]) = Width(part[1])
      /\ Doubled(part)[1][1] = part[1]
      /\ part[1] = Quote => Doubled(part)[1][2] = Quote
  BY DoubledIs
<1>2. Width(part[1]) \in {1, 2}
  BY DEF Width
<1>3. ASSUME NEW i \in 1..1
      PROVE  /\ at[i] + Width(part[i]) = at[i + 1]
             /\ at[i] \in Nat \ {0} /\ at[i + 1] \in Nat /\ at[i + 1] <= at[1 + 1]
             /\ Doubled(part)[1][at[i]] = part[i]
             /\ part[i] = Quote => Doubled(part)[1][at[i] + 1] = Quote
  <2>1. i = 1 /\ i + 1 = 2 /\ 1 + 1 = 2
    OBVIOUS
  <2> QED BY <1>1, <1>2, <2>1
<1>4. Len(Doubled(part)[1]) = at[1 + 1] - 1
  BY <1>1, <1>2
<1> QED BY <1>1, <1>3, <1>4, Zenon DEF Written

\* Two sequences, one after the other.
LEMMA Joined ==
    ASSUME NEW e \in Seq(Char), NEW d \in Seq(Char)
    PROVE  /\ e \o d \in Seq(Char) /\ Len(e \o d) = Len(e) + Len(d)
           /\ \A j \in 1..Len(e) : (e \o d)[j] = e[j]
           /\ \A j \in 1..Len(d) : (e \o d)[Len(e) + j] = d[j]
<1> DEFINE w == e \o d
<1>1. PICK a \in Nat, b \in Nat : a = Len(e) /\ b = Len(d)
  BY LenProperties
<1>2. /\ w \in Seq(Char) /\ Len(w) = Len(e) + Len(d)
      /\ \A j \in 1..(Len(e) + Len(d)) : w[j] = IF j <= Len(e) THEN e[j] ELSE d[j - Len(e)]
  BY ConcatProperties
<1> HIDE DEF w
<1>3. \A j \in 1..(a + b) : w[j] = IF j <= a THEN e[j] ELSE d[j - a]
  BY <1>1, <1>2
<1>4. ASSUME NEW j \in 1..a PROVE w[j] = e[j]
  <2>1. j \in 1..(a + b) /\ j <= a
    OBVIOUS
  <2> QED BY <1>3, <2>1
<1>5. ASSUME NEW j \in 1..b PROVE w[a + j] = d[j]
  <2>1. a + j \in 1..(a + b) /\ ~(a + j <= a) /\ (a + j) - a = j
    OBVIOUS
  <2> QED BY <1>3, <2>1
<1>6. w \in Seq(Char) /\ Len(w) = Len(e) + Len(d)
  BY <1>2
<1> QED BY <1>1, <1>4, <1>5, <1>6 DEF w

\* The text of one character more.
LEMMA WrittenMore ==
    ASSUME NEW n \in Nat \ {0}, NEW part \in [1..n -> Char], NEW at,
           NEW m \in Nat \ {0}, m + 1 \in 1..n, NEW e, Written(e, part, at, m),
           at[m + 2] = at[m + 1] + Width(part[m + 1])
    PROVE  Written(e \o Doubled(part)[m + 1], part, at, m + 1)
<1> DEFINE d == Doubled(part)[m + 1]
<1>1. /\ d \in Seq(Char)
      /\ Len(d) = Width(part[m + 1])
      /\ d[1] = part[m + 1]
      /\ part[m + 1] = Quote => d[2] = Quote
  BY DoubledIs
<1>2. Width(part[m + 1]) \in {1, 2} /\ (part[m + 1] = Quote => Width(part[m + 1]) = 2)
  BY DEF Width
<1> HIDE DEF d
<1>3. /\ e \in Seq(Char) /\ Len(e) = at[m + 1] - 1 /\ at[m + 1] \in Nat \ {0} /\ Len(e) \in Nat
  <2>1. e \in Seq(Char) /\ Len(e) = at[m + 1] - 1
    BY DEF Written
  <2>2. at[m] \in Nat \ {0} /\ at[m + 1] \in Nat /\ at[m] + Width(part[m]) = at[m + 1]
    BY DEF Written
  <2>3. Width(part[m]) \in {1, 2}
    BY DEF Width
  <2> QED BY <2>1, <2>2, <2>3
<1> DEFINE w == e \o d
<1>4. /\ w \in Seq(Char) /\ Len(w) = Len(e) + Len(d)
      /\ \A j \in 1..Len(e) : w[j] = e[j]
      /\ \A j \in 1..Len(d) : w[Len(e) + j] = d[j]
  BY <1>1, <1>3, Joined
<1> HIDE DEF w
<1>5. Len(w) = at[m + 2] - 1
  BY <1>1, <1>2, <1>3, <1>4
<1>6. ASSUME NEW i \in 1..(m + 1)
      PROVE  /\ at[i] + Width(part[i]) = at[i + 1]
             /\ at[i] \in Nat \ {0} /\ at[i + 1] \in Nat /\ at[i + 1] <= at[m + 2]
             /\ w[at[i]] = part[i]
             /\ part[i] = Quote => w[at[i] + 1] = Quote
  <2>1. CASE i = m + 1
    <3>1. w[Len(e) + 1] = d[1] /\ (part[m + 1] = Quote => w[Len(e) + 2] = d[2])
      BY <1>1, <1>2, <1>4
    <3>2. PICK a \in Nat \ {0}, b \in Nat : a = at[m + 1] /\ b = at[m + 2] /\ b = a + Width(part[m + 1])
      BY <1>2, <1>3
    <3>3. Len(e) + 1 = a /\ Len(e) + 2 = a + 1
      BY <1>3, <3>2
    <3>4. w[a] = part[m + 1] /\ (part[m + 1] = Quote => w[a + 1] = Quote)
      BY <1>1, <3>1, <3>3
    <3>5. i + 1 = m + 2
      BY <2>1
    <3> QED BY <2>1, <3>2, <3>4, <3>5
  <2>2. CASE i \in 1..m
    <3>1. /\ at[i] + Width(part[i]) = at[i + 1]
          /\ at[i] \in Nat \ {0} /\ at[i + 1] \in Nat /\ at[i + 1] <= at[m + 1]
          /\ e[at[i]] = part[i]
          /\ part[i] = Quote => e[at[i] + 1] = Quote
      BY <2>2 DEF Written
    <3>2. Width(part[i]) \in {1, 2} /\ (part[i] = Quote => Width(part[i]) = 2)
      BY DEF Width
    <3>3. at[i] \in 1..Len(e) /\ (part[i] = Quote => at[i] + 1 \in 1..Len(e))
      <4>1. PICK a \in Nat \ {0}, b \in Nat, c \in Nat, l \in Nat, x \in {1, 2} :
                a = at[i] /\ b = at[i + 1] /\ c = at[m + 1] /\ l = Len(e) /\ x = Width(part[i])
        BY <1>3, <3>1, <3>2
      <4>2. a + x = b /\ b <= c /\ l = c - 1 /\ (part[i] = Quote => x = 2)
        BY <1>3, <3>1, <3>2, <4>1
      <4>3. a \in 1..l /\ (part[i] = Quote => a + 1 \in 1..l)
        BY <4>2
      <4> QED BY <4>1, <4>3
    <3>4. at[i + 1] <= at[m + 2]
      BY <1>2, <1>3, <3>1
    <3> QED BY <1>4, <3>1, <3>3, <3>4
  <2> QED BY <2>1, <2>2
<1>7. (m + 1) + 1 = m + 2
  OBVIOUS
<1>8. Written(w, part, at, m + 1)
  BY <1>4, <1>5, <1>6, <1>7, Zenon DEF Written
<1> QED BY <1>8 DEF w, d

\* Where the characters of a part begin in its doubled text.
StartIn(part) ==
    [i \in 1..(Len(part) + 1) |-> IF i = 1 THEN 1 ELSE Len(Flattened(Doubled(part))[i - 1]) + 1]

\* All characters, one after the other, each where StartIn says.
LEMMA DoubledText ==
    ASSUME NEW n \in Nat \ {0}, NEW part \in [1..n -> Char]
    PROVE  Written(FlattenSeq(Doubled(part)), part, StartIn(part), n) /\ StartIn(part)[1] = 1
<1> DEFINE f == Flattened(Doubled(part))
           at == StartIn(part)
           s == Doubled(part)
           G == {m \in Nat : m + 1 <= n => Written(f[m + 1], part, at, m + 1)}
<1>1. /\ s \in Seq(Seq(Char)) /\ Len(s) = n
      /\ \A i \in 1..n : s[i] \in Seq(Char) /\ Len(s[i]) = Width(part[i])
  BY DoubledIs
<1>2. FlattenSeq(s) = f[n] /\ f = [i \in 1..n |-> IF i = 1 THEN s[i] ELSE f[i - 1] \o s[i]]
  <2>1. s # <<>>
    BY <1>1
  <2> HIDE DEF s
  <2> QED BY <1>1, <2>1, FlattenedIs DEF s
<1>3. f[1] = s[1]
  <2>1. 1 \in 1..n
    OBVIOUS
  <2> HIDE DEF f, s
  <2> QED BY <1>2, <2>1
<1>4. ASSUME NEW m \in Nat, m + 2 <= n
      PROVE f[m + 2] = f[m + 1] \o s[m + 2]
  <2>1. m + 2 \in 1..n /\ m + 2 # 1 /\ (m + 2) - 1 = m + 1
    BY <1>4
  <2> HIDE DEF f, s
  <2> QED BY <1>2, <2>1
<1>5. at = [i \in 1..(n + 1) |-> IF i = 1 THEN 1 ELSE Len(f[i - 1]) + 1]
  <2>1. Len(part) = n
    OBVIOUS
  <2> QED BY <2>1 DEF StartIn
<1> HIDE DEF f, s, at
<1>6. at[1] = 1
  BY <1>5
<1>7. at[2] = 1 + Width(part[1])
  <2>1. 2 \in 1..(n + 1) /\ 2 - 1 = 1 /\ 1 \in 1..n
    OBVIOUS
  <2>2. at[2] = Len(f[1]) + 1
    BY <1>5, <2>1
  <2>3. Len(s[1]) = Width(part[1]) /\ Width(part[1]) \in Nat
    BY <1>1, <2>1 DEF Width
  <2> QED BY <1>3, <2>2, <2>3
<1>8. 0 \in G
  <2>1. Written(s[1], part, at, 1)
    BY <1>6, <1>7, WrittenOne DEF s
  <2>2. Written(f[0 + 1], part, at, 0 + 1)
    BY <1>3, <2>1
  <2> QED BY <2>2
<1>9. ASSUME NEW m \in G PROVE m + 1 \in G
  <2>1. m \in Nat /\ (m + 1 <= n => Written(f[m + 1], part, at, m + 1))
    OBVIOUS
  <2> HIDE DEF G
  <2>2. CASE m + 2 <= n
    <3>1. Written(f[m + 1], part, at, m + 1)
      BY <2>1, <2>2
    <3>2. m + 1 \in Nat \ {0} /\ (m + 1) + 1 = m + 2 /\ (m + 1) + 2 = m + 3 /\ m + 2 \in 1..n
      BY <2>1, <2>2
    <3>3. f[m + 1] \in Seq(Char) /\ Len(f[m + 1]) = at[m + 2] - 1
      BY <3>1, <3>2 DEF Written
    <3>4. s[m + 2] \in Seq(Char) /\ Len(s[m + 2]) = Width(part[m + 2])
      BY <1>1, <3>2
    <3>5. f[m + 2] = f[m + 1] \o s[m + 2]
      BY <1>4, <2>1, <2>2
    <3>6. Len(f[m + 2]) = Len(f[m + 1]) + Len(s[m + 2])
      BY <3>3, <3>4, <3>5, ConcatProperties
    <3>7. at[m + 3] = Len(f[m + 2]) + 1 /\ at[m + 2] = Len(f[m + 1]) + 1
      <4>1. m + 3 \in 1..(n + 1) /\ m + 3 # 1 /\ (m + 3) - 1 = m + 2
        BY <2>1, <2>2
      <4>2. m + 2 \in 1..(n + 1) /\ m + 2 # 1 /\ (m + 2) - 1 = m + 1
        BY <2>1, <2>2
      <4> QED BY <1>5, <4>1, <4>2
    <3>8. Len(f[m + 1]) \in Nat /\ Width(part[m + 2]) \in Nat
      BY <3>3, LenProperties DEF Width
    <3>9. at[m + 3] = at[m + 2] + Width(part[m + 2])
      BY <3>4, <3>6, <3>7, <3>8
    <3>10. at[(m + 1) + 2] = at[(m + 1) + 1] + Width(part[(m + 1) + 1])
      BY <3>2, <3>9
    <3>11. Written(f[m + 1] \o s[(m + 1) + 1], part, at, (m + 1) + 1)
      BY <3>1, <3>2, <3>10, WrittenMore DEF s
    <3>12. Written(f[(m + 1) + 1], part, at, (m + 1) + 1)
      BY <3>2, <3>5, <3>11
    <3> QED BY <2>1, <3>12 DEF G
  <2>3. CASE ~(m + 2 <= n)
    <3>1. ~((m + 1) + 1 <= n)
      BY <2>1, <2>3
    <3> QED BY <2>1, <3>1 DEF G
  <2> QED BY <2>2, <2>3
<1>10. G = Nat
  <2>1. G \in SUBSET Nat
    OBVIOUS
  <2> HIDE DEF G
  <2> QED BY <1>8, <1>9, <2>1, NumberInduction
<1>11. Written(f[n], part, at, n)
  <2>1. n - 1 \in Nat /\ (n - 1) + 1 = n
    OBVIOUS
  <2>2. n - 1 \in G
    <3> HIDE DEF G
    <3> QED BY <1>10, <2>1
  <2>3. n <= n => Written(f[n], part, at, n)
    BY <2>1, <2>2
  <2> QED BY <2>3
<1> QED BY <1>2, <1>6, <1>11 DEF at, s

-----------------------------------------------------------------------------
(* Reading a quoted part.                                                  *)

\* What QuotedPart reads from each position.
ReadOnce(read, name, stopAtDot, i) ==
    LET After(n) == IF WellFormed(read[i + n]) THEN [read[i + n] EXCEPT !.part = <<name[i]>> \o @]
                    ELSE Malformed
        At(j, c) == j <= Len(name) /\ name[j] = c
    IN  IF i > Len(name) THEN Malformed
        ELSE IF name[i] # Quote THEN After(1)
        ELSE IF At(i + 1, Quote) THEN After(2)
        ELSE IF i = Len(name) \/ (stopAtDot /\ At(i + 1, Dot)) THEN [part |-> <<>>, pos |-> i + 1]
        ELSE Malformed

Reading(name, stopAtDot) == CHOOSE read : read = [i \in Nat |-> ReadOnce(read, name, stopAtDot, i)]

\* Reading starts behind an opening quote.
LEMMA QuotedPartReads ==
    ASSUME NEW name, NEW start, NEW stopAtDot
    PROVE  QuotedPart(name, start, stopAtDot) =
             IF start <= Len(name) /\ name[start] = Quote THEN Reading(name, stopAtDot)[start + 1]
             ELSE Malformed
BY DEF QuotedPart, Reading, ReadOnce

\* A position is read from the positions after it only.
LEMMA ReadOnceLocal ==
    ASSUME NEW name, NEW stopAtDot, NEW f, NEW g, NEW i \in Nat, f[i + 1] = g[i + 1], f[i + 2] = g[i + 2]
    PROVE  ReadOnce(f, name, stopAtDot, i) = ReadOnce(g, name, stopAtDot, i)
BY DEF ReadOnce

\* QuotedPart's recursive function exists: Reading satisfies its equation.
LEMMA ReadingIs ==
    ASSUME NEW name \in Seq(Char), NEW stopAtDot
    PROVE  Reading(name, stopAtDot) = [i \in Nat |-> ReadOnce(Reading(name, stopAtDot), name, stopAtDot, i)]
<1> DEFINE Sat(f, m) == \A i \in Nat : i + m > Len(name) => f[i] = ReadOnce(f, name, stopAtDot, i)
           G == {m \in Nat : \E f : Sat(f, m)}
<1>1. Len(name) \in Nat
  BY LenProperties
<1>2. 0 \in G
  <2> DEFINE f == [i \in Nat |-> Malformed]
  <2>1. ASSUME NEW i \in Nat, i + 0 > Len(name) PROVE f[i] = ReadOnce(f, name, stopAtDot, i)
    <3>1. i > Len(name)
      BY <1>1, <2>1
    <3> QED BY <3>1 DEF ReadOnce
  <2>2. Sat(f, 0)
    BY <2>1
  <2> HIDE DEF f, Sat
  <2> QED BY <2>2
<1>3. ASSUME NEW m \in G PROVE m + 1 \in G
  <2>1. m \in Nat
    OBVIOUS
  <2>2. PICK f : Sat(f, m)
    OBVIOUS
  <2> DEFINE k == Len(name) - m
             g == [i \in Nat |-> IF i = k THEN ReadOnce(f, name, stopAtDot, i) ELSE f[i]]
  <2>3. ASSUME NEW i \in Nat, i + (m + 1) > Len(name) PROVE g[i] = ReadOnce(g, name, stopAtDot, i)
    <3>1. i + 1 \in Nat /\ i + 2 \in Nat /\ i + 1 # k /\ i + 2 # k
      BY <1>1, <2>1, <2>3
    <3>2. g[i + 1] = f[i + 1] /\ g[i + 2] = f[i + 2]
      <4> HIDE DEF k
      <4> QED BY <3>1
    <3>3. ReadOnce(g, name, stopAtDot, i) = ReadOnce(f, name, stopAtDot, i)
      <4> HIDE DEF g
      <4> QED BY <3>2, ReadOnceLocal
    <3>4. i # k => i + m > Len(name)
      BY <1>1, <2>1, <2>3
    <3>5. i # k => f[i] = ReadOnce(f, name, stopAtDot, i)
      BY <2>2, <3>4
    <3>6. g[i] = IF i = k THEN ReadOnce(f, name, stopAtDot, i) ELSE f[i]
      <4> HIDE DEF k
      <4> QED OBVIOUS
    <3> HIDE DEF g, k
    <3> QED BY <3>3, <3>5, <3>6
  <2>4. Sat(g, m + 1)
    <3> HIDE DEF g
    <3> QED BY <2>3
  <2> HIDE DEF g, Sat
  <2> QED BY <2>1, <2>4
<1>4. G = Nat
  <2>1. G \in SUBSET Nat
    OBVIOUS
  <2> HIDE DEF G
  <2> QED BY <1>2, <1>3, <2>1, NumberInduction
<1>5. PICK f : Sat(f, Len(name) + 1)
  <2>1. Len(name) + 1 \in G
    <3> HIDE DEF G
    <3> QED BY <1>1, <1>4
  <2> HIDE DEF Sat
  <2> QED BY <2>1
<1>6. \A i \in Nat : f[i] = ReadOnce(f, name, stopAtDot, i)
  BY <1>1, <1>5
<1> DEFINE h == [i \in Nat |-> f[i]]
<1>7. ASSUME NEW i \in Nat PROVE h[i] = ReadOnce(h, name, stopAtDot, i)
  <2>1. h[i + 1] = f[i + 1] /\ h[i + 2] = f[i + 2] /\ h[i] = f[i]
    OBVIOUS
  <2> HIDE DEF h
  <2>2. ReadOnce(h, name, stopAtDot, i) = ReadOnce(f, name, stopAtDot, i)
    BY <2>1, ReadOnceLocal
  <2> QED BY <1>6, <2>1, <2>2
<1>8. h = [i \in Nat |-> h[i]]
  OBVIOUS
<1>9. h = [i \in Nat |-> ReadOnce(h, name, stopAtDot, i)]
  <2> HIDE DEF h
  <2> QED BY <1>7, <1>8
<1> HIDE DEF h
<1> QED BY <1>9, Zenon DEF Reading

\* name holds the text e from position start + 1.
Holds(name, start, e) ==
    /\ start + Len(e) <= Len(name)
    /\ \A j \in 1..Len(e) : name[start + j] = e[j]

\* The characters of a part from the k-th.
Rest(part, n, k) == [j \in 1..(n + 1 - k) |-> part[k + j - 1]]

\* The characters from the k-th on.
LEMMA RestIs ==
    ASSUME NEW n \in Nat \ {0}, NEW part \in [1..n -> Char], NEW k \in 1..(n + 1), NEW q \in Nat, q = n + 1 - k
    PROVE  /\ Rest(part, n, k) \in Seq(Char) /\ Len(Rest(part, n, k)) = q
           /\ \A j \in 1..q : Rest(part, n, k)[j] = part[k + j - 1]
<1>1. Rest(part, n, k) = [j \in 1..q |-> part[k + j - 1]]
  BY DEF Rest
<1>2. ASSUME NEW j \in 1..q PROVE part[k + j - 1] \in Char
  <2>1. k + j - 1 \in 1..n
    OBVIOUS
  <2> QED BY <2>1
<1> HIDE DEF Rest
<1>3. Rest(part, n, k) \in [1..q -> Char]
  BY <1>1, <1>2
<1> QED BY <1>1, <1>3

\* One character, and the rest after it.
LEMMA RestStep ==
    ASSUME NEW n \in Nat \ {0}, NEW part \in [1..n -> Char], NEW k \in 1..n
    PROVE  <<part[k]>> \o Rest(part, n, k + 1) = Rest(part, n, k)
<1> DEFINE x == <<part[k]>>
           y == Rest(part, n, k + 1)
           z == Rest(part, n, k)
           v == x \o y
<1>1. PICK q \in Nat : q = n - k
  OBVIOUS
<1>2. /\ y \in Seq(Char) /\ Len(y) = q
      /\ \A j \in 1..q : y[j] = part[(k + 1) + j - 1]
  <2>1. q = n + 1 - (k + 1) /\ k + 1 \in 1..(n + 1)
    BY <1>1
  <2> QED BY <2>1, RestIs
<1>3. /\ z \in Seq(Char) /\ Len(z) = q + 1
      /\ \A j \in 1..(q + 1) : z[j] = part[k + j - 1]
  <2>1. q + 1 = n + 1 - k /\ k \in 1..(n + 1) /\ q + 1 \in Nat
    BY <1>1
  <2> QED BY <2>1, RestIs
<1>4. x \in Seq(Char) /\ Len(x) = 1 /\ x[1] = part[k]
  OBVIOUS
<1> HIDE DEF x, y, z
<1>5. /\ v \in Seq(Char) /\ Len(v) = 1 + q
      /\ \A j \in 1..(1 + q) : v[j] = IF j <= 1 THEN x[j] ELSE y[j - 1]
  <2>1. /\ v \in Seq(Char) /\ Len(v) = Len(x) + Len(y)
        /\ \A j \in 1..(Len(x) + Len(y)) : v[j] = IF j <= Len(x) THEN x[j] ELSE y[j - Len(x)]
    BY <1>2, <1>4, ConcatProperties
  <2> HIDE DEF v
  <2> QED BY <1>2, <1>4, <2>1
<1> HIDE DEF v
<1>6. ASSUME NEW j \in 1..(q + 1) PROVE v[j] = z[j]
  <2>1. CASE j = 1
    <3>1. z[j] = part[k + j - 1] /\ k + j - 1 = k
      BY <1>3, <2>1
    <3>2. v[j] = x[1]
      BY <1>5, <2>1
    <3> QED BY <1>4, <3>1, <3>2
  <2>2. CASE j # 1
    <3>1. j - 1 \in 1..q /\ (k + 1) + (j - 1) - 1 = k + j - 1 /\ ~(j <= 1)
      BY <2>2
    <3>2. y[j - 1] = part[k + j - 1]
      BY <1>2, <3>1
    <3>3. v[j] = y[j - 1]
      BY <1>5, <3>1
    <3> QED BY <1>3, <3>2, <3>3
  <2> QED BY <2>1, <2>2
<1>7. v = z
  <2>1. Len(v) = Len(z) /\ \A j \in 1..Len(v) : v[j] = z[j]
    <3>1. 1 + q = q + 1
      OBVIOUS
    <3> QED BY <1>3, <1>5, <1>6, <3>1
  <2> QED BY <1>3, <1>5, <2>1, SeqEqual
<1> QED BY <1>7 DEF x, y, z, v

\* A quoted part is read to its closing quote: from the k-th character of its
\* text on, QuotedPart reads what is left of the part.
LEMMA QuotedIsRead ==
    ASSUME NEW name \in Seq(Char), NEW stopAtDot \in BOOLEAN, NEW start \in Nat,
           NEW n \in Nat \ {0}, NEW part \in [1..n -> Char], NEW e, NEW at,
           Written(e, part, at, n), Holds(name, start, e),
           at[1] = 1,
           start + Len(e) + 1 <= Len(name),
           name[start + Len(e) + 1] = Quote,
           \/ Len(name) = start + Len(e) + 1
           \/ /\ stopAtDot
              /\ start + Len(e) + 2 <= Len(name)
              /\ name[start + Len(e) + 2] = Dot
    PROVE  Reading(name, stopAtDot)[start + 1] = [part |-> part, pos |-> start + Len(e) + 2]
<1> DEFINE read == Reading(name, stopAtDot)
           end == start + Len(e) + 2
           Want(k) == read[start + at[k]] = [part |-> Rest(part, n, k), pos |-> end]
           G == {m \in Nat : m <= n => Want(n + 1 - m)}
<1>1. Len(name) \in Nat /\ Len(e) \in Nat /\ e \in Seq(Char)
  BY LenProperties DEF Written
<1>2. \A i \in Nat : read[i] = ReadOnce(read, name, stopAtDot, i)
  <2>1. read = [i \in Nat |-> ReadOnce(read, name, stopAtDot, i)]
    BY ReadingIs
  <2> HIDE DEF read
  <2> QED BY <2>1
<1> HIDE DEF read
<1>3. at[n + 1] = Len(e) + 1
  <2>1. at[n + 1] \in Nat
    BY DEF Written
  <2> QED BY <1>1, <2>1 DEF Written
<1>4. 0 \in G
  <2> DEFINE i == start + at[n + 1]
  <2>1. i = start + Len(e) + 1 /\ i \in Nat /\ i + 1 = end /\ i <= Len(name) /\ name[i] = Quote
    BY <1>1, <1>3
  <2>2. ~(i + 1 <= Len(name) /\ name[i + 1] = Quote)
    <3>1. Dot # Quote
      BY DEF Dot, Quote
    <3>2. CASE Len(name) = start + Len(e) + 1
      <4>1. ~(i + 1 <= Len(name))
        BY <1>1, <2>1, <3>2
      <4> QED BY <4>1
    <3>3. CASE name[start + Len(e) + 2] = Dot
      <4>1. name[i + 1] = Dot
        BY <2>1, <3>3
      <4> QED BY <3>1, <4>1
    <3> QED BY <3>2, <3>3
  <2>3. i = Len(name) \/ (stopAtDot /\ i + 1 <= Len(name) /\ name[i + 1] = Dot)
    BY <1>1, <2>1
  <2> HIDE DEF i, end
  <2>4. ReadOnce(read, name, stopAtDot, i) = [part |-> <<>>, pos |-> i + 1]
    BY <1>1, <2>1, <2>2, <2>3 DEF ReadOnce
  <2>5. Rest(part, n, n + 1) = <<>>
    <3>1. 1..(n + 1 - (n + 1)) = {}
      OBVIOUS
    <3> QED BY <3>1 DEF Rest
  <2>6. Want(n + 1)
    BY <1>2, <2>1, <2>4, <2>5 DEF i
  <2>7. n + 1 - 0 = n + 1
    OBVIOUS
  <2> HIDE DEF Want
  <2> QED BY <2>6, <2>7
<1>5. ASSUME NEW m \in G PROVE m + 1 \in G
  <2>1. m \in Nat /\ (m <= n => Want(n + 1 - m))
    OBVIOUS
  <2>2. SUFFICES ASSUME m + 1 <= n PROVE Want(n + 1 - (m + 1))
    <3> HIDE DEF Want
    <3> QED BY <2>1
  <2> DEFINE k == n - m
             i == start + at[k]
             w == Width(part[k])
  <2>3. k \in 1..n /\ n + 1 - m = k + 1 /\ n + 1 - (m + 1) = k /\ part[k] \in Char
    BY <2>1, <2>2
  <2>4. read[start + at[k + 1]] = [part |-> Rest(part, n, k + 1), pos |-> end]
    BY <2>1, <2>2, <2>3
  <2> HIDE DEF k
  <2>5. /\ at[k] + w = at[k + 1]
        /\ at[k] \in Nat \ {0} /\ at[k + 1] \in Nat /\ at[k + 1] <= at[n + 1]
        /\ e[at[k]] = part[k]
        /\ part[k] = Quote => e[at[k] + 1] = Quote
    BY <2>3 DEF Written
  <2>6. w \in {1, 2} /\ (w = 2 <=> part[k] = Quote)
    BY DEF Width
  <2>7. at[k] \in 1..Len(e) /\ (part[k] = Quote => at[k] + 1 \in 1..Len(e))
    <3>1. PICK a \in Nat \ {0}, b \in Nat, l \in Nat : a = at[k] /\ b = at[k + 1] /\ l = Len(e)
      BY <1>1, <2>5
    <3>2. a + w = b /\ b <= l + 1 /\ (part[k] = Quote => w = 2)
      BY <1>3, <2>5, <2>6, <3>1
    <3> HIDE DEF w
    <3>3. a \in 1..l /\ (part[k] = Quote => a + 1 \in 1..l)
      BY <2>6, <3>2
    <3> QED BY <3>1, <3>3
  <2>8. /\ i \in Nat /\ i <= Len(name) /\ name[i] = part[k]
        /\ part[k] = Quote => i + 1 <= Len(name) /\ name[i + 1] = Quote
    <3>1. name[start + at[k]] = e[at[k]] /\ (part[k] = Quote => name[start + (at[k] + 1)] = e[at[k] + 1])
      BY <2>7 DEF Holds
    <3>2. start + Len(e) <= Len(name)
      BY DEF Holds
    <3>3. start + (at[k] + 1) = i + 1
      BY <2>5
    <3>4. PICK a \in Nat \ {0} : a = at[k]
      BY <2>5
    <3>5. i = start + a /\ a \in 1..Len(e) /\ (part[k] = Quote => a + 1 \in 1..Len(e))
      BY <2>7, <3>4
    <3>6. i \in Nat /\ i <= Len(name) /\ (part[k] = Quote => i + 1 <= Len(name))
      <4> HIDE DEF i
      <4> QED BY <1>1, <3>2, <3>5
    <3>7. name[i] = part[k]
      BY <2>5, <3>1
    <3>8. part[k] = Quote => name[i + 1] = Quote
      BY <2>5, <3>1, <3>3
    <3> QED BY <3>6, <3>7, <3>8
  <2>9. i + w = start + at[k + 1]
    <3>1. PICK a \in Nat, b \in Nat : a = at[k] /\ b = at[k + 1]
      BY <2>5
    <3>2. a + w = b
      BY <2>5, <3>1
    <3>3. w \in Nat
      BY <2>6
    <3>4. i = start + a
      BY <3>1
    <3> HIDE DEF w, i
    <3>5. i + w = start + b
      BY <3>2, <3>3, <3>4
    <3> QED BY <3>1, <3>5
  <2> DEFINE r == [part |-> Rest(part, n, k + 1), pos |-> end]
  <2>10. read[i + w] = r /\ WellFormed(r)
    BY <1>1, <2>4, <2>9 DEF WellFormed
  <2>11. ReadOnce(read, name, stopAtDot, i) = [r EXCEPT !.part = <<name[i]>> \o @]
    <3> HIDE DEF r, i, w
    <3>1. CASE part[k] # Quote
      <4>1. w = 1
        BY <2>6, <3>1
      <4>2. read[i + 1] = r
        BY <2>10, <4>1
      <4> QED BY <1>1, <2>8, <2>10, <3>1, <4>2 DEF ReadOnce
    <3>2. CASE part[k] = Quote
      <4>1. w = 2
        BY <2>6, <3>2
      <4>2. read[i + 2] = r
        BY <2>10, <4>1
      <4> QED BY <1>1, <2>8, <2>10, <3>2, <4>2 DEF ReadOnce
    <3> QED BY <3>1, <3>2
  <2>12. <<part[k]>> \o Rest(part, n, k + 1) = Rest(part, n, k)
    BY <2>3, RestStep
  <2>13. [r EXCEPT !.part = <<name[i]>> \o @] = [part |-> Rest(part, n, k), pos |-> end]
    <3>1. r = [part |-> Rest(part, n, k + 1), pos |-> end] /\ r.part = Rest(part, n, k + 1)
      OBVIOUS
    <3>2. [r EXCEPT !.part = Rest(part, n, k)] = [part |-> Rest(part, n, k), pos |-> end]
      <4> HIDE DEF end
      <4> QED BY <3>1
    <3>3. <<name[i]>> \o r.part = Rest(part, n, k)
      BY <2>8, <2>12, <3>1
    <3> HIDE DEF r, i, end
    <3> QED BY <3>2, <3>3
  <2> QED BY <1>2, <2>3, <2>8, <2>11, <2>13
<1>6. G = Nat
  <2>1. G \in SUBSET Nat
    OBVIOUS
  <2> HIDE DEF G
  <2> QED BY <1>4, <1>5, <2>1, NumberInduction
<1>7. Want(1)
  <2>1. n \in G
    <3> HIDE DEF G
    <3> QED BY <1>6
  <2>2. n + 1 - n = 1 /\ n <= n
    OBVIOUS
  <2> HIDE DEF Want
  <2> QED BY <2>1, <2>2
<1>8. Rest(part, n, 1) = part
  <2>1. n + 1 - 1 = n /\ \A j \in 1..n : 1 + j - 1 = j
    OBVIOUS
  <2> QED BY <2>1 DEF Rest
<1> QED BY <1>7, <1>8 DEF read

-----------------------------------------------------------------------------
(* Reading a part that was left as it is.                                  *)

\* A part without a separator ends where the next separator is, or the name.
LEMMA LiteralIsRead ==
    ASSUME NEW name \in Seq(Char), NEW stopAtDot \in BOOLEAN, NEW start \in Nat,
           NEW n \in Nat \ {0}, NEW part \in [1..n -> Char], Holds(name, start, part),
           \A i \in 1..n : part[i] # Dot,
           \/ Len(name) = start + n
           \/ stopAtDot /\ start + n + 1 <= Len(name) /\ name[start + n + 1] = Dot
    PROVE  LiteralPart(name, start + 1, stopAtDot) = [part |-> part, pos |-> start + n + 1]
<1> DEFINE ends == {i \in (start + 1)..Len(name) : stopAtDot /\ name[i] = Dot} \cup {Len(name) + 1}
           end == start + n + 1
<1>1. Len(name) \in Nat /\ Len(part) = n /\ part \in Seq(Char)
  BY LenProperties
<1>2. /\ start + n <= Len(name)
      /\ \A j \in 1..n : name[start + j] = part[j]
  BY <1>1 DEF Holds
<1>3. end \in ends
  BY <1>1
<1>4. ASSUME NEW i \in ends PROVE end <= i
  <2>1. CASE i = Len(name) + 1
    BY <1>1, <1>2, <2>1
  <2>2. CASE i \in (start + 1)..Len(name) /\ name[i] = Dot
    <3>1. SUFFICES ASSUME i < end PROVE FALSE
      BY <1>1, <2>2
    <3>2. i - start \in 1..n /\ start + (i - start) = i
      BY <1>1, <2>2, <3>1
    <3>3. name[i] = part[i - start]
      BY <1>2, <3>2
    <3> QED BY <2>2, <3>2, <3>3
  <2> QED BY <2>1, <2>2
<1>5. \A e \in ends : e \in Int
  BY <1>1
<1>6. (CHOOSE e \in ends : \A i \in ends : e <= i) = end
  <2>1. ASSUME NEW e \in ends, \A i \in ends : e <= i PROVE e = end
    <3>1. e <= end /\ end <= e /\ e \in Int /\ end \in Int
      BY <1>3, <1>4, <1>5, <2>1
    <3> HIDE DEF end, ends
    <3> QED BY <3>1
  <2> HIDE DEF end, ends
  <2> QED BY <1>3, <1>4, <2>1
<1>7. SubSeq(name, start + 1, end - 1) = part
  <2> DEFINE v == SubSeq(name, start + 1, end - 1)
  <2>1. start + 1 \in Int /\ end - 1 \in Int /\ end - 1 = start + n
    OBVIOUS
  <2>2. ASSUME NEW i \in (start + 1)..(end - 1) PROVE name[i] \in Char
    <3>1. i \in 1..Len(name)
      BY <1>1, <1>2, <2>2
    <3> QED BY <3>1, ElementOfSeq
  <2>3. /\ v \in Seq(Char)
        /\ Len(v) = IF start + 1 <= end - 1 THEN (end - 1) - (start + 1) + 1 ELSE 0
        /\ \A i \in 1..((end - 1) - (start + 1) + 1) : v[i] = name[(start + 1) + i - 1]
    BY <2>1, <2>2, SubSeqProperties
  <2>4. start + 1 <= end - 1 /\ (end - 1) - (start + 1) + 1 = n
    OBVIOUS
  <2> HIDE DEF v
  <2>5. Len(v) = n /\ \A i \in 1..n : v[i] = name[(start + 1) + i - 1]
    BY <2>3, <2>4
  <2>6. ASSUME NEW i \in 1..n PROVE v[i] = part[i]
    <3>1. (start + 1) + i - 1 = start + i
      OBVIOUS
    <3> QED BY <1>2, <2>5, <3>1
  <2> QED BY <1>1, <2>3, <2>5, <2>6, SeqEqual DEF v
<1> HIDE DEF end
<1> QED BY <1>6, <1>7, Zenon DEF LiteralPart, end

-----------------------------------------------------------------------------
(* A part.                                                                 *)

\* Where the characters of a name with a separator are.
LEMMA ThreeParts ==
    ASSUME NEW a \in Seq(Char), NEW b \in Seq(Char), NEW c \in Char
    PROVE  /\ a \o <<c>> \o b \in Seq(Char)
           /\ Len(a \o <<c>> \o b) = Len(a) + Len(b) + 1
           /\ \A j \in 1..Len(a) : (a \o <<c>> \o b)[j] = a[j]
           /\ (a \o <<c>> \o b)[Len(a) + 1] = c
           /\ \A j \in 1..Len(b) : (a \o <<c>> \o b)[Len(a) + 1 + j] = b[j]
<1> DEFINE u == a \o <<c>>
           v == u \o b
<1>1. Len(a) \in Nat /\ Len(b) \in Nat /\ <<c>> \in Seq(Char) /\ Len(<<c>>) = 1 /\ <<c>>[1] = c
  BY LenProperties
<1>2. /\ u \in Seq(Char) /\ Len(u) = Len(a) + 1
      /\ \A i \in 1..(Len(a) + 1) : u[i] = IF i <= Len(a) THEN a[i] ELSE <<c>>[i - Len(a)]
  BY <1>1, ConcatProperties
<1> HIDE DEF u
<1>3. /\ v \in Seq(Char) /\ Len(v) = Len(u) + Len(b)
      /\ \A i \in 1..(Len(u) + Len(b)) : v[i] = IF i <= Len(u) THEN u[i] ELSE b[i - Len(u)]
  <2>1. u \in Seq(Char)
    BY <1>2
  <2> QED BY <2>1, ConcatProperties
<1> HIDE DEF v
<1>4. ASSUME NEW j \in 1..Len(a) PROVE v[j] = a[j]
  <2>1. j \in 1..(Len(u) + Len(b)) /\ j <= Len(u) /\ j \in 1..(Len(a) + 1) /\ j <= Len(a)
    BY <1>1, <1>2
  <2> QED BY <1>2, <1>3, <2>1
<1>5. v[Len(a) + 1] = c
  <2> DEFINE j == Len(a) + 1
  <2>1. j \in 1..(Len(u) + Len(b)) /\ j <= Len(u) /\ j \in 1..(Len(a) + 1) /\ ~(j <= Len(a)) /\ j - Len(a) = 1
    BY <1>1, <1>2
  <2> HIDE DEF j
  <2>2. v[j] = u[j] /\ u[j] = <<c>>[1]
    BY <1>2, <1>3, <2>1
  <2> QED BY <1>1, <2>2 DEF j
<1>6. ASSUME NEW j \in 1..Len(b) PROVE v[Len(a) + 1 + j] = b[j]
  <2> DEFINE i == Len(a) + 1 + j
  <2>1. i \in 1..(Len(u) + Len(b)) /\ ~(i <= Len(u)) /\ i - Len(u) = j
    BY <1>1, <1>2
  <2> HIDE DEF i
  <2>2. v[i] = b[j]
    BY <1>3, <2>1
  <2> QED BY <2>2 DEF i
<1>7. Len(v) = Len(a) + Len(b) + 1
  BY <1>1, <1>2, <1>3
<1> QED BY <1>3, <1>4, <1>5, <1>6, <1>7 DEF u, v

\* A quoted part is its doubled text between two quotes.
LEMMA QuotedText ==
    ASSUME NEW n \in Nat \ {0}, NEW part \in [1..n -> Char], NeedsQuotes(part)
    PROVE  LET e == EncodeNamePart(part)
               d == FlattenSeq(Doubled(part))
           IN  /\ e \in Seq(Char) /\ d \in Seq(Char)
               /\ Len(e) = Len(d) + 2
               /\ e[1] = Quote
               /\ \A j \in 1..Len(d) : e[1 + j] = d[j]
               /\ e[Len(d) + 2] = Quote
<1> DEFINE d == FlattenSeq(Doubled(part))
           e == EncodeNamePart(part)
           f == <<Quote>> \o d
<1>1. d \in Seq(Char)
  BY DoubledText DEF Written
<1>2. e = <<Quote>> \o d \o <<Quote>>
  BY DEF EncodeNamePart, Doubled
<1> HIDE DEF d, e
<1>3. Quote \in Char /\ <<Quote>> \in Seq(Char) /\ Len(<<Quote>>) = 1 /\ <<Quote>>[1] = Quote /\ Len(d) \in Nat
  <2>1. Quote \in Char
    BY DEF Char
  <2> QED BY <1>1, <2>1, LenProperties
<1>4. /\ f \in Seq(Char) /\ Len(f) = 1 + Len(d)
      /\ \A i \in 1..(1 + Len(d)) : f[i] = IF i <= 1 THEN <<Quote>>[i] ELSE d[i - 1]
  <2>1. /\ f \in Seq(Char) /\ Len(f) = Len(<<Quote>>) + Len(d)
        /\ \A i \in 1..(Len(<<Quote>>) + Len(d)) : f[i] = IF i <= Len(<<Quote>>) THEN <<Quote>>[i] ELSE d[i - Len(<<Quote>>)]
    BY <1>1, <1>3, ConcatProperties
  <2> HIDE DEF f
  <2> QED BY <1>3, <2>1
<1>5. e = f \o <<Quote>>
  BY <1>2
<1> HIDE DEF f
<1>6. /\ e \in Seq(Char) /\ Len(e) = (1 + Len(d)) + 1
      /\ \A i \in 1..((1 + Len(d)) + 1) : e[i] = IF i <= 1 + Len(d) THEN f[i] ELSE <<Quote>>[i - (1 + Len(d))]
  <2>1. /\ e \in Seq(Char) /\ Len(e) = Len(f) + Len(<<Quote>>)
        /\ \A i \in 1..(Len(f) + Len(<<Quote>>)) : e[i] = IF i <= Len(f) THEN f[i] ELSE <<Quote>>[i - Len(f)]
    BY <1>3, <1>4, <1>5, ConcatProperties
  <2> QED BY <1>3, <1>4, <2>1
<1>7. e[1] = Quote
  <2>1. 1 \in 1..(1 + Len(d)) /\ 1 \in 1..((1 + Len(d)) + 1) /\ 1 <= 1 + Len(d) /\ 1 <= 1
    BY <1>3
  <2>2. e[1] = f[1] /\ f[1] = <<Quote>>[1]
    BY <1>4, <1>6, <2>1
  <2> QED BY <1>3, <2>2
<1>8. e[Len(d) + 2] = Quote
  <2> DEFINE i == Len(d) + 2
  <2>1. i \in 1..((1 + Len(d)) + 1) /\ ~(i <= 1 + Len(d)) /\ i - (1 + Len(d)) = 1
    BY <1>3
  <2> HIDE DEF i
  <2>2. e[i] = <<Quote>>[1]
    BY <1>6, <2>1
  <2> QED BY <1>3, <2>2 DEF i
<1>9. ASSUME NEW j \in 1..Len(d) PROVE e[1 + j] = d[j]
  <2> DEFINE i == 1 + j
  <2>1. i \in 1..(1 + Len(d)) /\ i \in 1..((1 + Len(d)) + 1) /\ i <= 1 + Len(d) /\ ~(i <= 1) /\ i - 1 = j
    BY <1>3
  <2> HIDE DEF i
  <2>2. e[i] = d[j]
    BY <1>4, <1>6, <2>1
  <2> QED BY <2>2 DEF i
<1>10. Len(e) = Len(d) + 2
  BY <1>3, <1>6
<1> QED BY <1>1, <1>6, <1>7, <1>8, <1>9, <1>10 DEF d, e

\* A part that is left as it is has no separator in it.
LEMMA PlainText ==
    ASSUME NEW n \in Nat \ {0}, NEW part \in [1..n -> Char], ~NeedsQuotes(part)
    PROVE  /\ EncodeNamePart(part) = part
           /\ part \in Seq(Char) /\ Len(part) = n
           /\ part[1] # Quote
           /\ \A i \in 1..n : part[i] # Dot
<1>1. Len(part) = n /\ part \in Seq(Char)
  OBVIOUS
<1>2. Head(part) = part[1]
  OBVIOUS
<1> QED BY <1>1, <1>2 DEF NeedsQuotes, Contains, EncodeNamePart

\* Nothing follows the part, or a separator to stop at.
EndsAfter(name, at, stopAtDot) ==
    \/ Len(name) = at
    \/ stopAtDot /\ at + 1 <= Len(name) /\ name[at + 1] = Dot

\* The part stands in the name after a position, and is what is read from there.
Stands(name, stopAtDot, start, part) ==
    /\ Holds(name, start, EncodeNamePart(part))
    /\ EndsAfter(name, start + Len(EncodeNamePart(part)), stopAtDot)

IsRead(name, stopAtDot, start, part) ==
    DecodeNamePart(name, start + 1, stopAtDot)
        = [part |-> part, pos |-> start + Len(EncodeNamePart(part)) + 1]

\* An encoded part is read back, quoted or not.
LEMMA PartIsRead ==
    ASSUME NEW name \in Seq(Char), NEW stopAtDot \in BOOLEAN, NEW start \in Nat,
           NEW n \in Nat \ {0}, NEW part \in [1..n -> Char],
           Stands(name, stopAtDot, start, part)
    PROVE  IsRead(name, stopAtDot, start, part)
<1> DEFINE e == EncodeNamePart(part)
           d == FlattenSeq(Doubled(part))
<1>1. Len(name) \in Nat
  BY LenProperties
<1>4. Holds(name, start, e) /\ EndsAfter(name, start + Len(e), stopAtDot)
  BY DEF Stands
<1>2. CASE NeedsQuotes(part)
  <2>1. /\ e \in Seq(Char) /\ d \in Seq(Char)
        /\ Len(e) = Len(d) + 2
        /\ e[1] = Quote
        /\ \A j \in 1..Len(d) : e[1 + j] = d[j]
        /\ e[Len(d) + 2] = Quote
    BY <1>2, QuotedText
  <2>2. Written(d, part, StartIn(part), n) /\ StartIn(part)[1] = 1
    BY DoubledText
  <2> HIDE DEF d
  <2>3. /\ start + Len(e) <= Len(name)
        /\ \A j \in 1..Len(e) : name[start + j] = e[j]
    BY <1>4 DEF Holds
  <2>4. \/ Len(name) = start + Len(e)
        \/ stopAtDot /\ start + Len(e) + 1 <= Len(name) /\ name[start + Len(e) + 1] = Dot
    BY <1>4 DEF EndsAfter
  <2> HIDE DEF e
  <2>5. Len(d) \in Nat
    BY <2>1, LenProperties
  <2>6. start + 1 <= Len(name) /\ name[start + 1] = Quote
    <3>1. 1 \in 1..Len(e) /\ start + 1 <= start + Len(e)
      BY <2>1, <2>5
    <3>2. name[start + 1] = e[1]
      BY <2>3, <3>1
    <3> QED BY <1>1, <2>1, <2>3, <2>5, <3>1, <3>2
  <2> DEFINE b == start + 1
  <2>7. b \in Nat /\ b + Len(d) + 1 = start + Len(e) /\ b + Len(d) + 2 = start + Len(e) + 1
    BY <2>1, <2>5
  <2>8. Holds(name, b, d)
    <3>1. b + Len(d) <= Len(name)
      BY <1>1, <2>3, <2>5, <2>7
    <3>2. ASSUME NEW j \in 1..Len(d) PROVE name[b + j] = d[j]
      <4>1. 1 + j \in 1..Len(e) /\ start + (1 + j) = b + j
        BY <2>1, <2>5
      <4>2. name[start + (1 + j)] = e[1 + j]
        BY <2>3, <4>1
      <4> QED BY <2>1, <4>1, <4>2
    <3> HIDE DEF b
    <3> QED BY <3>1, <3>2 DEF Holds
  <2>9. b + Len(d) + 1 <= Len(name)
    BY <1>1, <2>3, <2>7
  <2>10. name[b + Len(d) + 1] = Quote
    <3>1. Len(d) + 2 \in 1..Len(e) /\ start + (Len(d) + 2) = b + Len(d) + 1
      BY <2>1, <2>5
    <3>2. name[start + (Len(d) + 2)] = e[Len(d) + 2]
      BY <2>3, <3>1
    <3> QED BY <2>1, <3>1, <3>2
  <2>11. \/ Len(name) = b + Len(d) + 1
         \/ stopAtDot /\ b + Len(d) + 2 <= Len(name) /\ name[b + Len(d) + 2] = Dot
    BY <2>4, <2>7
  <2> HIDE DEF b
  <2>12. Reading(name, stopAtDot)[b + 1] = [part |-> part, pos |-> b + Len(d) + 2]
    BY <2>2, <2>7, <2>8, <2>9, <2>10, <2>11, QuotedIsRead
  <2>13. QuotedPart(name, b, stopAtDot) = [part |-> part, pos |-> b + Len(d) + 2]
    <3>1. QuotedPart(name, b, stopAtDot) = Reading(name, stopAtDot)[b + 1]
      BY <2>6, QuotedPartReads DEF b
    <3> QED BY <2>12, <3>1
  <2>14. WellFormed([part |-> part, pos |-> b + Len(d) + 2])
    BY <2>5, <2>7 DEF WellFormed
  <2>15. DecodeNamePart(name, b, stopAtDot) = [part |-> part, pos |-> b + Len(d) + 2]
    BY <2>13, <2>14 DEF DecodeNamePart
  <2> QED
    <3>1. DecodeNamePart(name, start + 1, stopAtDot) = [part |-> part, pos |-> b + Len(d) + 2]
      BY <2>15 DEF b
    <3>2. DecodeNamePart(name, start + 1, stopAtDot) = [part |-> part, pos |-> start + Len(e) + 1]
      BY <2>7, <3>1
    <3> QED BY <3>2 DEF IsRead, e
<1>3. CASE ~NeedsQuotes(part)
  <2>1. /\ e = part
        /\ part \in Seq(Char) /\ Len(part) = n
        /\ part[1] # Quote
        /\ \A i \in 1..n : part[i] # Dot
    BY <1>3, PlainText
  <2>2. Holds(name, start, part) /\ EndsAfter(name, start + n, stopAtDot)
    BY <1>4, <2>1
  <2> HIDE DEF e
  <2>3. name[start + 1] # Quote
    <3>1. 1 \in 1..Len(part)
      BY <2>1
    <3>2. name[start + 1] = part[1]
      BY <2>2, <3>1 DEF Holds
    <3> QED BY <2>1, <3>2
  <2>4. LiteralPart(name, start + 1, stopAtDot) = [part |-> part, pos |-> start + n + 1]
    BY <2>1, <2>2, LiteralIsRead DEF EndsAfter
  <2>5. ~WellFormed(QuotedPart(name, start + 1, stopAtDot))
    <3>1. QuotedPart(name, start + 1, stopAtDot) = Malformed
      BY <2>3, QuotedPartReads
    <3> QED BY <3>1 DEF WellFormed, Malformed
  <2>6. DecodeNamePart(name, start + 1, stopAtDot) = [part |-> part, pos |-> start + n + 1]
    BY <2>4, <2>5 DEF DecodeNamePart
  <2> QED
    <3>1. DecodeNamePart(name, start + 1, stopAtDot) = [part |-> part, pos |-> start + Len(e) + 1]
      BY <2>1, <2>6
    <3> QED BY <3>1 DEF IsRead, e
<1> QED BY <1>2, <1>3

\* An encoded part is text.
LEMMA EncodedType ==
    ASSUME NEW n \in Nat \ {0}, NEW part \in [1..n -> Char]
    PROVE  EncodeNamePart(part) \in Seq(Char)
<1>1. CASE NeedsQuotes(part)
  BY <1>1, QuotedText
<1>2. CASE ~NeedsQuotes(part)
  BY <1>2, PlainText
<1> QED BY <1>1, <1>2

\* An identifier has at least one character.
LEMMA IdentifierIs ==
    ASSUME NEW part \in Identifier
    PROVE  \E n \in Nat \ {0} : part \in [1..n -> Char]
BY DEF Identifier, Char

\* An encoded identifier is read back.
LEMMA IdentifierIsRead ==
    ASSUME NEW name \in Seq(Char), NEW stopAtDot \in BOOLEAN, NEW start \in Nat,
           NEW part \in Identifier, Stands(name, stopAtDot, start, part)
    PROVE  IsRead(name, stopAtDot, start, part)
<1>1. PICK n \in Nat \ {0} : part \in [1..n -> Char]
  BY IdentifierIs
<1> QED BY <1>1, PartIsRead

\* The fields of what was read.
LEMMA ReadFields ==
    ASSUME NEW r, NEW p, NEW q, r = [part |-> p, pos |-> q]
    PROVE  r.part = p /\ r.pos = q
OBVIOUS

\* The split of a name, from the first part of it.
LEMMA SplitIs ==
    ASSUME NEW name, NEW part, NEW pos \in Nat, Len(name) \in Nat,
           DecodeNamePart(name, 1, TRUE) = [part |-> part, pos |-> pos]
    PROVE  SplitLogicalName(name) =
             IF pos > Len(name) THEN <<DefaultSchema, part>>
             ELSE <<part, DecodeNamePart(name, pos + 1, FALSE).part>>
<1> DEFINE first == DecodeNamePart(name, 1, TRUE)
<1>1. first.pos = pos /\ first.part = part
  BY ReadFields
<1>2. SplitLogicalName(name) =
        IF first.pos > Len(name) THEN <<DefaultSchema, first.part>>
        ELSE <<first.part, DecodeNamePart(name, first.pos + 1, FALSE).part>>
  BY Zenon DEF SplitLogicalName
<1> HIDE DEF first
<1> QED BY <1>1, <1>2

-----------------------------------------------------------------------------
\* Any two identifiers make a logical name that splits into them.
LEMMA NamesAreUnambiguous ==
    ASSUME NEW schema \in Identifier, NEW base \in Identifier
    PROVE  RoundTrips(schema, base)
<1> DEFINE s == EncodeNamePart(schema)
           t == EncodeNamePart(base)
           name == EncodeLogicalName(schema, base)
<1>3. s \in Seq(Char) /\ t \in Seq(Char)
  BY IdentifierIs, EncodedType
<1>4. Len(s) \in Nat /\ Len(t) \in Nat
  <2> HIDE DEF s, t
  <2> QED BY <1>3, LenProperties
<1>5. CASE schema = DefaultSchema
  <2>1. name = t
    BY <1>5 DEF EncodeLogicalName
  <2>2. Stands(t, TRUE, 0, base)
    <3>1. Holds(t, 0, t) /\ EndsAfter(t, 0 + Len(t), TRUE)
      <4> HIDE DEF t
      <4> QED BY <1>4 DEF Holds, EndsAfter
    <3> QED BY <3>1 DEF Stands
  <2>3. IsRead(t, TRUE, 0, base)
    BY <1>3, <2>2, IdentifierIsRead
  <2>4. DecodeNamePart(t, 1, TRUE) = [part |-> base, pos |-> Len(t) + 1]
    <3>1. DecodeNamePart(t, 0 + 1, TRUE) = [part |-> base, pos |-> 0 + Len(t) + 1]
      BY <2>3 DEF IsRead
    <3>2. 0 + 1 = 1 /\ 0 + Len(t) + 1 = Len(t) + 1
      BY <1>4
    <3> HIDE DEF t
    <3> QED BY <3>1, <3>2
  <2> HIDE DEF t
  <2>5. Len(t) + 1 \in Nat /\ Len(t) + 1 > Len(t)
    BY <1>4
  <2>6. SplitLogicalName(t) = <<DefaultSchema, base>>
    BY <1>4, <2>4, <2>5, SplitIs
  <2> QED BY <1>5, <2>1, <2>6 DEF RoundTrips
<1>6. CASE schema # DefaultSchema
  <2>1. name = s \o <<Dot>> \o t
    BY <1>6 DEF EncodeLogicalName
  <2>2. Dot \in Char
    BY DEF Char
  <2>3. /\ name \in Seq(Char) /\ Len(name) = Len(s) + Len(t) + 1
        /\ \A j \in 1..Len(s) : name[j] = s[j]
        /\ name[Len(s) + 1] = Dot
        /\ \A j \in 1..Len(t) : name[Len(s) + 1 + j] = t[j]
    <3> HIDE DEF s, t, name
    <3> QED BY <1>3, <2>1, <2>2, ThreeParts
  <2> HIDE DEF name
  <2>4. Stands(name, TRUE, 0, schema)
    <3>1. Holds(name, 0, s) /\ EndsAfter(name, 0 + Len(s), TRUE)
      <4> HIDE DEF s, t
      <4>1. 0 + Len(s) <= Len(name) /\ 0 + Len(s) + 1 <= Len(name) /\ 0 + Len(s) + 1 = Len(s) + 1
        BY <1>4, <2>3
      <4>2. \A j \in 1..Len(s) : 0 + j = j
        OBVIOUS
      <4> QED BY <2>3, <4>1, <4>2 DEF Holds, EndsAfter
    <3> QED BY <3>1 DEF Stands
  <2>5. IsRead(name, TRUE, 0, schema)
    BY <2>3, <2>4, IdentifierIsRead
  <2> DEFINE k == Len(s) + 1
  <2>6. k \in Nat /\ ~(k > Len(name)) /\ Len(name) \in Nat /\ 0 + 1 = 1 /\ 0 + Len(s) + 1 = k
    <3> HIDE DEF s, t
    <3> QED BY <1>4, <2>3
  <2>7. DecodeNamePart(name, 1, TRUE) = [part |-> schema, pos |-> k]
    <3>1. DecodeNamePart(name, 0 + 1, TRUE) = [part |-> schema, pos |-> 0 + Len(s) + 1]
      BY <2>5 DEF IsRead
    <3> HIDE DEF s, k
    <3> QED BY <2>6, <3>1
  <2>8. Stands(name, FALSE, k, base)
    <3>1. Holds(name, k, t) /\ EndsAfter(name, k + Len(t), FALSE)
      <4> HIDE DEF s, t
      <4>1. k + Len(t) = Len(name)
        BY <1>4, <2>3
      <4> QED BY <1>4, <2>3, <4>1 DEF Holds, EndsAfter
    <3> HIDE DEF k
    <3> QED BY <3>1 DEF Stands
  <2> HIDE DEF k
  <2>9. IsRead(name, FALSE, k, base)
    BY <2>3, <2>6, <2>8, IdentifierIsRead
  <2>10. DecodeNamePart(name, k + 1, FALSE).part = base
    BY <2>9, ReadFields, Zenon DEF IsRead
  <2>11. SplitLogicalName(name) = <<schema, base>>
    BY <2>6, <2>7, <2>10, SplitIs
  <2> QED BY <2>11 DEF RoundTrips, name
<1> QED BY <1>5, <1>6

-----------------------------------------------------------------------------
(* The component chosen at the start keeps running, and only it.           *)

allVars == <<vars, component, table, work, raced, altered>>

\* A step of the run in which the identity was chosen is a step of the identity.
LEMMA IdentityStays ==
    component = "identity" /\ [MCNext]_allVars => (component = "identity")' /\ [Identity!Next]_(Identity!vars)
<1> SUFFICES ASSUME component = "identity", [MCNext]_allVars
             PROVE  component' = "identity" /\ [Identity!Next]_(Identity!vars)
  OBVIOUS
<1>1. CASE UNCHANGED allVars
  BY <1>1 DEF allVars, Identity!vars
<1>2. CASE MCNext
  <2>1. ~OnlyLifecycle /\ ~OnlyUpgrade
    BY DEF OnlyLifecycle, OnlyUpgrade
  <2>2. OnlyIdentity /\ Identity!Next
    BY <1>2, <2>1, Zenon DEF MCNext, Identity!Next
  <2> QED BY <2>2 DEF OnlyIdentity
<1> QED BY <1>1, <1>2

\* If it was chosen, the behaviour is one of ScenarioIdentity.
LEMMA IdentityRunsAlone == MCSpec /\ component = "identity" => Identity!Spec /\ [](component = "identity")
<1>1. MCInit /\ component = "identity" => Identity!Init
  BY DEF MCInit
<1> QED BY <1>1, IdentityStays, PTL DEF MCSpec, Identity!Spec, allVars

\* If it was not chosen, it never is.
LEMMA IdentityIsChosenFirst == MCSpec /\ ~(component = "identity") => [](~(component = "identity"))
<1>1. ~(component = "identity") /\ [MCNext]_allVars => ~(component = "identity")'
  BY DEF MCNext, OnlyLifecycle, OnlyIdentity, OnlyUpgrade, allVars
<1> QED BY <1>1, PTL DEF MCSpec, allVars

\* The same for the upgrade.
LEMMA UpgradeStays ==
    component = "upgrade" /\ [MCNext]_allVars => (component = "upgrade")' /\ [Upgrade!Next]_(Upgrade!vars)
<1> SUFFICES ASSUME component = "upgrade", [MCNext]_allVars
             PROVE  component' = "upgrade" /\ [Upgrade!Next]_(Upgrade!vars)
  OBVIOUS
<1>1. CASE UNCHANGED allVars
  BY <1>1 DEF allVars, Upgrade!vars
<1>2. CASE MCNext
  <2>1. ~OnlyLifecycle /\ ~OnlyIdentity
    BY DEF OnlyLifecycle, OnlyIdentity
  <2>2. OnlyUpgrade /\ Upgrade!Next
    BY <1>2, <2>1, Zenon DEF MCNext, Upgrade!Next
  <2> QED BY <2>2 DEF OnlyUpgrade
<1> QED BY <1>1, <1>2

\* If it was chosen, the behaviour is one of ScenarioUpgrade.
LEMMA UpgradeRunsAlone == MCSpec /\ component = "upgrade" => Upgrade!Spec /\ [](component = "upgrade")
<1>1. MCInit /\ component = "upgrade" => Upgrade!Init
  BY DEF MCInit
<1> QED BY <1>1, UpgradeStays, PTL DEF MCSpec, Upgrade!Spec, allVars

\* If it was not chosen, it never is.
LEMMA UpgradeIsChosenFirst == MCSpec /\ ~(component = "upgrade") => [](~(component = "upgrade"))
<1>1. ~(component = "upgrade") /\ [MCNext]_allVars => ~(component = "upgrade")'
  BY DEF MCNext, OnlyLifecycle, OnlyIdentity, OnlyUpgrade, allVars
<1> QED BY <1>1, PTL DEF MCSpec, allVars

\* A chosen pair of names stays chosen.
TwoNames == component = "names" => table \in Identifier \X Identifier

\* No step changes the names.
LEMMA NamesAreKept == MCSpec => []TwoNames
<1>1. MCInit => TwoNames
  BY DEF MCInit, TwoNames
<1>2. TwoNames /\ [MCNext]_allVars => TwoNames'
  <2> SUFFICES ASSUME TwoNames, [MCNext]_allVars, component' = "names"
               PROVE  table' \in Identifier \X Identifier
    BY DEF TwoNames
  <2>1. CASE UNCHANGED allVars
    BY <2>1 DEF allVars, TwoNames
  <2>2. CASE MCNext
    BY <2>2 DEF MCNext, OnlyLifecycle, OnlyIdentity, OnlyUpgrade
  <2> QED BY <2>1, <2>2
<1> QED BY <1>1, <1>2, PTL DEF MCSpec, allVars

-----------------------------------------------------------------------------

\* ReadersFollowTheRows: the identity a transaction uses is that of the rows it
\* sees, so a table of which the key changed meanwhile is read by no stale key.
THEOREM ReadersFollowInSessions == MCSpec => []ReadersFollowTheRows
<1>1. Identity!ReadersFollowTheRows => ReadersFollowTheRows
  BY DEF ReadersFollowTheRows
<1>2. ~(component = "identity") => ReadersFollowTheRows
  BY DEF ReadersFollowTheRows
<1> QED BY <1>1, <1>2, IdentityRunsAlone, IdentityIsChosenFirst, Identity!ReadersFollow, PTL

\* CacheIsCurrent: a handle's cached declared keys are those of the snapshot its
\* transaction reads, whoever filled the cache and whatever committed since.
THEOREM CacheIsCurrentInSessions == MCSpec => []CacheIsCurrent
<1>1. Identity!CacheIsCurrent => CacheIsCurrent
  BY DEF CacheIsCurrent
<1>2. ~(component = "identity") => CacheIsCurrent
  BY DEF CacheIsCurrent
<1> QED BY <1>1, <1>2, IdentityRunsAlone, IdentityIsChosenFirst, Identity!CachedKeysAreCurrent, PTL

\* IdentityAgrees: the delta's identity is the declared key unless transactions
\* overlapped or the base's columns were renamed.
THEOREM IdentityAgreesInSessions == MCSpec => []IdentityAgrees
<1>1. Identity!IdentityAgrees => IdentityAgrees
  BY DEF IdentityAgrees
<1>2. ~(component = "identity") => IdentityAgrees
  BY DEF IdentityAgrees
<1> QED BY <1>1, <1>2, IdentityRunsAlone, IdentityIsChosenFirst, Identity!AgreesUnlessRaced, PTL

\* EveryCopyIsAccountedFor: the upgrade loses the copies committed to the old
\* table between its transaction's start and its commit, and no other.
THEOREM CopiesAccountedForInSessions == MCSpec => []EveryCopyIsAccountedFor
<1>1. Upgrade!EveryCopyIsAccountedFor => EveryCopyIsAccountedFor
  BY DEF EveryCopyIsAccountedFor
<1>2. ~(component = "upgrade") => EveryCopyIsAccountedFor
  BY DEF EveryCopyIsAccountedFor
<1> QED BY <1>1, <1>2, UpgradeRunsAlone, UpgradeIsChosenFirst, Upgrade!CopiesAccountedFor, PTL

\* OlderWritersCommit: a writer whose commit the upgrade made fail began after
\* the transaction that upgraded.
THEOREM OlderWritersInSessions == MCSpec => []OlderWritersCommit
<1>1. Upgrade!OlderWritersCommit => OlderWritersCommit
  BY DEF OlderWritersCommit
<1>2. ~(component = "upgrade") => OlderWritersCommit
  BY DEF OlderWritersCommit
<1> QED BY <1>1, <1>2, UpgradeRunsAlone, UpgradeIsChosenFirst, Upgrade!OlderWriters, PTL

\* WriterIsTheUsers: the upgrade on attach does not make the host the one
\* database the user's transaction may write.
THEOREM WritersInSessions == MCSpec => []WriterIsTheUsers
<1>1. Upgrade!WriterIsTheUsers => WriterIsTheUsers
  BY DEF WriterIsTheUsers
<1>2. ~(component = "upgrade") => WriterIsTheUsers
  BY DEF WriterIsTheUsers
<1> QED BY <1>1, <1>2, UpgradeRunsAlone, UpgradeIsChosenFirst, Upgrade!Writers, PTL

\* NamesRoundTrip: a logical name, split, gives back the schema and the table it
\* was made of, whatever separators and quotes they hold (scenario_delta.hpp:81).
THEOREM EveryNameRoundTrips == MCSpec => []NamesRoundTrip
<1>1. TwoNames => NamesRoundTrip
  <2> SUFFICES ASSUME table \in Identifier \X Identifier PROVE RoundTrips(table[1], table[2])
    BY DEF TwoNames, NamesRoundTrip
  <2>1. table[1] \in Identifier /\ table[2] \in Identifier
    OBVIOUS
  <2> QED BY <2>1, NamesAreUnambiguous
<1> QED BY <1>1, NamesAreKept, PTL
=============================================================================
