--------------------------- MODULE UiEditorsProofs ---------------------------
(* Proofs about UiEditors, for every value of its constants.                *)
EXTENDS UiEditors, UiLists, TLAPS, FiniteSetTheorems, SequenceTheorems

-----------------------------------------------------------------------------
(* Sequences *)

\* What is at each place of two lists that are joined.
LEMMA JoinedPosition ==
  ASSUME NEW S, NEW s \in Seq(S), NEW t \in Seq(S)
  PROVE  /\ s \o t \in Seq(S) /\ Len(s \o t) = Len(s) + Len(t)
         /\ DOMAIN (s \o t) = 1..(Len(s) + Len(t))
         /\ \A i \in DOMAIN (s \o t) :
              (s \o t)[i] = IF i <= Len(s) THEN s[i] ELSE t[i - Len(s)]
         /\ \A i \in DOMAIN s : i \in DOMAIN (s \o t) /\ (s \o t)[i] = s[i]
         /\ \A i \in DOMAIN t : /\ i + Len(s) \in DOMAIN (s \o t)
                                /\ (s \o t)[i + Len(s)] = t[i]
OBVIOUS

\* What is at each place of a list from which one element is removed.
LEMMA RemovedPosition ==
  ASSUME NEW S, NEW s \in Seq(S), NEW i \in DOMAIN s
  PROVE  LET t == SubSeq(s, 1, i - 1) \o SubSeq(s, i + 1, Len(s))
         IN /\ t \in Seq(S) /\ Len(t) = Len(s) - 1
            /\ \A j \in DOMAIN t : t[j] = IF j < i THEN s[j] ELSE s[j + 1]
<1> DEFINE a == SubSeq(s, 1, i - 1)
           b == SubSeq(s, i + 1, Len(s))
<1>1. i \in 1..Len(s) /\ Len(s) \in Nat
  OBVIOUS
<1>2. /\ a \in Seq(S) /\ Len(a) = i - 1
      /\ \A j \in 1..(i - 1) : a[j] = s[j]
  BY <1>1
<1>3. /\ b \in Seq(S) /\ Len(b) = Len(s) - i
      /\ \A j \in 1..(Len(s) - i) : b[j] = s[j + i]
  BY <1>1
<1> HIDE DEF a, b
<1> DEFINE u == a \o b
<1>4. /\ u \in Seq(S) /\ Len(u) = Len(a) + Len(b)
      /\ DOMAIN u = 1..(Len(a) + Len(b))
      /\ \A j \in DOMAIN u : u[j] = IF j <= Len(a) THEN a[j] ELSE b[j - Len(a)]
  <2>1. a \in Seq(S) /\ b \in Seq(S)
    BY <1>2, <1>3
  <2> QED
    BY <2>1, JoinedPosition
<1> HIDE DEF u
<1>5. Len(u) = Len(s) - 1 /\ DOMAIN u = 1..(Len(s) - 1)
  BY <1>1, <1>2, <1>3, <1>4
<1>6. ASSUME NEW j \in DOMAIN u PROVE u[j] = IF j < i THEN s[j] ELSE s[j + 1]
  <2>1. j \in 1..(Len(s) - 1) /\ u[j] = IF j <= i - 1 THEN a[j] ELSE b[j - (i - 1)]
    BY <1>2, <1>4, <1>5
  <2>2. CASE j <= i - 1
    BY <1>1, <1>2, <2>1, <2>2
  <2>3. CASE ~(j <= i - 1)
    <3>1. j - (i - 1) \in 1..(Len(s) - i) /\ j - (i - 1) + i = j + 1
      BY <1>1, <2>1, <2>3
    <3>2. b[j - (i - 1)] = s[j + 1]
      BY <1>3, <3>1
    <3> QED
      BY <1>1, <2>1, <2>3, <3>2
  <2> QED
    BY <2>2, <2>3
<1> QED
  BY <1>4, <1>5, <1>6 DEF a, b, u

ValuesOf(s) == {s[i] : i \in DOMAIN s}

\* Two lists that are joined hold what either of them held.
LEMMA JoinedValues ==
  ASSUME NEW S, NEW s \in Seq(S), NEW t \in Seq(S)
  PROVE  s \o t \in Seq(S) /\ ValuesOf(s \o t) = ValuesOf(s) \cup ValuesOf(t)
<1> DEFINE u == s \o t
<1>1. /\ u \in Seq(S) /\ DOMAIN u = 1..(Len(s) + Len(t))
      /\ Len(s) \in Nat /\ Len(t) \in Nat
      /\ DOMAIN s = 1..Len(s) /\ DOMAIN t = 1..Len(t)
      /\ \A i \in DOMAIN u : u[i] = IF i <= Len(s) THEN s[i] ELSE t[i - Len(s)]
      /\ \A i \in DOMAIN s : i \in DOMAIN u /\ u[i] = s[i]
      /\ \A i \in DOMAIN t : i + Len(s) \in DOMAIN u /\ u[i + Len(s)] = t[i]
  BY JoinedPosition
<1> HIDE DEF u
<1>2. \A i \in DOMAIN u : \/ i \in DOMAIN s /\ u[i] = s[i]
                          \/ i - Len(s) \in DOMAIN t /\ u[i] = t[i - Len(s)]
  BY <1>1
<1>3. ValuesOf(u) \subseteq ValuesOf(s) \cup ValuesOf(t)
  BY <1>2 DEF ValuesOf
<1>4. ValuesOf(s) \subseteq ValuesOf(u)
  BY <1>1 DEF ValuesOf
<1>5. ValuesOf(t) \subseteq ValuesOf(u)
  BY <1>1 DEF ValuesOf
<1>6. ValuesOf(u) = ValuesOf(s) \cup ValuesOf(t)
  BY <1>3, <1>4, <1>5
<1> QED
  BY <1>1, <1>6 DEF u

-----------------------------------------------------------------------------
(* What is left of a list: UiLists                                          *)

\* Ranks number the members of a finite set of numbers from 1 on.
LEMMA RankType ==
  ASSUME NEW P \in SUBSET Nat, IsFiniteSet(P)
  PROVE  /\ \A i \in P : Rank(P, i) \in 1..Cardinality(P)
         /\ \A i, j \in P : i < j => Rank(P, i) < Rank(P, j)
<1> DEFINE upto(i) == {j \in P : j <= i}
<1>1. \A i : upto(i) \in SUBSET P /\ Rank(P, i) = Cardinality(upto(i))
  BY DEF Rank
<1> HIDE DEF upto
<1>2. \A i : IsFiniteSet(upto(i)) /\ Cardinality(upto(i)) \in Nat
             /\ Cardinality(upto(i)) <= Cardinality(P)
  BY <1>1, FS_Subset, FS_CardinalityType
<1>3. Cardinality(P) \in Nat
  BY FS_CardinalityType
<1>4. ASSUME NEW i \in P PROVE Rank(P, i) \in 1..Cardinality(P)
  <2>1. upto(i) # {}
    BY <1>4 DEF upto
  <2>2. Cardinality(upto(i)) # 0
    BY <1>2, <2>1, FS_EmptySet
  <2> QED
    BY <1>1, <1>2, <1>3, <2>2
<1>5. ASSUME NEW i \in P, NEW j \in P, i < j PROVE Rank(P, i) < Rank(P, j)
  <2>1. upto(i) \in SUBSET upto(j) /\ upto(i) # upto(j)
    <3>1. i \in Nat /\ j \in Nat /\ P \subseteq Nat
      OBVIOUS
    <3>2. j \in upto(j) /\ j \notin upto(i)
      BY <1>5, <3>1 DEF upto
    <3>3. \A x \in P : x <= i => x <= j
      BY <1>5, <3>1
    <3>4. upto(i) \subseteq upto(j)
      BY <3>3 DEF upto
    <3> QED
      BY <3>2, <3>4
  <2>2. /\ Cardinality(upto(i)) <= Cardinality(upto(j))
        /\ Cardinality(upto(i)) # Cardinality(upto(j))
    BY <1>2, <2>1, FS_Subset
  <2> QED
    BY <1>1, <1>2, <2>2
<1> QED
  BY <1>4, <1>5

\* Every number up to their number is the rank of one of them.
LEMMA RankOnto ==
  ASSUME NEW P \in SUBSET Nat, IsFiniteSet(P), NEW k \in 1..Cardinality(P)
  PROVE  \E i \in P : Rank(P, i) = k
<1> DEFINE n == Cardinality(P)
           f == [i \in P |-> Rank(P, i)]
<1>1. n \in Nat /\ IsFiniteSet(1..n) /\ Cardinality(1..n) = n
  BY FS_CardinalityType, FS_Interval
<1>2. f \in [P -> 1..n] /\ \A i \in P : f[i] = Rank(P, i)
  BY RankType
<1> HIDE DEF n, f
<1>3. \A i, j \in P : f[i] = f[j] => i = j
  <2> SUFFICES ASSUME NEW i \in P, NEW j \in P, i # j PROVE f[i] # f[j]
    OBVIOUS
  <2>1. i \in Nat /\ j \in Nat
    OBVIOUS
  <2>2. Rank(P, i) \in 1..n /\ Rank(P, j) \in 1..n
    BY <1>2
  <2>3. (i < j => Rank(P, i) < Rank(P, j)) /\ (j < i => Rank(P, j) < Rank(P, i))
    BY RankType
  <2> QED
    BY <1>1, <1>2, <2>1, <2>2, <2>3
<1>4. f \in Injection(P, 1..n)
  BY <1>2, <1>3 DEF Injection, IsInjective
<1>5. f \in Surjection(P, 1..n)
  BY <1>1, <1>4, FS_Injection DEF n
<1>6. PICK i \in P : f[i] = k
  BY <1>5 DEF Surjection, n
<1> QED
  BY <1>2, <1>6

\* Each place of t, the filtered list, stands for a position of the list, no
\* two for the same one, and each position that is kept has a place.
Placed(s, P, t, n) ==
  /\ n \in Nat /\ Len(t) = n /\ DOMAIN t = 1..n
  /\ \E g \in [1..n -> P] :
       /\ \A k \in 1..n : t[k] = s[g[k]]
       /\ \A k, m \in 1..n : k < m => g[k] < g[m]
       /\ \A i \in P : \E k \in 1..n : g[k] = i

\* A filtered list holds what it should, each in its place.
LEMMA FilteredPlaces ==
  ASSUME NEW X, NEW s \in Seq(X), NEW S
  PROVE  /\ Filtered(s, S) \in Seq(X \cap S)
         /\ Placed(s, Positions(s, S), Filtered(s, S), Cardinality(Positions(s, S)))
<1> DEFINE P == Positions(s, S)
           n == Cardinality(P)
           t == Filtered(s, S)
           g == [k \in 1..n |-> CHOOSE i \in P : Rank(P, i) = k]
<1>1. P \in SUBSET Nat /\ P \in SUBSET (1..Len(s)) /\ Len(s) \in Nat
  BY DEF Positions
<1>2. IsFiniteSet(P) /\ n \in Nat
  <2>1. IsFiniteSet(1..Len(s))
    BY <1>1, FS_Interval
  <2> HIDE DEF P
  <2>2. IsFiniteSet(P)
    BY <1>1, <2>1, FS_Subset
  <2> QED
    BY <2>2, FS_CardinalityType
<1>3. t = [k \in 1..n |-> s[CHOOSE i \in P : Rank(P, i) = k]]
  BY DEF Filtered
<1>4. \A i \in P : s[i] \in X \cap S
  BY DEF Positions
<1> HIDE DEF P, n, t
<1>5. \A k \in 1..n : g[k] \in P /\ Rank(P, g[k]) = k
  BY <1>1, <1>2, RankOnto DEF n
<1>6. g \in [1..n -> P] /\ t = [k \in 1..n |-> s[g[k]]]
  BY <1>3, <1>5
<1> HIDE DEF g
<1>7. \A k \in 1..n : t[k] = s[g[k]] /\ t[k] \in X \cap S
  BY <1>4, <1>6
<1>8. DOMAIN t = 1..n /\ t \in Seq(X \cap S) /\ Len(t) = n
  BY <1>2, <1>6, <1>7
<1>9. \A k, m \in 1..n : k < m => g[k] < g[m]
  <2> SUFFICES ASSUME NEW k \in 1..n, NEW m \in 1..n, k < m PROVE g[k] < g[m]
    OBVIOUS
  <2>1. /\ g[k] \in Nat /\ g[m] \in Nat /\ g[k] \in P /\ g[m] \in P
        /\ Rank(P, g[k]) = k /\ Rank(P, g[m]) = m
    BY <1>1, <1>5
  <2>2. g[m] < g[k] => Rank(P, g[m]) < Rank(P, g[k])
    BY <1>1, <1>2, <2>1, RankType
  <2> QED
    BY <1>2, <2>1, <2>2
<1>10. \A i \in P : \E k \in 1..n : g[k] = i
  <2> SUFFICES ASSUME NEW i \in P PROVE \E k \in 1..n : g[k] = i
    OBVIOUS
  <2> DEFINE k == Rank(P, i)
  <2>1. k \in 1..n
    BY <1>1, <1>2, RankType DEF n
  <2>2. g[k] \in P /\ Rank(P, g[k]) = Rank(P, i)
    BY <1>5, <2>1
  <2>3. g[k] \in Nat /\ i \in Nat /\ Rank(P, i) \in Nat
    <3>1. Rank(P, i) \in Nat
      BY <1>2, <2>1
    <3> HIDE DEF k
    <3> QED
      BY <1>1, <2>2, <3>1
  <2>4. /\ g[k] < i => Rank(P, g[k]) < Rank(P, i)
        /\ i < g[k] => Rank(P, i) < Rank(P, g[k])
    BY <1>1, <1>2, <2>2, RankType
  <2>5. g[k] = i
    <3> HIDE DEF k
    <3> QED
      BY <2>2, <2>3, <2>4
  <2> QED
    BY <2>1, <2>5
<1>11. Placed(s, P, t, n)
  BY <1>2, <1>6, <1>7, <1>8, <1>9, <1>10 DEF Placed
<1> QED
  BY <1>8, <1>11 DEF P, n, t

\* A list that has each of the elements of A once.
Enumerates(s, A) ==
  /\ s \in Seq(A)
  /\ \A x \in A : \E i \in DOMAIN s : s[i] = x
  /\ \A i, j \in DOMAIN s : s[i] = s[j] => i = j

\* A list that has each element once is as long as there are elements.
LEMMA EnumeratedLength ==
  ASSUME NEW A, NEW s, Enumerates(s, A)
  PROVE  IsFiniteSet(A) /\ Len(s) = Cardinality(A) /\ Len(s) \in Nat
<1>1. s \in Seq(A) /\ Len(s) \in Nat /\ DOMAIN s = 1..Len(s)
  BY DEF Enumerates
<1>2. s \in [1..Len(s) -> A]
  BY <1>1
<1>3. s \in Surjection(1..Len(s), A) /\ s \in Injection(1..Len(s), A)
  <2>1. /\ \A x \in A : \E i \in 1..Len(s) : s[i] = x
        /\ \A i, j \in 1..Len(s) : s[i] = s[j] => i = j
    BY <1>1 DEF Enumerates
  <2> QED
    BY <1>2, <2>1 DEF Surjection, Injection, IsInjective
<1>4. IsFiniteSet(1..Len(s)) /\ Cardinality(1..Len(s)) = Len(s)
  BY <1>1, FS_Interval
<1>5. IsFiniteSet(A) /\ Cardinality(A) = Len(s)
  BY <1>3, <1>4, FS_Surjection
<1> QED
  BY <1>1, <1>5

\* A list of all elements holds them all.
LEMMA EnumeratedValues ==
  ASSUME NEW A, NEW s, Enumerates(s, A)
  PROVE  {s[i] : i \in DOMAIN s} = A
<1>1. \A i \in DOMAIN s : s[i] \in A
  <2>1. s \in Seq(A)
    BY DEF Enumerates
  <2> QED
    BY <2>1
<1> QED
  BY <1>1 DEF Enumerates

\* Filtering such a list leaves one of the elements that are kept.
LEMMA EnumeratedFiltered ==
  ASSUME NEW A, NEW s, Enumerates(s, A), NEW B
  PROVE  Enumerates(Filtered(s, B), A \cap B)
<1> DEFINE t == Filtered(s, B)
           P == Positions(s, B)
           n == Cardinality(P)
<1>1. s \in Seq(A)
  BY DEF Enumerates
<1>2. t \in Seq(A \cap B) /\ Placed(s, P, t, n)
  BY <1>1, FilteredPlaces
<1> HIDE DEF t, n
<1>3. PICK g \in [1..n -> P] :
           /\ \A k \in 1..n : t[k] = s[g[k]]
           /\ \A k, m \in 1..n : k < m => g[k] < g[m]
           /\ \A i \in P : \E k \in 1..n : g[k] = i
  BY <1>2 DEF Placed
<1>10. n \in Nat /\ DOMAIN t = 1..n
  BY <1>2 DEF Placed
<1>4. \A i : i \in P <=> i \in DOMAIN s /\ s[i] \in B
  BY DEF Positions
<1>5. P \subseteq Nat
  BY <1>1 DEF Positions
<1> HIDE DEF P
<1>6. \A i, j \in P : s[i] = s[j] => i = j
  BY <1>4 DEF Enumerates
<1>7. ASSUME NEW k \in 1..n, NEW m \in 1..n, t[k] = t[m] PROVE k = m
  <2>1. g[k] \in P /\ g[m] \in P /\ g[k] = g[m]
    BY <1>3, <1>6, <1>7
  <2>2. g[k] \in Nat /\ g[m] \in Nat
    BY <1>5, <2>1
  <2>3. (k < m => g[k] < g[m]) /\ (m < k => g[m] < g[k])
    BY <1>3
  <2> QED
    BY <1>10, <2>1, <2>2, <2>3
<1>8. ASSUME NEW x \in A \cap B PROVE \E k \in 1..n : t[k] = x
  <2>1. PICK i \in DOMAIN s : s[i] = x
    BY DEF Enumerates
  <2>2. i \in P
    BY <1>4, <2>1
  <2>3. PICK k \in 1..n : g[k] = i
    BY <1>3, <2>2
  <2> QED
    BY <1>3, <2>1, <2>3
<1>9. Enumerates(t, A \cap B)
  BY <1>2, <1>10, <1>7, <1>8 DEF Enumerates
<1> QED
  BY <1>9 DEF t

\* Joining the lists of two disjoint sets lists their union.
LEMMA EnumeratedJoined ==
  ASSUME NEW A, NEW B, NEW s, NEW t, Enumerates(s, A), Enumerates(t, B),
         A \cap B = {}
  PROVE  Enumerates(s \o t, A \cup B)
<1> DEFINE u == s \o t
<1>1. s \in Seq(A \cup B) /\ t \in Seq(A \cup B) /\ s \in Seq(A) /\ t \in Seq(B)
  BY DEF Enumerates
<1>2. /\ u \in Seq(A \cup B) /\ DOMAIN u = 1..(Len(s) + Len(t))
      /\ \A i \in DOMAIN u : u[i] = IF i <= Len(s) THEN s[i] ELSE t[i - Len(s)]
      /\ \A i \in DOMAIN s : i \in DOMAIN u /\ u[i] = s[i]
      /\ \A i \in DOMAIN t : i + Len(s) \in DOMAIN u /\ u[i + Len(s)] = t[i]
  <2>1. s \in Seq(A \cup B) /\ t \in Seq(A \cup B)
    BY <1>1
  <2> QED
    BY <2>1, JoinedPosition
<1> HIDE DEF u
<1>3. Len(s) \in Nat /\ Len(t) \in Nat /\ DOMAIN s = 1..Len(s) /\ DOMAIN t = 1..Len(t)
  BY <1>1
<1>4. \A i \in DOMAIN s : s[i] \in A
  BY <1>1
<1>5. \A i \in DOMAIN t : t[i] \in B
  BY <1>1
<1>6. ASSUME NEW x \in A \cup B PROVE \E i \in DOMAIN u : u[i] = x
  <2>1. CASE x \in A
    BY <1>2, <2>1 DEF Enumerates
  <2>2. CASE x \in B
    BY <1>2, <2>2 DEF Enumerates
  <2> QED
    BY <2>1, <2>2
<1>7. ASSUME NEW i \in DOMAIN u, NEW j \in DOMAIN u, u[i] = u[j] PROVE i = j
  <2>1. CASE i <= Len(s) /\ j <= Len(s)
    <3>1. i \in DOMAIN s /\ j \in DOMAIN s /\ s[i] = s[j]
      BY <1>2, <1>3, <1>7, <2>1
    <3> QED
      BY <3>1 DEF Enumerates
  <2>2. CASE ~(i <= Len(s)) /\ ~(j <= Len(s))
    <3>1. /\ i - Len(s) \in DOMAIN t /\ j - Len(s) \in DOMAIN t
          /\ t[i - Len(s)] = t[j - Len(s)]
      BY <1>2, <1>3, <1>7, <2>2
    <3>2. i - Len(s) = j - Len(s)
      BY <3>1 DEF Enumerates
    <3> QED
      BY <1>2, <1>3, <3>2
  <2>3. ASSUME NEW k \in DOMAIN u, NEW m \in DOMAIN u, k <= Len(s), ~(m <= Len(s))
        PROVE  u[k] # u[m]
    <3>1. k \in DOMAIN s /\ u[k] = s[k] /\ m - Len(s) \in DOMAIN t /\ u[m] = t[m - Len(s)]
      BY <1>2, <1>3, <2>3
    <3> QED
      BY <1>4, <1>5, <3>1
  <2> QED
    BY <1>7, <2>1, <2>2, <2>3
<1>8. Enumerates(u, A \cup B)
  BY <1>2, <1>6, <1>7 DEF Enumerates
<1> QED
  BY <1>8 DEF u

\* A list of one element lists it.
LEMMA EnumeratedOne ==
  ASSUME NEW x PROVE Enumerates(<<x>>, {x})
BY DEF Enumerates

\* A list, whatever its elements are.
IsList(list) == list \in Seq(ValuesOf(list))

\* A sequence over some set is a list of whatever it holds.
LEMMA SeqIsList ==
  ASSUME NEW X, NEW s \in Seq(X)
  PROVE  IsList(s)
<1>1. /\ DOMAIN s = 1..Len(s) /\ Len(s) \in Nat
      /\ s = [i \in DOMAIN s |-> s[i]]
  OBVIOUS
<1>2. \A i \in DOMAIN s : s[i] \in ValuesOf(s)
  BY DEF ValuesOf
<1>3. s \in [1..Len(s) -> ValuesOf(s)]
  BY <1>1, <1>2
<1> QED
  BY <1>1, <1>3 DEF IsList

\* A function of 1..n is a list.
LEMMA FunctionIsList ==
  ASSUME NEW n \in Nat, NEW f, DOMAIN f = 1..n, f = [i \in DOMAIN f |-> f[i]]
  PROVE  IsList(f) /\ Len(f) = n
<1>1. \A i \in DOMAIN f : f[i] \in ValuesOf(f)
  BY DEF ValuesOf
<1>2. f \in [1..n -> ValuesOf(f)]
  BY <1>1
<1>3. f \in Seq(ValuesOf(f))
  BY <1>2
<1> QED
  BY <1>3 DEF IsList

\* What a list is as a function.
LEMMA ListParts ==
  ASSUME NEW list, IsList(list)
  PROVE  /\ DOMAIN list = 1..Len(list) /\ Len(list) \in Nat
         /\ list = [i \in DOMAIN list |-> list[i]]
BY DEF IsList
-----------------------------------------------------------------------------
(* Saving: UiAutosave *)

Requests == Autosave!Requests

\* The sizes of sets in UiAutosave are the sizes of sets.
LEMMA AutosaveCardinality ==
  \A S : Autosave!Cardinality(S) = Cardinality(S)
BY DEF Autosave!Cardinality, Cardinality, Autosave!IsFiniteSet, IsFiniteSet

Distinct(s) == \A i, j \in DOMAIN s : s[i] = s[j] => i = j

\* The sequence made from a finite set holds its elements.
LEMMA AutosaveSetToSeq ==
  ASSUME NEW S, IsFiniteSet(S)
  PROVE  LET seq == Autosave!SetToSeq(S)
         IN seq \in Seq(S) /\ ValuesOf(seq) = S
<1> DEFINE n == Cardinality(S)
           seq == Autosave!SetToSeq(S)
<1>1. n \in Nat /\ ExistsBijection(1..n, S)
  BY FS_CardinalityType
<1>2. PICK f \in [1..n -> S] :
        /\ \A i, j \in 1..n : f[i] = f[j] => i = j
        /\ \A x \in S : \E i \in 1..n : f[i] = x
  BY <1>1 DEF ExistsBijection, Bijection, Injection, Surjection, IsInjective
<1>3. seq \in [1..n -> S] /\ \A i, j \in 1..n : seq[i] = seq[j] => i = j
  <2>1. seq = CHOOSE g \in [1..n -> S] : Distinct(g)
    BY AutosaveCardinality DEF Autosave!SetToSeq, Distinct
  <2>2. Distinct(f)
    BY <1>2 DEF Distinct
  <2> HIDE DEF n, seq
  <2>3. seq \in [1..n -> S] /\ Distinct(seq)
    BY <2>1, <2>2
  <2> QED
    BY <2>3 DEF Distinct
<1>4. seq \in Injection(1..n, S)
  BY <1>3 DEF Injection, IsInjective
<1>5. IsFiniteSet(1..n) /\ Cardinality(1..n) = n
  BY <1>1, FS_Interval
<1>6. seq \in Surjection(1..n, S)
  BY <1>4, <1>5, FS_Injection
<1>7. \A x \in S : \E i \in 1..n : seq[i] = x
  BY <1>6 DEF Surjection
<1>8. seq \in Seq(S) /\ DOMAIN seq = 1..n
  BY <1>1, <1>3
<1>9. ValuesOf(seq) \subseteq S
  <2> HIDE DEF seq, n
  <2> QED
    BY <1>3, <1>8 DEF ValuesOf
<1>10. S \subseteq ValuesOf(seq)
  <2> HIDE DEF seq, n
  <2> QED
    BY <1>7, <1>8 DEF ValuesOf
<1>11. ValuesOf(seq) = S
  BY <1>9, <1>10
<1> QED
  BY <1>8, <1>11

NoneOf(s, K) == Autosave!NoneOf(s, K)
IsLastOf(s, K, i) == Autosave!IsLastOf(s, K, i)

\* What t says of s when an element that is not in K is removed.
Removed(s, t, i, K) ==
  /\ \A j \in DOMAIN t : \E k \in DOMAIN s : k # i /\ t[j] = s[k]
  /\ \A k \in DOMAIN s : k # i => \E j \in DOMAIN t : t[j] = s[k]
  /\ \A j, k \in DOMAIN t : j # k =>
       \E m, n \in DOMAIN s : m # n /\ t[j] = s[m] /\ t[k] = s[n]
  /\ NoneOf(t, K) => NoneOf(s, K)
  /\ \A j \in DOMAIN t : IsLastOf(t, K, j) =>
       \E k \in DOMAIN s : IsLastOf(s, K, k) /\ s[k] = t[j]

\* An element outside K that is removed leaves the last of K what it was.
LEMMA LastAfterRemoval ==
  ASSUME NEW S, NEW K, NEW s \in Seq(S), NEW i \in DOMAIN s, s[i] \notin K
  PROVE  /\ Autosave!RemoveAt(s, i) \in Seq(S)
         /\ Removed(s, Autosave!RemoveAt(s, i), i, K)
<1> DEFINE t == Autosave!RemoveAt(s, i)
           at(j) == IF j < i THEN j ELSE j + 1
<1>1. /\ t \in Seq(S) /\ Len(t) = Len(s) - 1
      /\ \A j \in DOMAIN t : t[j] = IF j < i THEN s[j] ELSE s[j + 1]
  BY RemovedPosition DEF Autosave!RemoveAt
<1> HIDE DEF t
<1>2. DOMAIN t = 1..(Len(s) - 1) /\ DOMAIN s = 1..Len(s) /\ Len(s) \in Nat
  BY <1>1
<1>3. \A j \in DOMAIN t : at(j) \in DOMAIN s /\ at(j) # i /\ t[j] = s[at(j)]
  BY <1>1, <1>2
<1>4. \A j, k \in DOMAIN t : (j < k <=> at(j) < at(k)) /\ (j # k => at(j) # at(k))
  BY <1>2
<1>5. \A k \in DOMAIN s : k # i => \E j \in DOMAIN t : at(j) = k
  <2>1. ASSUME NEW k \in DOMAIN s, k # i PROVE \E j \in DOMAIN t : at(j) = k
    <3>1. CASE k < i
      <4>1. k \in DOMAIN t /\ at(k) = k
        BY <3>1, <1>2
      <4> QED
        BY <4>1
    <3>2. CASE k > i
      <4>1. k - 1 \in DOMAIN t /\ at(k - 1) = k
        BY <3>2, <1>2
      <4> QED
        BY <4>1
    <3> QED
      BY <3>1, <3>2, <2>1, <1>2
  <2> QED
    BY <2>1
<1>6. \A j, k \in DOMAIN t : j # k =>
        \E m, n \in DOMAIN s : m # n /\ t[j] = s[m] /\ t[k] = s[n]
  <2> HIDE DEF at
  <2> QED
    BY <1>3, <1>4
<1>7. NoneOf(t, K) => NoneOf(s, K)
  <2> HIDE DEF at
  <2> QED
    BY <1>3, <1>5 DEF NoneOf, Autosave!NoneOf
<1>8. ASSUME NEW j \in DOMAIN t, IsLastOf(t, K, j)
      PROVE  IsLastOf(s, K, at(j)) /\ s[at(j)] = t[j]
  <2>1. at(j) \in DOMAIN s /\ s[at(j)] \in K
    BY <1>3, <1>8 DEF IsLastOf, Autosave!IsLastOf
  <2>2. ASSUME NEW k \in DOMAIN s, k > at(j) PROVE s[k] \notin K
    <3>1. CASE k = i
      BY <3>1
    <3>2. CASE k # i
      <4>1. PICK m \in DOMAIN t : at(m) = k
        BY <3>2, <1>5
      <4>2. m > j
        BY <4>1, <2>2, <1>4, <1>2
      <4>3. t[m] \notin K
        BY <4>2, <1>8 DEF IsLastOf, Autosave!IsLastOf
      <4> QED
        BY <4>1, <4>3, <1>3
    <3> QED
      BY <3>1, <3>2
  <2> QED
    BY <2>1, <2>2, <1>3 DEF IsLastOf, Autosave!IsLastOf
<1>9. \A j \in DOMAIN t : IsLastOf(t, K, j) =>
        \E k \in DOMAIN s : IsLastOf(s, K, k) /\ s[k] = t[j]
  <2> HIDE DEF at
  <2> QED
    BY <1>8, <1>3
<1>10. \A k \in DOMAIN s : k # i => \E j \in DOMAIN t : t[j] = s[k]
  <2> HIDE DEF at
  <2> QED
    BY <1>3, <1>5
<1>11. \A j \in DOMAIN t : \E k \in DOMAIN s : k # i /\ t[j] = s[k]
  <2> HIDE DEF at
  <2> QED
    BY <1>3
<1> QED
  BY <1>1, <1>6, <1>7, <1>9, <1>10, <1>11 DEF t, Removed

\* What u = s \o t says of the last element in K, V being the values of t.
LastJoined(s, u, V, K) ==
  /\ NoneOf(u, K) => NoneOf(s, K) /\ \A r \in V : r \notin K
  /\ \A j \in DOMAIN u : IsLastOf(u, K, j) =>
       \/ u[j] \in V /\ u[j] \in K
       \/ /\ \A r \in V : r \notin K
          /\ \E k \in DOMAIN s : IsLastOf(s, K, k) /\ s[k] = u[j]

\* What is sent last is the last there is of the entities it is about.
LEMMA LastAfterJoin ==
  ASSUME NEW S, NEW K, NEW s \in Seq(S), NEW t \in Seq(S)
  PROVE  LastJoined(s, s \o t, ValuesOf(t), K)
<1> DEFINE u == s \o t
<1>1. /\ DOMAIN u = 1..(Len(s) + Len(t)) /\ Len(s) \in Nat /\ Len(t) \in Nat
      /\ DOMAIN s = 1..Len(s) /\ DOMAIN t = 1..Len(t)
      /\ \A i \in DOMAIN u : u[i] = IF i <= Len(s) THEN s[i] ELSE t[i - Len(s)]
      /\ \A i \in DOMAIN s : i \in DOMAIN u /\ u[i] = s[i]
      /\ \A i \in DOMAIN t : i + Len(s) \in DOMAIN u /\ u[i + Len(s)] = t[i]
  BY JoinedPosition
<1> HIDE DEF u
<1>2. NoneOf(u, K) => NoneOf(s, K) /\ NoneOf(t, K)
  <2>1. ASSUME NoneOf(u, K) PROVE NoneOf(t, K)
    <3>1. ASSUME NEW i \in DOMAIN t PROVE t[i] \notin K
      <4>1. i + Len(s) \in DOMAIN u /\ u[i + Len(s)] = t[i]
        BY <1>1
      <4> QED
        BY <4>1, <2>1 DEF NoneOf, Autosave!NoneOf
    <3> QED
      BY <3>1 DEF NoneOf, Autosave!NoneOf
  <2> QED
    BY <2>1, <1>1 DEF NoneOf, Autosave!NoneOf
<1>3. NoneOf(t, K) <=> \A r \in ValuesOf(t) : r \notin K
  BY DEF NoneOf, Autosave!NoneOf, ValuesOf
<1>4. ASSUME NEW j \in DOMAIN u, IsLastOf(u, K, j)
      PROVE  \/ u[j] \in ValuesOf(t) /\ u[j] \in K
             \/ /\ NoneOf(t, K)
                /\ \E k \in DOMAIN s : IsLastOf(s, K, k) /\ s[k] = u[j]
  <2>1. u[j] \in K /\ \A k \in DOMAIN u : k > j => u[k] \notin K
    BY <1>4 DEF IsLastOf, Autosave!IsLastOf
  <2>2. CASE j <= Len(s)
    <3>1. j \in DOMAIN s /\ s[j] = u[j]
      BY <2>2, <1>1
    <3>2. ASSUME NEW k \in DOMAIN s, k > j PROVE s[k] \notin K
      BY <3>2, <2>1, <1>1
    <3>3. ASSUME NEW k \in DOMAIN t PROVE t[k] \notin K
      <4>1. k + Len(s) \in DOMAIN u /\ u[k + Len(s)] = t[k] /\ k + Len(s) > j
        BY <2>2, <1>1
      <4> QED
        BY <4>1, <2>1
    <3> QED
      BY <3>1, <3>2, <3>3, <2>1
      DEF IsLastOf, Autosave!IsLastOf, NoneOf, Autosave!NoneOf
  <2>3. CASE j > Len(s)
    <3>1. j - Len(s) \in DOMAIN t /\ t[j - Len(s)] = u[j]
      BY <2>3, <1>1
    <3> QED
      BY <3>1, <2>1 DEF ValuesOf
  <2> QED
    BY <2>2, <2>3, <1>1
<1> QED
  BY <1>2, <1>3, <1>4 DEF u, LastJoined

\* What t says of s when the element i is replaced by one that is not in K.
Served(s, t, i, K) ==
  /\ NoneOf(t, K) => IF s[i] \in K THEN IsLastOf(s, K, i) ELSE NoneOf(s, K)
  /\ \A j \in DOMAIN t : IsLastOf(t, K, j) => IsLastOf(s, K, j) /\ t[j] = s[j]

\* An element that turns to one outside K leaves the last of K, if it was not that.
LEMMA LastAfterServing ==
  ASSUME NEW S, NEW K, NEW s \in Seq(S), NEW i \in DOMAIN s, NEW r,
         r \notin K, s[i] \in K => \A j \in 1..(i - 1) : s[j] \notin K
  PROVE  Served(s, [s EXCEPT ![i] = r], i, K)
<1> DEFINE t == [s EXCEPT ![i] = r]
<1>1. /\ DOMAIN t = DOMAIN s /\ t[i] = r
      /\ \A j \in DOMAIN s : j # i => t[j] = s[j]
  OBVIOUS
<1>2. DOMAIN s = 1..Len(s) /\ Len(s) \in Nat
  OBVIOUS
<1> HIDE DEF t
<1> QED
  BY <1>1, <1>2 DEF t, Served, IsLastOf, Autosave!IsLastOf, NoneOf, Autosave!NoneOf

\* What Unserved contains, and which requests it leaves out.
LEMMA UnservedRequest ==
  ASSUME NEW r \in Requests, NEW o, NEW ops
  PROVE  r \in Autosave!Unserved(o, ops) <=>
           ~r.served /\ r.about = o /\ r.op \in ops
BY DEF Requests, Autosave!Unserved

\* The parts of a request.
LEMMA RequestFields ==
  ASSUME NEW r \in Requests
  PROVE  /\ r.op \in Autosave!Operations
         /\ r.about \in SavedEntities \cup {"layout"}
         /\ r.value \in 0..SavedEdits /\ r.served \in BOOLEAN
BY DEF Requests, Autosave!Requests

\* What the editors send is a request.
LEMMA MadeRequests ==
  ASSUME NEW n \in 1..SavedEdits, NEW e \in SavedEntities
  PROVE  /\ Autosave!PutEntity(e, n) \in Requests
         /\ Autosave!CreateEntity(e, n) \in Requests
         /\ Autosave!UpdateEntity(e, n) \in Requests
         /\ Autosave!RemoveEntity(e) \in Requests
         /\ Autosave!UpdateLayout(n) \in Requests
BY SavedAssumption
DEF Requests, Autosave!Requests, Autosave!Operations, Autosave!Request,
    Autosave!PutEntity, Autosave!CreateEntity, Autosave!UpdateEntity,
    Autosave!RemoveEntity, Autosave!UpdateLayout

\* The requests of a recorded edit of a diagram.
BatchValues(put, update, remove, n) ==
  {Autosave!PutEntity(e, n) : e \in put}
    \cup {Autosave!UpdateEntity(e, n) : e \in update}
    \cup {Autosave!RemoveEntity(e) : e \in remove}
    \cup {Autosave!UpdateLayout(n)}

\* A batch is a list of requests, one for each entity that it is about.
LEMMA BatchRequests ==
  ASSUME NEW put \in SUBSET SavedEntities, NEW update \in SUBSET SavedEntities,
         NEW remove \in SUBSET SavedEntities, NEW n \in 1..SavedEdits
  PROVE  /\ Autosave!Batch(put, update, remove, n) \in Seq(Requests)
         /\ ValuesOf(Autosave!Batch(put, update, remove, n))
              = BatchValues(put, update, remove, n)
<1> DEFINE Puts == {Autosave!PutEntity(e, n) : e \in put}
           Updates == {Autosave!UpdateEntity(e, n) : e \in update}
           Removes == {Autosave!RemoveEntity(e) : e \in remove}
           Layouts == {Autosave!UpdateLayout(n)}
           p == Autosave!SetToSeq(Puts)
           u == Autosave!SetToSeq(Updates)
           r == Autosave!SetToSeq(Removes)
           l == <<Autosave!UpdateLayout(n)>>
<1>1. IsFiniteSet(put) /\ IsFiniteSet(update) /\ IsFiniteSet(remove)
  BY SavedAssumption, FS_Subset
<1>2. IsFiniteSet(Puts) /\ IsFiniteSet(Updates) /\ IsFiniteSet(Removes)
  <2>1. [e \in put |-> Autosave!PutEntity(e, n)] \in Surjection(put, Puts)
    BY DEF Surjection
  <2>2. [e \in update |-> Autosave!UpdateEntity(e, n)] \in Surjection(update, Updates)
    BY DEF Surjection
  <2>3. [e \in remove |-> Autosave!RemoveEntity(e)] \in Surjection(remove, Removes)
    BY DEF Surjection
  <2> HIDE DEF Puts, Updates, Removes
  <2> QED
    BY <1>1, <2>1, <2>2, <2>3, FS_Surjection
<1>3. /\ Puts \subseteq Requests /\ Updates \subseteq Requests
      /\ Removes \subseteq Requests
  BY MadeRequests
<1>4. l \in Seq(Requests) /\ ValuesOf(l) = Layouts
  <2>1. Autosave!UpdateLayout(n) \in Requests
    BY SavedAssumption
    DEF Requests, Autosave!Requests, Autosave!Operations, Autosave!Request,
        Autosave!UpdateLayout
  <2> QED
    BY <2>1 DEF ValuesOf
<1> HIDE DEF Puts, Updates, Removes, Layouts
<1>5. /\ p \in Seq(Puts) /\ u \in Seq(Updates) /\ r \in Seq(Removes)
      /\ ValuesOf(p) = Puts /\ ValuesOf(u) = Updates /\ ValuesOf(r) = Removes
  BY <1>2, AutosaveSetToSeq
<1> HIDE DEF p, u, r, l
<1>6. p \in Seq(Requests) /\ u \in Seq(Requests) /\ r \in Seq(Requests)
  BY <1>3, <1>5, SeqMonotonic
<1> DEFINE pu == p \o u
           pur == pu \o r
           b == pur \o l
<1>7. pu \in Seq(Requests) /\ ValuesOf(pu) = Puts \cup Updates
  <2>1. p \in Seq(Requests) /\ u \in Seq(Requests)
    BY <1>6
  <2>2. p \o u \in Seq(Requests) /\ ValuesOf(p \o u) = ValuesOf(p) \cup ValuesOf(u)
    BY <2>1, JoinedValues
  <2> QED
    BY <1>5, <2>2
<1> HIDE DEF pu
<1>8. pur \in Seq(Requests) /\ ValuesOf(pur) = Puts \cup Updates \cup Removes
  <2>1. pu \in Seq(Requests) /\ r \in Seq(Requests)
    BY <1>6, <1>7
  <2>2. pu \o r \in Seq(Requests) /\ ValuesOf(pu \o r) = ValuesOf(pu) \cup ValuesOf(r)
    BY <2>1, JoinedValues
  <2> QED
    BY <1>5, <1>7, <2>2
<1> HIDE DEF pur
<1>9. /\ b \in Seq(Requests)
      /\ ValuesOf(b) = Puts \cup Updates \cup Removes \cup Layouts
  <2>1. pur \in Seq(Requests) /\ l \in Seq(Requests)
    BY <1>4, <1>8
  <2>2. pur \o l \in Seq(Requests) /\ ValuesOf(pur \o l) = ValuesOf(pur) \cup ValuesOf(l)
    BY <2>1, JoinedValues
  <2> QED
    BY <1>4, <1>8, <2>2
<1>10. b = Autosave!Batch(put, update, remove, n)
  BY DEF Autosave!Batch, p, u, r, l, pu, pur, Puts, Updates, Removes
<1> HIDE DEF b
<1> QED
  BY <1>9, <1>10 DEF Puts, Updates, Removes, Layouts, BatchValues

\* What an edit asks for, entity by entity, and what it shows at once.
Asks(V, e) ==
  \/ (\A r \in V : r.about # e) /\ s2'[e] = s2[e]
  \/ /\ \E r \in V : r.about = e
     /\ ~Autosave!Creating(e)
     /\ \A r \in V : r.about = e =>
          \/ r.op = "put" /\ s2'[e] # 0 /\ r.value = s2'[e]
          \/ r.op = "update" /\ s2[e] # 0 /\ s2'[e] # 0 /\ r.value = s2'[e]
          \/ r.op = "remove" /\ s2'[e] = 0

AsksLayout(V) ==
  \/ (\A r \in V : r.about # "layout") /\ s3' = s3
  \/ (\E r \in V : r.about = "layout") /\ \A r \in V : r.about = "layout" => r.value = s3'

\* An edit whose requests ask for what it shows.
EditedBy(b) ==
  /\ b \in Seq(Requests) /\ s4 \in Seq(Requests) /\ s4' = s4 \o b
  /\ s1' = s1 /\ s5' = s5 /\ s6' = s6 /\ s7' = s7
  /\ \A r \in ValuesOf(b) : /\ ~r.served /\ r.op # "create"
                            /\ r.op = "layout" <=> r.about = "layout"
  /\ \A e \in SavedEntities : Asks(ValuesOf(b), e)
  /\ AsksLayout(ValuesOf(b))

AllFollow ==
  /\ Autosave!CreatesAlone /\ Autosave!MembersFollow
  /\ Autosave!ValuesFollow /\ Autosave!LayoutFollows

\* Once an edit is sent, the last request for each entity has what the editor holds.
LEMMA EditFollows ==
  ASSUME NEW b, EditedBy(b), Autosave!RequestsOK, AllFollow
  PROVE  AllFollow'
<1> DEFINE V == ValuesOf(b)
<1>1. \A r \in V : /\ ~r.served /\ r.op # "create" /\ r \in Requests
                   /\ r.op = "layout" <=> r.about = "layout"
  BY DEF ValuesOf, EditedBy
<1>2. /\ \A i \in DOMAIN s4 : i \in DOMAIN s4' /\ s4'[i] = s4[i]
      /\ \A i \in DOMAIN s4' : (i \in DOMAIN s4 /\ s4'[i] = s4[i]) \/ s4'[i] \in V
  <2>1. /\ DOMAIN s4' = 1..(Len(s4) + Len(b)) /\ Len(s4) \in Nat /\ Len(b) \in Nat
        /\ DOMAIN s4 = 1..Len(s4) /\ DOMAIN b = 1..Len(b)
        /\ \A i \in DOMAIN s4' : s4'[i] = IF i <= Len(s4) THEN s4[i] ELSE b[i - Len(s4)]
    BY JoinedPosition DEF EditedBy
  <2>2. \A i \in DOMAIN s4' : \/ i \in DOMAIN s4 /\ s4'[i] = s4[i]
                              \/ i - Len(s4) \in DOMAIN b /\ s4'[i] = b[i - Len(s4)]
    BY <2>1
  <2>3. \A i \in DOMAIN s4 : i \in DOMAIN s4' /\ s4'[i] = s4[i]
    BY <2>1
  <2> QED
    BY <2>2, <2>3 DEF ValuesOf
<1> DEFINE Joined(K) == LastJoined(s4, s4', V, K)
<1>3. ASSUME NEW K PROVE Joined(K)
  <2>1. s4 \in Seq(Requests) /\ b \in Seq(Requests) /\ s4' = s4 \o b
    BY DEF EditedBy
  <2>2. LastJoined(s4, s4 \o b, ValuesOf(b), K)
    BY <2>1, LastAfterJoin
  <2> QED
    BY <2>1, <2>2
<1> HIDE DEF Joined
<1>4. \A e \in SavedEntities : Asks(V, e)
  BY DEF EditedBy
<1>5. AsksLayout(V)
  BY DEF EditedBy
<1> HIDE DEF V
<1>6. \A i \in DOMAIN s4 : s4[i] \in Requests
  BY DEF EditedBy
<1>13. s1' = s1 /\ s5' = s5 /\ s6' = s6 /\ s7' = s7
  BY DEF EditedBy
<1>7. \A e \in SavedEntities : Autosave!Creating(e)' <=> Autosave!Creating(e)
  BY <1>1, <1>2 DEF Autosave!Creating
<1>8. Autosave!CreatesAlone'
  <2> SUFFICES ASSUME NEW i \in DOMAIN s4', s4'[i].op = "create"
               PROVE  /\ s1' = "timeline" /\ s2'[s4'[i].about] = 0
                      /\ \A j \in DOMAIN s4' : s4'[j].about = s4'[i].about => j = i
                      /\ s4'[i].served =>
                           /\ s4'[i].about \in s5'
                           /\ s6'[s4'[i].about] = s4'[i].value
    BY DEF Autosave!CreatesAlone
  <2> DEFINE a == s4'[i].about
  <2>1. i \in DOMAIN s4 /\ s4'[i] = s4[i]
    BY <1>1, <1>2
  <2>2. a \in SavedEntities /\ Autosave!Creating(a)
    BY <2>1, <1>6, RequestFields DEF Autosave!Creating, Autosave!RequestsOK
  <2>3. (\A r \in V : r.about # a) /\ s2'[a] = s2[a]
    BY <2>2, <1>4 DEF Asks
  <2>4. /\ s1 = "timeline" /\ s2[a] = 0
        /\ \A j \in DOMAIN s4 : s4[j].about = a => j = i
        /\ s4[i].served => a \in s5 /\ s6[a] = s4[i].value
    BY <2>1 DEF AllFollow, Autosave!CreatesAlone
  <2>5. \A j \in DOMAIN s4' : s4'[j].about = a => j = i
    BY <2>3, <2>4, <1>2
  <2> QED
    BY <2>1, <2>3, <2>4, <2>5, <1>13
<1>9. Autosave!MembersFollow'
  <2> SUFFICES ASSUME NEW e \in SavedEntities, ~Autosave!Creating(e),
                      NEW K, K = Autosave!Unserved(e, {"put", "remove"})
               PROVE  /\ NoneOf(s4', K) => (e \in s5 <=> s2'[e] # 0)
                      /\ \A i \in DOMAIN s4' :
                           IsLastOf(s4', K, i) => (s4'[i].op = "put" <=> s2'[e] # 0)
    BY <1>7, <1>13 DEF Autosave!MembersFollow, NoneOf, IsLastOf
  <2>1. /\ NoneOf(s4, K) => (e \in s5 <=> s2[e] # 0)
        /\ \A i \in DOMAIN s4 : IsLastOf(s4, K, i) => (s4[i].op = "put" <=> s2[e] # 0)
    BY DEF AllFollow, Autosave!MembersFollow, NoneOf, IsLastOf
  <2>2. \A r \in V : r \in K <=> r.about = e /\ r.op \in {"put", "remove"}
    BY <1>1, UnservedRequest
  <2>5. Joined(K)
    BY <1>3
  <2>3. CASE \A r \in V : r \notin K
    <3>1. s2'[e] # 0 <=> s2[e] # 0
      BY <1>4, <2>2, <2>3 DEF Asks
    <3> QED
      BY <3>1, <2>1, <2>3, <2>5 DEF Joined, LastJoined
  <2>4. CASE \E r \in V : r \in K
    <3>1. \A r \in V : r \in K => (r.op = "put" <=> s2'[e] # 0)
      BY <1>4, <2>2 DEF Asks
    <3> QED
      BY <3>1, <2>4, <2>5 DEF Joined, LastJoined
  <2> QED
    BY <2>3, <2>4
<1>10. Autosave!ValuesFollow'
  <2> SUFFICES ASSUME NEW e \in SavedEntities, ~Autosave!Creating(e), s2'[e] # 0,
                      NEW K, K = Autosave!Unserved(e, {"put", "update"})
               PROVE  /\ NoneOf(s4', K) => s6[e] = s2'[e]
                      /\ \A i \in DOMAIN s4' :
                           IsLastOf(s4', K, i) => s4'[i].value = s2'[e]
    BY <1>7, <1>13 DEF Autosave!ValuesFollow, NoneOf, IsLastOf
  <2>1. s2[e] # 0 =>
          /\ NoneOf(s4, K) => s6[e] = s2[e]
          /\ \A i \in DOMAIN s4 : IsLastOf(s4, K, i) => s4[i].value = s2[e]
    BY DEF AllFollow, Autosave!ValuesFollow, NoneOf, IsLastOf
  <2>2. \A r \in V : r \in K <=> r.about = e /\ r.op \in {"put", "update"}
    BY <1>1, UnservedRequest
  <2>5. Joined(K)
    BY <1>3
  <2>3. CASE \A r \in V : r \notin K
    <3>1. s2'[e] = s2[e]
      BY <1>4, <2>2, <2>3 DEF Asks
    <3> QED
      BY <3>1, <2>1, <2>3, <2>5 DEF Joined, LastJoined
  <2>4. CASE \E r \in V : r \in K
    <3>1. \A r \in V : r \in K => r.value = s2'[e]
      BY <1>4, <2>2 DEF Asks
    <3> QED
      BY <3>1, <2>4, <2>5 DEF Joined, LastJoined
  <2> QED
    BY <2>3, <2>4
<1>11. Autosave!LayoutFollows'
  <2> DEFINE K == Autosave!Unserved("layout", {"layout"})
  <2>1. /\ NoneOf(s4, K) => s7 = s3
        /\ \A i \in DOMAIN s4 : IsLastOf(s4, K, i) => s4[i].value = s3
    BY DEF AllFollow, Autosave!LayoutFollows, NoneOf, IsLastOf
  <2>2. \A r \in V : r \in K <=> r.about = "layout"
    BY <1>1, UnservedRequest
  <2> HIDE DEF K
  <2>5. Joined(K)
    BY <1>3
  <2>3. /\ NoneOf(s4', K) => s7 = s3'
        /\ \A i \in DOMAIN s4' : IsLastOf(s4', K, i) => s4'[i].value = s3'
    <3>1. CASE \A r \in V : r \notin K
      <4>1. s3' = s3
        BY <1>5, <2>2, <3>1 DEF AsksLayout
      <4> QED
        BY <4>1, <2>1, <3>1, <2>5 DEF Joined, LastJoined
    <3>2. CASE \E r \in V : r \in K
      <4>1. \A r \in V : r \in K => r.value = s3'
        BY <1>5, <2>2 DEF AsksLayout
      <4> QED
        BY <4>1, <3>2, <2>5 DEF Joined, LastJoined
    <3> QED
      BY <3>1, <3>2
  <2> QED
    BY <2>3, <1>13 DEF K, Autosave!LayoutFollows, NoneOf, IsLastOf, Autosave!Unserved, Autosave!Requests
<1> QED
  BY <1>8, <1>9, <1>10, <1>11 DEF AllFollow

\* Requests that are sent are of the right form, and there is one to wait for.
LEMMA Sending ==
  ASSUME NEW b \in Seq(Requests), ValuesOf(b) # {}, Autosave!RequestsOK,
         s4' = s4 \o b,
         \A r \in ValuesOf(b) : /\ r.op = "layout" <=> r.about = "layout"
                                /\ r.op # "remove" => r.value # 0
  PROVE  Autosave!RequestsOK' /\ s4' # << >>
<1>1. s4 \in Seq(Requests)
  BY DEF Autosave!RequestsOK, Requests
<1>2. s4' \in Seq(Requests) /\ ValuesOf(s4') = ValuesOf(s4) \cup ValuesOf(b)
  BY <1>1, JoinedValues
<1>3. \A r \in ValuesOf(s4') : /\ r.op = "layout" <=> r.about = "layout"
                               /\ r.op # "remove" => r.value # 0
  <2>1. \A r \in ValuesOf(s4) : /\ r.op = "layout" <=> r.about = "layout"
                                /\ r.op # "remove" => r.value # 0
    BY DEF Autosave!RequestsOK, ValuesOf
  <2> QED
    BY <1>2, <2>1
<1>4. s4' # << >>
  <2>1. PICK r : r \in ValuesOf(s4')
    BY <1>2
  <2> QED
    BY <2>1 DEF ValuesOf
<1> QED
  BY <1>2, <1>3, <1>4 DEF Autosave!RequestsOK, ValuesOf, Requests

\* The invariant but for what is on the screen.
SavingTypes ==
  /\ s1 \in {"diagram", "timeline"}
  /\ s2 \in [SavedEntities -> 0..SavedEdits]
  /\ s6 \in [SavedEntities -> 0..SavedEdits]
  /\ s5 \subseteq SavedEntities
  /\ s3 \in 1..SavedEdits /\ s7 \in 1..SavedEdits /\ s10 \in 1..SavedEdits
  /\ s8 \in Autosave!Statuses \cup {"NONE"}
  /\ {s9, s11, s12} \subseteq BOOLEAN

SavingAll ==
  /\ SavingTypes /\ Autosave!RequestsOK
  /\ ~s11 /\ ~s12 => AllFollow
  /\ s8 = "IN_PROGRESS" => s4 # << >>

\* The invariant of saving, in parts.
LEMMA SavingParts == Autosave!Inv <=> SavingAll
<1>1. Autosave!RequestsOK =>
        \A i \in DOMAIN s4 :
          s4[i].op \in {"put", "create", "update", "remove", "layout"}
  BY RequestFields DEF Autosave!RequestsOK, Requests, Autosave!Operations
<1>2. SavingTypes /\ Autosave!RequestsOK <=> Autosave!TypeOK /\ Autosave!RequestsOK
  BY <1>1 DEF SavingTypes, Autosave!TypeOK
<1> QED
  BY <1>2
  DEF SavingAll, Autosave!Inv, Autosave!Follows, AllFollow, Autosave!SavingHasRequest

\* It holds when an editor opens.
LEMMA SavingInit == Autosave!Init => Autosave!Inv
<1> SUFFICES ASSUME Autosave!Init PROVE Autosave!Inv
  OBVIOUS
<1>1. SavingTypes
  <2>1. 0 \in 0..SavedEdits /\ 1 \in 0..SavedEdits /\ 1 \in 1..SavedEdits
    BY SavedAssumption
  <2>2. PICK e \in SavedEntities :
          s2 = [f \in SavedEntities |-> IF f = e THEN 1 ELSE 0]
    BY DEF Autosave!Init
  <2>3. s2 \in [SavedEntities -> 0..SavedEdits]
    BY <2>1, <2>2
  <2> QED
    BY <2>1, <2>3 DEF SavingTypes, Autosave!Init, Autosave!Statuses
<1>2. Autosave!RequestsOK
  BY DEF Autosave!Init, Autosave!RequestsOK
<1>3. AllFollow
  BY DEF AllFollow, Autosave!Init, Autosave!CreatesAlone, Autosave!MembersFollow,
         Autosave!ValuesFollow, Autosave!LayoutFollows, Autosave!IsLastOf
<1>4. s8 # "IN_PROGRESS"
  BY DEF Autosave!Init
<1> QED
  BY <1>1, <1>2, <1>3, <1>4, SavingParts DEF SavingAll

\* A step that sends requests.
SendsWell(b) ==
  /\ Autosave!Send(b) /\ Autosave!CanEdit
  /\ b \in Seq(Requests) /\ ValuesOf(b) # {}
  /\ \A r \in ValuesOf(b) : /\ r.op = "layout" <=> r.about = "layout"
                            /\ r.op # "remove" => r.value # 0
  /\ s2' \in [SavedEntities -> 0..SavedEdits] /\ s3' \in 1..SavedEdits
  /\ UNCHANGED <<s1, s5, s6, s7, s9, s11, s12>>

\* An edit that sends what it changes preserves it.
LEMMA SavingSend ==
  ASSUME NEW b, SendsWell(b), Autosave!Inv, ~s11 /\ ~s12 => AllFollow'
  PROVE  Autosave!Inv'
<1>1. SavingTypes /\ Autosave!RequestsOK
  BY SavingParts DEF SavingAll
<1>2. SavingTypes'
  <2>1. s10' = s10 + 1 /\ s10 < SavedEdits /\ s8' = "IN_PROGRESS"
    BY DEF SendsWell, Autosave!Send, Autosave!CanEdit
  <2>2. s10' \in 1..SavedEdits
    BY <1>1, <2>1, SavedAssumption DEF SavingTypes
  <2> QED
    BY <1>1, <2>1, <2>2 DEF SavingTypes, SendsWell, Autosave!Statuses
<1>3. Autosave!RequestsOK' /\ s4' # << >>
  BY <1>1, Sending DEF SendsWell, Autosave!Send
<1>4. ~s11' /\ ~s12' => AllFollow'
  BY DEF SendsWell
<1>5. Autosave!Inv' <=> SavingAll'
  BY SavingParts, PTL
<1> QED
  BY <1>2, <1>3, <1>4, <1>5 DEF SavingAll

\* So does an edit of a diagram, also one that undo replays.
LEMMA DiagramEdited ==
  ASSUME NEW put \in SUBSET SavedEntities, NEW update \in SUBSET SavedEntities,
         NEW remove \in SUBSET SavedEntities,
         update = {} \/ (put = {} /\ remove = {}),
         Autosave!EditDiagram(put, update, remove), Autosave!Inv
  PROVE  Autosave!Inv'
<1> DEFINE n == s10 + 1
           b == Autosave!Batch(put, update, remove, n)
           V == ValuesOf(b)
<1>1. SavingTypes /\ Autosave!RequestsOK
  BY SavingParts DEF SavingAll
<1>2. /\ s1 = "diagram" /\ Autosave!CanEdit
      /\ \A e \in put : s2[e] = 0
      /\ \A e \in update \cup remove : s2[e] # 0
      /\ s2' = [e \in SavedEntities |->
                  IF e \in put \cup update THEN n
                  ELSE IF e \in remove THEN 0 ELSE s2[e]]
      /\ s3' = n /\ Autosave!Send(b)
      /\ UNCHANGED <<s1, s5, s6, s7, s9, s11, s12>>
  BY DEF Autosave!EditDiagram
<1>3. n \in 1..SavedEdits /\ n # 0
  BY <1>1, <1>2, SavedAssumption DEF SavingTypes, Autosave!CanEdit
<1>4. /\ b \in Seq(Requests)
      /\ V = BatchValues(put, update, remove, n)
  <2> HIDE DEF n
  <2> QED
    BY <1>3, BatchRequests
<1> HIDE DEF n, b
<1> HIDE DEF V
<1>5. \A r \in V :
        \/ \E e \in put : /\ r.op = "put" /\ r.about = e /\ r.value = n /\ ~r.served
        \/ \E e \in update : /\ r.op = "update" /\ r.about = e /\ r.value = n
                             /\ ~r.served
        \/ \E e \in remove : /\ r.op = "remove" /\ r.about = e /\ ~r.served
        \/ r.op = "layout" /\ r.about = "layout" /\ r.value = n /\ ~r.served
  BY <1>4 DEF BatchValues, Autosave!PutEntity, Autosave!UpdateEntity,
              Autosave!RemoveEntity, Autosave!UpdateLayout, Autosave!Request
<1>6. ASSUME NEW e \in put \cup update \cup remove PROVE \E r \in V : r.about = e
  <2>1. \/ Autosave!PutEntity(e, n) \in V \/ Autosave!UpdateEntity(e, n) \in V
        \/ Autosave!RemoveEntity(e) \in V
    BY <1>4 DEF BatchValues
  <2>2. /\ Autosave!PutEntity(e, n).about = e /\ Autosave!UpdateEntity(e, n).about = e
        /\ Autosave!RemoveEntity(e).about = e
    BY DEF Autosave!PutEntity, Autosave!UpdateEntity, Autosave!RemoveEntity,
           Autosave!Request
  <2> QED
    BY <2>1, <2>2
<1>7. \E r \in V : r.about = "layout"
  <2>1. Autosave!UpdateLayout(n) \in V
    BY <1>4 DEF BatchValues
  <2>2. Autosave!UpdateLayout(n).about = "layout"
    BY DEF Autosave!UpdateLayout, Autosave!Request
  <2> QED
    BY <2>1, <2>2
<1>8. "layout" \notin SavedEntities
  BY SavedAssumption
<1>9. \A r \in V : /\ ~r.served /\ r.op # "create"
                   /\ r.op = "layout" <=> r.about = "layout"
                   /\ r.op # "remove" => r.value # 0
  BY <1>3, <1>5, <1>8
<1>10. s2' \in [SavedEntities -> 0..SavedEdits]
  BY <1>1, <1>2, <1>3, SavedAssumption DEF SavingTypes
<1>11. SendsWell(b)
  BY <1>2, <1>3, <1>4, <1>7, <1>9, <1>10 DEF SendsWell, V
<1>12. ASSUME AllFollow PROVE AllFollow'
  <2>1. \A e \in SavedEntities : ~Autosave!Creating(e)
    BY <1>2, <1>12 DEF AllFollow, Autosave!CreatesAlone, Autosave!Creating
  <2>2. ASSUME NEW e \in SavedEntities PROVE Asks(V, e)
    <3>1. CASE e \in put
      <4>1. e \notin update /\ e \notin remove /\ s2'[e] = n
        BY <3>1, <1>2
      <4>2. \A r \in V : r.about = e => r.op = "put" /\ r.value = n
        BY <4>1, <1>5, <1>8
      <4> QED
        BY <3>1, <4>1, <4>2, <2>1, <1>3, <1>6 DEF Asks
    <3>2. CASE e \in update
      <4>1. e \notin put /\ e \notin remove /\ s2'[e] = n /\ s2[e] # 0
        BY <3>2, <1>2
      <4>2. \A r \in V : r.about = e => r.op = "update" /\ r.value = n
        BY <4>1, <1>5, <1>8
      <4> QED
        BY <3>2, <4>1, <4>2, <2>1, <1>3, <1>6 DEF Asks
    <3>3. CASE e \in remove
      <4>1. e \notin put /\ e \notin update /\ s2'[e] = 0
        BY <3>3, <1>2
      <4>2. \A r \in V : r.about = e => r.op = "remove"
        BY <4>1, <1>5, <1>8
      <4> QED
        BY <3>3, <4>1, <4>2, <2>1, <1>6 DEF Asks
    <3>4. CASE e \notin put \cup update \cup remove
      <4>1. s2'[e] = s2[e] /\ \A r \in V : r.about # e
        BY <3>4, <1>2, <1>5, <1>8
      <4> QED
        BY <4>1 DEF Asks
    <3> QED
      BY <3>1, <3>2, <3>3, <3>4
  <2>3. AsksLayout(V)
    <3>1. \A r \in V : r.about = "layout" => r.value = s3'
      BY <1>2, <1>5, <1>8
    <3> QED
      BY <3>1, <1>7 DEF AsksLayout
  <2>4. EditedBy(b)
    <3>1. s4 \in Seq(Requests) /\ s4' = s4 \o b
      BY <1>1, <1>2 DEF Autosave!RequestsOK, Requests, Autosave!Send
    <3> QED
      BY <3>1, <1>2, <1>4, <1>9, <2>2, <2>3 DEF EditedBy, V
  <2> QED
    BY <1>1, <1>12, <2>4, EditFollows
<1>13. ~s11 /\ ~s12 => AllFollow'
  BY <1>12, SavingParts DEF SavingAll
<1> QED
  BY <1>11, <1>13, SavingSend

\* One request about one entity or about the layout.
SentAlone(r) ==
  LET e == r.about
  IN \/ /\ r.about \in SavedEntities
        /\ s3' = s3 /\ \A f \in SavedEntities \ {e} : s2'[f] = s2[f]
        /\ \/ r.op = "put" /\ s2'[e] # 0 /\ r.value = s2'[e]
           \/ r.op = "remove" /\ s2'[e] = 0
        /\ s1 = "diagram" \/ s2[e] # 0
     \/ /\ r.about = "layout" /\ r.op = "layout" /\ r.value = s3'
        /\ r.value # 0 /\ s2' = s2

\* An edit that is one request preserves it.
LEMMA OneEdited ==
  ASSUME NEW r \in Requests, ~r.served, SentAlone(r), Autosave!Inv,
         Autosave!Send(<<r>>), Autosave!CanEdit,
         s2' \in [SavedEntities -> 0..SavedEdits], s3' \in 1..SavedEdits,
         UNCHANGED <<s1, s5, s6, s7, s9, s11, s12>>
  PROVE  Autosave!Inv'
<1>1. SavingTypes /\ Autosave!RequestsOK
  BY SavingParts DEF SavingAll
<1> DEFINE b == <<r>>
<1>2. b \in Seq(Requests) /\ ValuesOf(b) = {r}
  BY DEF ValuesOf
<1>3. "layout" \notin SavedEntities
  BY SavedAssumption
<1>4. /\ r.op \in {"put", "remove", "layout"}
      /\ r.op = "layout" <=> r.about = "layout"
      /\ r.op # "remove" => r.value # 0
  BY <1>3 DEF SentAlone
<1> HIDE DEF b
<1>5. SendsWell(b)
  BY <1>2, <1>4 DEF SendsWell, b
<1>6. ASSUME AllFollow PROVE AllFollow'
  <2>1. \A e \in SavedEntities :
          Autosave!Creating(e) => s1 = "timeline" /\ s2[e] = 0
    BY <1>6 DEF AllFollow, Autosave!CreatesAlone, Autosave!Creating
  <2>2. \A e \in SavedEntities : Asks({r}, e)
    BY <1>3, <2>1 DEF Asks, SentAlone
  <2>3. AsksLayout({r})
    BY <1>3 DEF AsksLayout, SentAlone
  <2>4. EditedBy(b)
    <3>1. s4 \in Seq(Requests) /\ s4' = s4 \o b
      BY <1>1 DEF Autosave!RequestsOK, Requests, Autosave!Send, b
    <3>2. \A q \in ValuesOf(b) : /\ ~q.served /\ q.op # "create"
                                 /\ q.op = "layout" <=> q.about = "layout"
      BY <1>2, <1>4
    <3> QED
      BY <3>1, <3>2, <1>2, <2>2, <2>3 DEF EditedBy
  <2> QED
    BY <1>1, <1>6, <2>4, EditFollows
<1> QED
  BY <1>5, <1>6, SavingParts, SavingSend DEF SavingAll

\* The number of the next edit is a number.
LEMMA SavingNumbers ==
  ASSUME Autosave!Inv, Autosave!CanEdit
  PROVE  s10 + 1 \in 1..SavedEdits /\ s10 + 1 # 0
BY SavingParts, SavedAssumption DEF SavingAll, SavingTypes, Autosave!CanEdit

\* Creating what a property refers to preserves it.
LEMMA ReferencedCreated ==
  ASSUME NEW e \in SavedEntities, Autosave!CreateReferenced(e), Autosave!Inv
  PROVE  Autosave!Inv'
<1> DEFINE r == Autosave!PutEntity(e, s10 + 1)
<1>1. SavingTypes /\ s10 + 1 \in 1..SavedEdits /\ s10 + 1 # 0
  BY SavingParts, SavingNumbers DEF SavingAll, Autosave!CreateReferenced
<1>2. r \in Requests /\ ~r.served /\ r.op = "put" /\ r.about = e /\ r.value = s10 + 1
  BY <1>1, MadeRequests DEF Autosave!PutEntity, Autosave!Request
<1>3. /\ s2' = [s2 EXCEPT ![e] = s10 + 1] /\ s1 = "diagram"
      /\ Autosave!Send(<<r>>) /\ Autosave!CanEdit
      /\ UNCHANGED <<s1, s3, s5, s6, s7, s9, s11, s12>>
  BY DEF Autosave!CreateReferenced
<1> HIDE DEF r
<1>4. s2' \in [SavedEntities -> 0..SavedEdits] /\ s3' \in 1..SavedEdits
  BY <1>1, <1>3 DEF SavingTypes
<1>5. SentAlone(r)
  BY <1>1, <1>2, <1>3 DEF SavingTypes, SentAlone
<1> QED
  BY <1>2, <1>3, <1>4, <1>5, OneEdited

\* Changing an item of a timeline preserves it.
LEMMA ItemChanged ==
  ASSUME NEW e \in SavedEntities, Autosave!ChangeItem(e), Autosave!Inv
  PROVE  Autosave!Inv'
<1>1. SavingTypes /\ s10 + 1 \in 1..SavedEdits /\ s10 + 1 # 0
  BY SavingParts, SavingNumbers DEF SavingAll, Autosave!ChangeItem
<1>2. /\ s2[e] # 0 /\ Autosave!CanEdit
      /\ UNCHANGED <<s1, s3, s5, s6, s7, s9, s11, s12>>
  BY DEF Autosave!ChangeItem
<1>3. CASE /\ s2' = [s2 EXCEPT ![e] = s10 + 1]
           /\ Autosave!Send(<<Autosave!PutEntity(e, s10 + 1)>>)
  <2> DEFINE r == Autosave!PutEntity(e, s10 + 1)
  <2>1. /\ r \in Requests /\ ~r.served /\ r.op = "put" /\ r.about = e
        /\ r.value = s10 + 1 /\ Autosave!Send(<<r>>)
    BY <1>1, <1>3, MadeRequests DEF Autosave!PutEntity, Autosave!Request
  <2> HIDE DEF r
  <2>2. s2' \in [SavedEntities -> 0..SavedEdits] /\ s3' \in 1..SavedEdits
    BY <1>1, <1>2, <1>3 DEF SavingTypes
  <2>3. SentAlone(r)
    BY <1>1, <1>2, <1>3, <2>1 DEF SavingTypes, SentAlone
  <2> QED
    BY <1>2, <2>1, <2>2, <2>3, OneEdited
<1>4. CASE /\ s2' = [s2 EXCEPT ![e] = 0]
           /\ Autosave!Send(<<Autosave!RemoveEntity(e)>>)
  <2> DEFINE r == Autosave!RemoveEntity(e)
  <2>1. /\ r \in Requests /\ ~r.served /\ r.op = "remove" /\ r.about = e
        /\ Autosave!Send(<<r>>)
    BY <1>1, <1>4, MadeRequests DEF Autosave!RemoveEntity, Autosave!Request
  <2> HIDE DEF r
  <2>2. s2' \in [SavedEntities -> 0..SavedEdits] /\ s3' \in 1..SavedEdits
    BY <1>1, <1>2, <1>4, SavedAssumption DEF SavingTypes
  <2>3. SentAlone(r)
    BY <1>1, <1>2, <1>4, <2>1 DEF SavingTypes, SentAlone
  <2> QED
    BY <1>2, <2>1, <2>2, <2>3, OneEdited
<1> QED
  BY <1>3, <1>4 DEF Autosave!ChangeItem

\* Moving a vertex preserves it.
LEMMA VertexChanged ==
  ASSUME Autosave!ChangeVertex, Autosave!Inv
  PROVE  Autosave!Inv'
<1> DEFINE r == Autosave!UpdateLayout(s10 + 1)
<1>1. SavingTypes /\ s10 + 1 \in 1..SavedEdits /\ s10 + 1 # 0
  BY SavingParts, SavingNumbers DEF SavingAll, Autosave!ChangeVertex
<1>2. /\ r \in Requests /\ ~r.served /\ r.op = "layout" /\ r.about = "layout"
      /\ r.value = s10 + 1
  BY <1>1
  DEF Requests, Autosave!Requests, Autosave!Operations, Autosave!Request,
      Autosave!UpdateLayout
<1>3. /\ s3' = s10 + 1 /\ Autosave!Send(<<r>>) /\ Autosave!CanEdit
      /\ UNCHANGED <<s1, s2, s5, s6, s7, s9, s11, s12>>
  BY DEF Autosave!ChangeVertex
<1> HIDE DEF r
<1>4. s2' \in [SavedEntities -> 0..SavedEdits] /\ s3' \in 1..SavedEdits
  BY <1>1, <1>3 DEF SavingTypes
<1>5. SentAlone(r)
  BY <1>1, <1>2, <1>3 DEF SentAlone
<1> QED
  BY <1>2, <1>3, <1>4, <1>5, OneEdited

\* Creating an item of a timeline preserves it.
LEMMA ItemCreated ==
  ASSUME NEW e \in SavedEntities, Autosave!CreateItem(e), Autosave!Inv
  PROVE  Autosave!Inv'
<1> DEFINE r == Autosave!CreateEntity(e, s10 + 1)
           b == <<r>>
<1>1. /\ SavingTypes /\ Autosave!RequestsOK
      /\ ~s11 /\ ~s12 => AllFollow
      /\ s10 + 1 \in 1..SavedEdits /\ s10 + 1 # 0
  BY SavingParts, SavingNumbers DEF SavingAll, Autosave!CreateItem
<1>2. /\ r \in Requests /\ ~r.served /\ r.op = "create" /\ r.about = e
      /\ r.value = s10 + 1
  BY <1>1, MadeRequests DEF Autosave!CreateEntity, Autosave!Request
<1>3. b \in Seq(Requests) /\ ValuesOf(b) = {r} /\ Len(b) = 1 /\ b[1] = r
  <2> HIDE DEF r
  <2> QED
    BY <1>2 DEF ValuesOf
<1>4. /\ s1 = "timeline" /\ s2[e] = 0 /\ Autosave!Send(b) /\ Autosave!CanEdit
      /\ ~\E i \in DOMAIN s4 : s4[i].about = e
      /\ UNCHANGED <<s1, s2, s3, s5, s6, s7, s9, s11, s12>>
  BY DEF Autosave!CreateItem
<1> HIDE DEF r
<1> HIDE DEF b
<1>5. SendsWell(b)
  <2>1. e # "layout"
    BY SavedAssumption
  <2>2. s2' \in [SavedEntities -> 0..SavedEdits] /\ s3' \in 1..SavedEdits
    BY <1>1, <1>4 DEF SavingTypes
  <2> QED
    BY <1>1, <1>2, <1>3, <1>4, <2>1, <2>2 DEF SendsWell
<1>6. ASSUME AllFollow PROVE AllFollow'
  <2>1. s4 \in Seq(Requests) /\ s4' = s4 \o b
    BY <1>1, <1>4 DEF Autosave!RequestsOK, Requests, Autosave!Send
  <2> DEFINE n == Len(s4) + 1
  <2>2. /\ DOMAIN s4' = 1..n /\ DOMAIN s4 = 1..(n - 1) /\ n \in Nat \ {0}
        /\ \A i \in DOMAIN s4 : i \in DOMAIN s4' /\ s4'[i] = s4[i]
        /\ n \in DOMAIN s4' /\ s4'[n] = r
    <3>1. /\ Len(s4) \in Nat /\ DOMAIN s4 = 1..Len(s4)
          /\ DOMAIN s4' = 1..(Len(s4) + Len(b))
          /\ \A i \in DOMAIN s4' : s4'[i] = IF i <= Len(s4) THEN s4[i] ELSE b[i - Len(s4)]
      <4>1. s4 \in Seq(Requests) /\ b \in Seq(Requests)
        BY <1>3, <2>1
      <4>2. /\ DOMAIN (s4 \o b) = 1..(Len(s4) + Len(b))
            /\ \A i \in DOMAIN (s4 \o b) :
                 (s4 \o b)[i] = IF i <= Len(s4) THEN s4[i] ELSE b[i - Len(s4)]
        BY <4>1, JoinedPosition
      <4> QED
        BY <2>1, <4>2
    <3> QED
      BY <1>3, <3>1
  <2> HIDE DEF n
  <2>3. \A i \in DOMAIN s4' : (i \in DOMAIN s4 /\ s4'[i] = s4[i]) \/ i = n
    BY <2>2
  <2>4. \A f \in SavedEntities : Autosave!Creating(f) => Autosave!Creating(f)'
    BY <2>2 DEF Autosave!Creating
  <2>5. ASSUME NEW K, \A q \in K : q.op # "create"
        PROVE  /\ NoneOf(s4', K) => NoneOf(s4, K)
               /\ \A j \in DOMAIN s4' : IsLastOf(s4', K, j) =>
                    \E k \in DOMAIN s4 : IsLastOf(s4, K, k) /\ s4[k] = s4'[j]
    <3>1. LastJoined(s4, s4 \o b, ValuesOf(b), K)
      BY <1>3, <2>1, LastAfterJoin
    <3>2. LastJoined(s4, s4', ValuesOf(b), K)
      BY <2>1, <3>1
    <3>3. \A q \in ValuesOf(b) : q \notin K
      BY <1>2, <1>3, <2>5
    <3> QED
      BY <3>2, <3>3 DEF LastJoined
  <2>6. \A o, ops : "create" \notin ops =>
          \A q \in Autosave!Unserved(o, ops) : q.op # "create"
    BY DEF Autosave!Unserved
  <2>7. Autosave!CreatesAlone'
    <3>1. Autosave!CreatesAlone
      BY <1>6 DEF AllFollow
    <3> SUFFICES ASSUME NEW i \in DOMAIN s4', s4'[i].op = "create"
                 PROVE  /\ s1' = "timeline" /\ s2'[s4'[i].about] = 0
                        /\ \A j \in DOMAIN s4' : s4'[j].about = s4'[i].about => j = i
                        /\ s4'[i].served =>
                             /\ s4'[i].about \in s5'
                             /\ s6'[s4'[i].about] = s4'[i].value
      BY DEF Autosave!CreatesAlone
    <3>2. CASE i = n
      BY <3>2, <1>2, <1>4, <2>2, <2>3
    <3>3. CASE i \in DOMAIN s4 /\ s4'[i] = s4[i]
      <4>1. s4[i].about # e
        BY <3>3, <1>4
      <4>2. /\ s2[s4[i].about] = 0
            /\ \A j \in DOMAIN s4 : s4[j].about = s4[i].about => j = i
            /\ s4[i].served =>
                 s4[i].about \in s5 /\ s6[s4[i].about] = s4[i].value
        BY <3>1, <3>3 DEF Autosave!CreatesAlone
      <4> QED
        BY <3>3, <4>1, <4>2, <1>2, <1>4, <2>2, <2>3
    <3> QED
      BY <3>2, <3>3, <2>3
  <2>8. Autosave!MembersFollow'
    <3>1. Autosave!MembersFollow
      BY <1>6 DEF AllFollow
    <3> SUFFICES ASSUME NEW f \in SavedEntities, ~Autosave!Creating(f)',
                        NEW K, K = Autosave!Unserved(f, {"put", "remove"})
                 PROVE  /\ NoneOf(s4', K) => (f \in s5' <=> s2'[f] # 0)
                        /\ \A i \in DOMAIN s4' :
                             IsLastOf(s4', K, i) => (s4'[i].op = "put" <=> s2'[f] # 0)
      BY DEF Autosave!MembersFollow, NoneOf, IsLastOf
    <3>2. /\ NoneOf(s4, K) => (f \in s5 <=> s2[f] # 0)
          /\ \A i \in DOMAIN s4 : IsLastOf(s4, K, i) => (s4[i].op = "put" <=> s2[f] # 0)
      BY <2>4, <3>1 DEF Autosave!MembersFollow, NoneOf, IsLastOf
    <3>3. \A q \in K : q.op # "create"
      BY <2>6
    <3>4. /\ NoneOf(s4', K) => NoneOf(s4, K)
          /\ \A j \in DOMAIN s4' : IsLastOf(s4', K, j) =>
               \E k \in DOMAIN s4 : IsLastOf(s4, K, k) /\ s4[k] = s4'[j]
      BY <2>5, <3>3
    <3> QED
      BY <1>4, <3>2, <3>4
  <2>9. Autosave!ValuesFollow'
    <3>1. Autosave!ValuesFollow
      BY <1>6 DEF AllFollow
    <3> SUFFICES ASSUME NEW f \in SavedEntities, ~Autosave!Creating(f)', s2'[f] # 0,
                        NEW K, K = Autosave!Unserved(f, {"put", "update"})
                 PROVE  /\ NoneOf(s4', K) => s6'[f] = s2'[f]
                        /\ \A i \in DOMAIN s4' :
                             IsLastOf(s4', K, i) => s4'[i].value = s2'[f]
      BY DEF Autosave!ValuesFollow, NoneOf, IsLastOf
    <3>2. /\ NoneOf(s4, K) => s6[f] = s2[f]
          /\ \A i \in DOMAIN s4 : IsLastOf(s4, K, i) => s4[i].value = s2[f]
      BY <1>4, <2>4, <3>1 DEF Autosave!ValuesFollow, NoneOf, IsLastOf
    <3>3. \A q \in K : q.op # "create"
      BY <2>6
    <3>4. /\ NoneOf(s4', K) => NoneOf(s4, K)
          /\ \A j \in DOMAIN s4' : IsLastOf(s4', K, j) =>
               \E k \in DOMAIN s4 : IsLastOf(s4, K, k) /\ s4[k] = s4'[j]
      BY <2>5, <3>3
    <3> QED
      BY <1>4, <3>2, <3>4
  <2>10. Autosave!LayoutFollows'
    <3> DEFINE K == Autosave!Unserved("layout", {"layout"})
    <3>1. /\ NoneOf(s4, K) => s7 = s3
          /\ \A i \in DOMAIN s4 : IsLastOf(s4, K, i) => s4[i].value = s3
      BY <1>6 DEF AllFollow, Autosave!LayoutFollows, NoneOf, IsLastOf
    <3>2. \A q \in K : q.op # "create"
      BY <2>6
    <3> HIDE DEF K
    <3>3. /\ NoneOf(s4', K) => NoneOf(s4, K)
          /\ \A j \in DOMAIN s4' : IsLastOf(s4', K, j) =>
               \E k \in DOMAIN s4 : IsLastOf(s4, K, k) /\ s4[k] = s4'[j]
      BY <2>5, <3>2
    <3>4. /\ NoneOf(s4', K) => s7' = s3'
          /\ \A i \in DOMAIN s4' : IsLastOf(s4', K, i) => s4'[i].value = s3'
      BY <1>4, <3>1, <3>3
    <3> QED
      BY <3>4 DEF K, Autosave!LayoutFollows, NoneOf, IsLastOf,
                  Autosave!Unserved, Autosave!Requests
  <2> QED
    BY <2>7, <2>8, <2>9, <2>10 DEF AllFollow
<1>7. ~s11 /\ ~s12 => AllFollow'
  BY <1>1, <1>6
<1> QED
  BY <1>5, <1>7, SavingSend

\* Serving one request.
LEMMA RequestServed ==
  ASSUME NEW i \in DOMAIN s4, Autosave!Serve(i), Autosave!Inv
  PROVE  Autosave!Inv'
<1> DEFINE r == s4[i]
           q == [r EXCEPT !.served = TRUE]
<1>1. /\ SavingTypes /\ Autosave!RequestsOK
      /\ ~s11 /\ ~s12 => AllFollow
      /\ s8 = "IN_PROGRESS" => s4 # << >>
  BY SavingParts DEF SavingAll
<1>2. /\ ~r.served
      /\ s4' = [s4 EXCEPT ![i].served = TRUE]
      /\ s5' = CASE r.op \in {"put", "create"} -> s5 \cup {r.about}
                 [] r.op = "remove" -> s5 \ {r.about}
                 [] OTHER -> s5
      /\ s6' = IF r.op \in {"put", "create", "update"}
               THEN [s6 EXCEPT ![r.about] = r.value] ELSE s6
      /\ s7' = IF r.op = "layout" THEN r.value ELSE s7
      /\ s12' = (s12 \/ \E j \in 1..(i - 1) : ~s4[j].served /\ s4[j].about = r.about)
      /\ UNCHANGED <<s1, s2, s3, s8, s9, s10, s11>>
  BY DEF Autosave!Serve
<1>3. /\ s4 \in Seq(Requests) /\ \A j \in DOMAIN s4 : s4[j] \in Requests
      /\ \A j \in DOMAIN s4 : /\ s4[j].op = "layout" <=> s4[j].about = "layout"
                              /\ s4[j].op # "remove" => s4[j].value # 0
  BY <1>1 DEF Autosave!RequestsOK, Requests
<1>4. /\ q \in Requests /\ q.served
      /\ q.op = r.op /\ q.about = r.about /\ q.value = r.value
  BY <1>3 DEF Requests, Autosave!Requests
<1>5. /\ s4' = [s4 EXCEPT ![i] = q]
      /\ DOMAIN s4' = DOMAIN s4 /\ s4'[i] = q
      /\ \A j \in DOMAIN s4 : j # i => s4'[j] = s4[j]
  BY <1>2, <1>3
<1>6. r.about \in SavedEntities \cup {"layout"} /\ r.value \in 0..SavedEdits
      /\ r.op \in Autosave!Operations
  BY <1>3, RequestFields
<1> HIDE DEF q
<1>7. /\ \A j \in DOMAIN s4 :
           /\ s4'[j].op = s4[j].op /\ s4'[j].about = s4[j].about
           /\ s4'[j].value = s4[j].value
      /\ s4' \in Seq(Requests)
  BY <1>3, <1>4, <1>5
<1>8. SavingTypes'
  <2>1. r.op # "layout" => r.about \in SavedEntities
    BY <1>3, <1>6
  <2>2. s5' \subseteq SavedEntities
    BY <1>1, <1>2, <2>1 DEF SavingTypes
  <2>3. s6' \in [SavedEntities -> 0..SavedEdits]
    BY <1>1, <1>2, <1>6, <2>1 DEF SavingTypes
  <2>4. s7' \in 1..SavedEdits
    <3>1. r.op = "layout" => r.value \in 1..SavedEdits
      BY <1>3, <1>6, SavedAssumption
    <3> QED
      BY <1>1, <1>2, <3>1 DEF SavingTypes
  <2>5. s12' \in BOOLEAN
    BY <1>1, <1>2 DEF SavingTypes
  <2> QED
    BY <1>1, <1>2, <2>2, <2>3, <2>4, <2>5 DEF SavingTypes
<1>9. Autosave!RequestsOK'
  BY <1>3, <1>5, <1>7 DEF Autosave!RequestsOK, Requests
<1>10. s8' = "IN_PROGRESS" => s4' # << >>
  BY <1>5
<1>11. ASSUME AllFollow, ~s12' PROVE AllFollow'
  <2> DEFINE After(K) == Served(s4, s4', i, K)
  <2>1. ASSUME NEW o, NEW ops PROVE After(Autosave!Unserved(o, ops))
    <3> DEFINE K == Autosave!Unserved(o, ops)
    <3>1. q \notin K
      BY <1>4 DEF Autosave!Unserved
    <3>2. s4[i] \in K => \A j \in 1..(i - 1) : s4[j] \notin K
      BY <1>2, <1>11 DEF Autosave!Unserved
    <3> HIDE DEF K
    <3>3. Served(s4, [s4 EXCEPT ![i] = q], i, K)
      BY <1>3, <3>1, <3>2, LastAfterServing
    <3> QED
      BY <1>5, <3>3 DEF K
  <2> HIDE DEF After
  <2>2. \A e \in SavedEntities : Autosave!Creating(e)' <=> Autosave!Creating(e)
    BY <1>5, <1>7 DEF Autosave!Creating
  <2>3. Autosave!CreatesAlone'
    <3>1. Autosave!CreatesAlone
      BY <1>11 DEF AllFollow
    <3> SUFFICES ASSUME NEW j \in DOMAIN s4, s4[j].op = "create"
                 PROVE  /\ s1' = "timeline" /\ s2'[s4[j].about] = 0
                        /\ \A k \in DOMAIN s4 : s4[k].about = s4[j].about => k = j
                        /\ s4'[j].served =>
                             s4[j].about \in s5' /\ s6'[s4[j].about] = s4[j].value
      BY <1>5, <1>7 DEF Autosave!CreatesAlone
    <3>2. /\ s1 = "timeline" /\ s2[s4[j].about] = 0
          /\ \A k \in DOMAIN s4 : s4[k].about = s4[j].about => k = j
          /\ s4[j].served =>
               s4[j].about \in s5 /\ s6[s4[j].about] = s4[j].value
      BY <3>1 DEF Autosave!CreatesAlone
    <3>3. s4[j].about \in SavedEntities
      BY <1>3, RequestFields
    <3>4. CASE j = i
      BY <1>1, <1>2, <3>2, <3>3, <3>4 DEF SavingTypes
    <3>5. CASE j # i
      <4>1. s4'[j] = s4[j] /\ s4[j].about # r.about
        BY <1>5, <3>2, <3>5
      <4> QED
        BY <1>1, <1>2, <3>2, <3>3, <4>1 DEF SavingTypes
    <3> QED
      BY <3>4, <3>5
  <2>4. Autosave!MembersFollow'
    <3>1. Autosave!MembersFollow
      BY <1>11 DEF AllFollow
    <3> SUFFICES ASSUME NEW e \in SavedEntities, ~Autosave!Creating(e),
                        NEW K, K = Autosave!Unserved(e, {"put", "remove"})
                 PROVE  /\ NoneOf(s4', K) => (e \in s5' <=> s2'[e] # 0)
                        /\ \A j \in DOMAIN s4' :
                             IsLastOf(s4', K, j) => (s4'[j].op = "put" <=> s2'[e] # 0)
      BY <2>2 DEF Autosave!MembersFollow, NoneOf, IsLastOf
    <3>2. /\ NoneOf(s4, K) => (e \in s5 <=> s2[e] # 0)
          /\ \A j \in DOMAIN s4 : IsLastOf(s4, K, j) => (s4[j].op = "put" <=> s2[e] # 0)
      BY <3>1 DEF Autosave!MembersFollow, NoneOf, IsLastOf
    <3>3. Served(s4, s4', i, K)
      BY <2>1 DEF After
    <3>4. r \in K <=> r.about = e /\ r.op \in {"put", "remove"}
      BY <1>2, <1>3, UnservedRequest
    <3>5. ~(r.op = "create" /\ r.about = e)
      BY DEF Autosave!Creating
    <3>6. r \in K => (r.op = "put" /\ e \in s5') \/ (r.op = "remove" /\ e \notin s5')
      BY <1>2, <3>4
    <3>7. r \notin K => (e \in s5' <=> e \in s5)
      BY <1>2, <3>4, <3>5
    <3>8. NoneOf(s4', K) => (e \in s5' <=> s2[e] # 0)
      BY <3>2, <3>3, <3>6, <3>7 DEF Served
    <3>9. \A j \in DOMAIN s4' : IsLastOf(s4', K, j) => (s4'[j].op = "put" <=> s2[e] # 0)
      BY <1>5, <3>2, <3>3 DEF Served
    <3> QED
      BY <1>2, <3>8, <3>9
  <2>5. Autosave!ValuesFollow'
    <3>1. Autosave!ValuesFollow
      BY <1>11 DEF AllFollow
    <3> SUFFICES ASSUME NEW e \in SavedEntities, ~Autosave!Creating(e), s2[e] # 0,
                        NEW K, K = Autosave!Unserved(e, {"put", "update"})
                 PROVE  /\ NoneOf(s4', K) => s6'[e] = s2[e]
                        /\ \A j \in DOMAIN s4' :
                             IsLastOf(s4', K, j) => s4'[j].value = s2[e]
      BY <1>2, <2>2 DEF Autosave!ValuesFollow, NoneOf, IsLastOf
    <3>2. /\ NoneOf(s4, K) => s6[e] = s2[e]
          /\ \A j \in DOMAIN s4 : IsLastOf(s4, K, j) => s4[j].value = s2[e]
      BY <3>1 DEF Autosave!ValuesFollow, NoneOf, IsLastOf
    <3>3. Served(s4, s4', i, K)
      BY <2>1 DEF After
    <3>4. r \in K <=> r.about = e /\ r.op \in {"put", "update"}
      BY <1>2, <1>3, UnservedRequest
    <3>5. ~(r.op = "create" /\ r.about = e)
      BY DEF Autosave!Creating
    <3>6. r \in K => s6'[e] = r.value
      BY <1>1, <1>2, <3>4 DEF SavingTypes
    <3>7. r \notin K => s6'[e] = s6[e]
      BY <1>1, <1>2, <3>4, <3>5 DEF SavingTypes
    <3>8. NoneOf(s4', K) => s6'[e] = s2[e]
      BY <3>2, <3>3, <3>6, <3>7 DEF Served
    <3>9. \A j \in DOMAIN s4' : IsLastOf(s4', K, j) => s4'[j].value = s2[e]
      BY <1>5, <3>2, <3>3 DEF Served
    <3> QED
      BY <3>8, <3>9
  <2>6. Autosave!LayoutFollows'
    <3> DEFINE K == Autosave!Unserved("layout", {"layout"})
    <3>2. /\ NoneOf(s4, K) => s7 = s3
          /\ \A j \in DOMAIN s4 : IsLastOf(s4, K, j) => s4[j].value = s3
      BY <1>11 DEF AllFollow, Autosave!LayoutFollows, NoneOf, IsLastOf
    <3>3. Served(s4, s4', i, K)
      BY <2>1 DEF After
    <3>4. r \in K <=> r.op = "layout"
      BY <1>2, <1>3, UnservedRequest
    <3> HIDE DEF K
    <3>8. NoneOf(s4', K) => s7' = s3
      BY <1>2, <3>2, <3>3, <3>4 DEF Served
    <3>9. \A j \in DOMAIN s4' : IsLastOf(s4', K, j) => s4'[j].value = s3
      BY <1>5, <3>2, <3>3 DEF Served
    <3> QED
      BY <1>2, <3>8, <3>9 DEF K, Autosave!LayoutFollows, NoneOf, IsLastOf,
                              Autosave!Unserved, Autosave!Requests
  <2> QED
    BY <2>3, <2>4, <2>5, <2>6 DEF AllFollow
<1>12. ~s11' /\ ~s12' => AllFollow'
  BY <1>1, <1>2, <1>11
<1>13. Autosave!Inv' <=> SavingAll'
  BY SavingParts, PTL
<1> QED
  BY <1>8, <1>9, <1>10, <1>12, <1>13 DEF SavingAll

\* When an answer is received the others stay requests.
LEMMA AnswerTypes ==
  ASSUME NEW i \in DOMAIN s4, s4' = Autosave!RemoveAt(s4, i), Autosave!RequestsOK
  PROVE  Autosave!RequestsOK'
<1>1. s4 \in Seq(Requests)
  BY DEF Autosave!RequestsOK, Requests
<1>2. s4' \in Seq(Requests) /\ Removed(s4, s4', i, {})
  <2>1. s4[i] \notin {}
    OBVIOUS
  <2>2. /\ Autosave!RemoveAt(s4, i) \in Seq(Requests)
        /\ Removed(s4, Autosave!RemoveAt(s4, i), i, {})
    BY <1>1, <2>1, LastAfterRemoval
  <2> QED
    BY <2>2
<1>3. \A j \in DOMAIN s4' : \E k \in DOMAIN s4 : s4'[j] = s4[k]
  BY <1>2 DEF Removed
<1> QED
  BY <1>2, <1>3 DEF Autosave!RequestsOK, Requests

\* An answer, good or bad.
LEMMA RequestRejected ==
  ASSUME NEW i \in DOMAIN s4, Autosave!Reject(i), Autosave!Inv
  PROVE  Autosave!Inv'
<1>1. SavingTypes /\ Autosave!RequestsOK
  BY SavingParts DEF SavingAll
<1>2. /\ s4' = Autosave!RemoveAt(s4, i) /\ s11' = TRUE /\ s8' = "ERROR"
      /\ UNCHANGED <<s1, s2, s3, s5, s6, s7, s9, s10, s12>>
  BY DEF Autosave!Reject
<1>3. SavingTypes'
  BY <1>1, <1>2 DEF SavingTypes, Autosave!Statuses
<1>4. Autosave!RequestsOK'
  BY <1>1, <1>2, AnswerTypes
<1>5. Autosave!Inv' <=> SavingAll'
  BY SavingParts, PTL
<1> QED
  BY <1>2, <1>3, <1>4, <1>5 DEF SavingAll

\* The success of a request, also of one that was overtaken, preserves the invariant.
LEMMA RequestSucceeded ==
  ASSUME NEW i \in DOMAIN s4, Autosave!Succeed(i), Autosave!Inv
  PROVE  Autosave!Inv'
<1> DEFINE r == s4[i]
<1>1. /\ SavingTypes /\ Autosave!RequestsOK
      /\ ~s11 /\ ~s12 => AllFollow
  BY SavingParts DEF SavingAll
<1>2. /\ r.served /\ s4' = Autosave!RemoveAt(s4, i) /\ s8' = "SUCCESS"
      /\ s2' = IF r.op = "create" THEN [s2 EXCEPT ![r.about] = r.value] ELSE s2
      /\ UNCHANGED <<s1, s3, s5, s6, s7, s9, s10, s11, s12>>
  BY DEF Autosave!Succeed
<1>3. /\ s4 \in Seq(Requests) /\ \A j \in DOMAIN s4 : s4[j] \in Requests
      /\ \A j \in DOMAIN s4 : /\ s4[j].op = "layout" <=> s4[j].about = "layout"
                              /\ s4[j].op # "remove" => s4[j].value # 0
  BY <1>1 DEF Autosave!RequestsOK, Requests
<1>4. /\ r \in Requests /\ r.value \in 0..SavedEdits
      /\ r.op = "create" => r.about \in SavedEntities /\ r.value # 0
  BY <1>3, RequestFields
<1>5. SavingTypes'
  <2>1. s2' \in [SavedEntities -> 0..SavedEdits]
    BY <1>1, <1>2, <1>4 DEF SavingTypes
  <2> QED
    BY <1>1, <1>2, <2>1 DEF SavingTypes, Autosave!Statuses
<1>6. Autosave!RequestsOK'
  BY <1>1, <1>2, AnswerTypes
<1>7. ASSUME NEW o, NEW ops PROVE Removed(s4, s4', i, Autosave!Unserved(o, ops))
  <2> DEFINE K == Autosave!Unserved(o, ops)
  <2>1. s4[i] \notin K
    BY <1>2 DEF Autosave!Unserved
  <2> HIDE DEF K
  <2>2. Removed(s4, s4', i, K)
    BY <1>2, <1>3, <2>1, LastAfterRemoval
  <2> QED
    BY <2>2 DEF K
<1>8. /\ \A j \in DOMAIN s4' : \E k \in DOMAIN s4 : k # i /\ s4'[j] = s4[k]
      /\ \A k \in DOMAIN s4 : k # i => \E j \in DOMAIN s4' : s4'[j] = s4[k]
      /\ \A j, k \in DOMAIN s4' : j # k =>
           \E m, n \in DOMAIN s4 : m # n /\ s4'[j] = s4[m] /\ s4'[k] = s4[n]
  BY <1>7 DEF Removed
<1>9. ASSUME AllFollow PROVE AllFollow'
  <2>1. /\ Autosave!CreatesAlone /\ Autosave!MembersFollow
        /\ Autosave!ValuesFollow /\ Autosave!LayoutFollows
    BY <1>9 DEF AllFollow
  <2>2. \A j \in DOMAIN s4 : s4[j].op = "create" =>
          /\ s1 = "timeline" /\ s2[s4[j].about] = 0
          /\ \A k \in DOMAIN s4 : s4[k].about = s4[j].about => k = j
          /\ s4[j].served => s4[j].about \in s5 /\ s6[s4[j].about] = s4[j].value
    BY <2>1 DEF Autosave!CreatesAlone
  <2>3. \A e \in SavedEntities : Autosave!Creating(e) =>
          Autosave!Creating(e)' \/ (r.op = "create" /\ r.about = e)
    BY <1>8 DEF Autosave!Creating
  <2>4. \A e \in SavedEntities : ~(r.op = "create" /\ r.about = e) => s2'[e] = s2[e]
    BY <1>1, <1>2 DEF SavingTypes
  \* The created item itself: nothing else is about it.
  <2>5. ASSUME NEW e \in SavedEntities, r.op = "create", r.about = e
        PROVE  /\ s2'[e] = r.value /\ r.value # 0 /\ e \in s5 /\ s6[e] = r.value
               /\ \A j \in DOMAIN s4' : s4'[j].about # e
    <3>1. e \in s5 /\ s6[e] = r.value
      BY <1>2, <2>2, <2>5
    <3>2. s2'[e] = r.value /\ r.value # 0
      BY <1>1, <1>2, <1>4, <2>5 DEF SavingTypes
    <3>3. \A j \in DOMAIN s4' : s4'[j].about # e
      BY <1>8, <2>2, <2>5
    <3> QED
      BY <3>1, <3>2, <3>3
  <2>6. Autosave!CreatesAlone'
    <3> SUFFICES ASSUME NEW j \in DOMAIN s4', s4'[j].op = "create"
                 PROVE  /\ s1' = "timeline" /\ s2'[s4'[j].about] = 0
                        /\ \A k \in DOMAIN s4' : s4'[k].about = s4'[j].about => k = j
                        /\ s4'[j].served =>
                             s4'[j].about \in s5' /\ s6'[s4'[j].about] = s4'[j].value
      BY DEF Autosave!CreatesAlone
    <3>1. PICK m \in DOMAIN s4 : m # i /\ s4'[j] = s4[m]
      BY <1>8
    <3>2. /\ s1 = "timeline" /\ s2[s4[m].about] = 0
          /\ \A k \in DOMAIN s4 : s4[k].about = s4[m].about => k = m
          /\ s4[m].served => s4[m].about \in s5 /\ s6[s4[m].about] = s4[m].value
      BY <2>2, <3>1
    <3>3. s4[m].about \in SavedEntities /\ s4[m].about # r.about
      BY <1>3, <3>1, <3>2, RequestFields
    <3>4. s2'[s4[m].about] = 0
      BY <2>4, <3>2, <3>3
    <3>5. \A k \in DOMAIN s4' : s4'[k].about = s4'[j].about => k = j
      <4>1. ASSUME NEW k \in DOMAIN s4', k # j, s4'[k].about = s4'[j].about
            PROVE  FALSE
        <5>1. PICK a, b \in DOMAIN s4 : a # b /\ s4'[j] = s4[a] /\ s4'[k] = s4[b]
          BY <1>8, <4>1
        <5>2. a = m /\ b = m
          BY <3>1, <3>2, <4>1, <5>1
        <5> QED
          BY <5>1, <5>2
      <4> QED
        BY <4>1
    <3> QED
      BY <1>2, <3>1, <3>2, <3>4, <3>5
  <2>7. Autosave!MembersFollow'
    <3> SUFFICES ASSUME NEW e \in SavedEntities, ~Autosave!Creating(e)',
                        NEW K, K = Autosave!Unserved(e, {"put", "remove"})
                 PROVE  /\ NoneOf(s4', K) => (e \in s5' <=> s2'[e] # 0)
                        /\ \A j \in DOMAIN s4' :
                             IsLastOf(s4', K, j) => (s4'[j].op = "put" <=> s2'[e] # 0)
      BY DEF Autosave!MembersFollow, NoneOf, IsLastOf
    <3>1. Removed(s4, s4', i, K)
      BY <1>7
    <3>2. CASE r.op = "create" /\ r.about = e
      <4>1. \A j \in DOMAIN s4' : ~IsLastOf(s4', K, j)
        BY <2>5, <3>2 DEF IsLastOf, Autosave!IsLastOf, Autosave!Unserved
      <4> QED
        BY <1>2, <2>5, <3>2, <4>1
    <3>3. CASE ~(r.op = "create" /\ r.about = e)
      <4>1. /\ NoneOf(s4, K) => (e \in s5 <=> s2[e] # 0)
            /\ \A j \in DOMAIN s4 : IsLastOf(s4, K, j) => (s4[j].op = "put" <=> s2[e] # 0)
        BY <2>1, <2>3, <3>3 DEF Autosave!MembersFollow, NoneOf, IsLastOf
      <4>2. s2'[e] = s2[e] /\ s5' = s5
        BY <1>2, <2>4, <3>3
      <4> QED
        BY <3>1, <4>1, <4>2 DEF Removed
    <3> QED
      BY <3>2, <3>3
  <2>8. Autosave!ValuesFollow'
    <3> SUFFICES ASSUME NEW e \in SavedEntities, ~Autosave!Creating(e)', s2'[e] # 0,
                        NEW K, K = Autosave!Unserved(e, {"put", "update"})
                 PROVE  /\ NoneOf(s4', K) => s6'[e] = s2'[e]
                        /\ \A j \in DOMAIN s4' :
                             IsLastOf(s4', K, j) => s4'[j].value = s2'[e]
      BY DEF Autosave!ValuesFollow, NoneOf, IsLastOf
    <3>1. Removed(s4, s4', i, K)
      BY <1>7
    <3>2. CASE r.op = "create" /\ r.about = e
      <4>1. \A j \in DOMAIN s4' : ~IsLastOf(s4', K, j)
        BY <2>5, <3>2 DEF IsLastOf, Autosave!IsLastOf, Autosave!Unserved
      <4> QED
        BY <1>2, <2>5, <3>2, <4>1
    <3>3. CASE ~(r.op = "create" /\ r.about = e)
      <4>1. s2'[e] = s2[e] /\ s6' = s6
        BY <1>2, <2>4, <3>3
      <4>2. /\ NoneOf(s4, K) => s6[e] = s2[e]
            /\ \A j \in DOMAIN s4 : IsLastOf(s4, K, j) => s4[j].value = s2[e]
        BY <2>1, <2>3, <3>3, <4>1 DEF Autosave!ValuesFollow, NoneOf, IsLastOf
      <4> QED
        BY <3>1, <4>1, <4>2 DEF Removed
    <3> QED
      BY <3>2, <3>3
  <2>9. Autosave!LayoutFollows'
    <3> DEFINE K == Autosave!Unserved("layout", {"layout"})
    <3>1. Removed(s4, s4', i, K)
      BY <1>7
    <3>2. /\ NoneOf(s4, K) => s7 = s3
          /\ \A j \in DOMAIN s4 : IsLastOf(s4, K, j) => s4[j].value = s3
      BY <2>1 DEF Autosave!LayoutFollows, NoneOf, IsLastOf
    <3> HIDE DEF K
    <3>3. /\ NoneOf(s4', K) => s7' = s3'
          /\ \A j \in DOMAIN s4' : IsLastOf(s4', K, j) => s4'[j].value = s3'
      BY <1>2, <3>1, <3>2 DEF Removed
    <3> QED
      BY <3>3 DEF K, Autosave!LayoutFollows, NoneOf, IsLastOf,
                  Autosave!Unserved, Autosave!Requests
  <2> QED
    BY <2>6, <2>7, <2>8, <2>9 DEF AllFollow
<1>10. Autosave!Inv' <=> SavingAll'
  BY SavingParts, PTL
<1>11. ~s11' /\ ~s12' => AllFollow'
  BY <1>1, <1>2, <1>9
<1>12. s8' # "IN_PROGRESS"
  BY <1>2
<1> QED
  BY <1>5, <1>6, <1>10, <1>11, <1>12 DEF SavingAll

\* Nothing that changes neither the editor nor the requests can break it.
LEMMA SavingStays ==
  ASSUME Autosave!Inv,
         UNCHANGED <<s1, s2, s3, s4, s5, s6, s7, s8, s10, s11, s12>>,
         s9' \in BOOLEAN
  PROVE  Autosave!Inv'
<1>1. SavingAll
  BY SavingParts
<1>2. SavingTypes'
  BY <1>1 DEF SavingAll, SavingTypes
<1>3. Autosave!RequestsOK'
  BY <1>1 DEF SavingAll, Autosave!RequestsOK
<1>4. AllFollow => AllFollow'
  BY DEF AllFollow, Autosave!CreatesAlone, Autosave!MembersFollow,
         Autosave!ValuesFollow, Autosave!LayoutFollows, Autosave!Creating
<1>5. Autosave!Inv' <=> SavingAll'
  BY SavingParts, PTL
<1> QED
  BY <1>1, <1>2, <1>3, <1>4, <1>5 DEF SavingAll

\* Every step preserves it.
LEMMA SavingStep ==
  ASSUME Autosave!Inv, Autosave!Next
  PROVE  Autosave!Inv'
<1>1. CASE \E put, update, remove \in SUBSET SavedEntities :
             /\ update = {} \/ (put = {} /\ remove = {})
             /\ Autosave!EditDiagram(put, update, remove)
  BY <1>1, DiagramEdited
<1>2. CASE \E e \in SavedEntities : Autosave!CreateReferenced(e)
  BY <1>2, ReferencedCreated
<1>3. CASE \E e \in SavedEntities : Autosave!CreateItem(e)
  BY <1>3, ItemCreated
<1>4. CASE \E e \in SavedEntities : Autosave!ChangeItem(e)
  BY <1>4, ItemChanged
<1>5. CASE Autosave!ChangeVertex
  BY <1>5, VertexChanged
<1>6. CASE \E i \in DOMAIN s4 : Autosave!Serve(i)
  BY <1>6, RequestServed
<1>7. CASE \E i \in DOMAIN s4 : Autosave!Succeed(i)
  BY <1>7, RequestSucceeded
<1>8. CASE \E i \in DOMAIN s4 : Autosave!Reject(i)
  BY <1>8, RequestRejected
<1>9. CASE Autosave!ChangeOnline
  <2>1. s9' \in BOOLEAN
    BY <1>9 DEF Autosave!ChangeOnline
  <2> QED
    BY <1>9, <2>1, SavingStays DEF Autosave!ChangeOnline
<1> QED
  BY <1>1, <1>2, <1>3, <1>4, <1>5, <1>6, <1>7, <1>8, <1>9 DEF Autosave!Next

\* It implies what the editors promise.
LEMMA SavingShows == Autosave!Inv => Autosave!ServerFollows /\ Autosave!SavingHasRequest
<1> SUFFICES ASSUME Autosave!Inv PROVE Autosave!ServerFollows
  BY DEF Autosave!Inv
<1> SUFFICES ASSUME s4 = << >>, ~s11, ~s12
             PROVE  /\ s5 = {e \in SavedEntities : s2[e] # 0}
                    /\ \A e \in s5 : s6[e] = s2[e]
                    /\ s7 = s3
  BY DEF Autosave!ServerFollows
<1>1. SavingTypes /\ AllFollow
  BY SavingParts DEF SavingAll
<1>2. \A K : Autosave!NoneOf(s4, K)
  BY DEF Autosave!NoneOf
<1>3. \A e \in SavedEntities : ~Autosave!Creating(e)
  BY DEF Autosave!Creating
<1>4. \A e \in SavedEntities : e \in s5 <=> s2[e] # 0
  BY <1>1, <1>2, <1>3 DEF AllFollow, Autosave!MembersFollow
<1>5. \A e \in SavedEntities : s2[e] # 0 => s6[e] = s2[e]
  BY <1>1, <1>2, <1>3 DEF AllFollow, Autosave!ValuesFollow
<1>6. s7 = s3
  BY <1>1, <1>2 DEF AllFollow, Autosave!LayoutFollows
<1>7. s5 \subseteq SavedEntities
  BY <1>1 DEF SavingTypes
<1> QED
  BY <1>4, <1>5, <1>6, <1>7

-----------------------------------------------------------------------------
(* The tools of a diagram                                                   *)

\* The names that stand for no vertex.
LEMMA NoVertexNames ==
  /\ Tools!None \notin ToolThings \cup ToolValues \cup {Link}
  /\ "canvas" \notin ToolThings \cup ToolValues
BY ToolsAssumption DEF Tools!None

\* The first of some vertices is one of them, if it is one at all.
LEMMA FirstIsOne ==
  ASSUME NEW ids, NEW S
  PROVE  Tools!FirstOf(ids, S) \in S \cup {Tools!None}
BY DEF Tools!FirstOf

\* The first entity of a selection is one of them, if there is one.
LEMMA FirstEntityIsOne ==
  ASSUME NEW ids, NEW S
  PROVE  Tools!FirstEntity(ids, S) \in S \cup {Tools!None}
<1>1. Tools!FirstOf(ids, S) \in S \cup {Tools!None}
  BY FirstIsOne
<1>2. Tools!FirstOf(ids, S \cap ToolThings) \in (S \cap ToolThings) \cup {Tools!None}
  BY FirstIsOne
<1> QED
  BY <1>1, <1>2 DEF Tools!FirstEntity

\* The link dialog opens with two entities, or fewer.
DialogHolds(d) ==
  /\ d \in [source : Tools!Ends, target : Tools!Ends,
            type : {Tools!None} \cup {fit[1] : fit \in DrawnFits}]
  /\ d.source = d.target => d.source = Tools!None

\* Opened from a selection, the link dialog has two different ends, or lacks one.
LEMMA OpensWell ==
  ASSUME NEW ids
  PROVE  DialogHolds(Tools!OpenLink(ids))
<1> DEFINE ends == Tools!EntitiesIn(ids)
           source == Tools!FirstEntity(ids, ends)
           target == Tools!FirstEntity(ids, ends \ {source})
<1>1. ends \subseteq Tools!Ends
  BY DEF Tools!EntitiesIn, Tools!Ends
<1>2. Tools!None \in Tools!Ends
  BY DEF Tools!Ends
<1>3. source \in ends \cup {Tools!None}
  BY FirstEntityIsOne
<1>4. target \in (ends \ {source}) \cup {Tools!None}
  BY FirstEntityIsOne
<1>5. Tools!OpenLink(ids)
        = [Tools!Closed EXCEPT !.source = source, !.target = target]
  BY DEF Tools!OpenLink
<1> HIDE DEF ends, source, target
<1>6. Tools!OpenLink(ids)
        = [source |-> source, target |-> target, type |-> Tools!None]
  BY <1>5 DEF Tools!Closed
<1> QED
  BY <1>1, <1>2, <1>3, <1>4, <1>6 DEF DialogHolds

\* The dialog that is closed is well formed.
LEMMA ClosedWell == DialogHolds(Tools!Closed)
BY DEF DialogHolds, Tools!Closed, Tools!Ends

\* However its ends are chosen, turned and changed, one entity is not both.
LEMMA ChosenWell ==
  ASSUME DialogHolds(s15), Tools!EditLink
  PROVE  DialogHolds(s15')
<1>1. CASE \E e \in ToolThings : Tools!SelectEnd("source", "target", e)
  BY <1>1, NoVertexNames DEF Tools!SelectEnd, DialogHolds, Tools!Ends
<1>2. CASE \E e \in ToolThings : Tools!SelectEnd("target", "source", e)
  BY <1>2, NoVertexNames DEF Tools!SelectEnd, DialogHolds, Tools!Ends
<1>3. CASE \E fit \in DrawnFits : Tools!ChangeType(fit[1])
  BY <1>3 DEF Tools!ChangeType, DialogHolds
<1>4. CASE Tools!ReverseEnds
  BY <1>4 DEF Tools!ReverseEnds, DialogHolds
<1> QED
  BY <1>1, <1>2, <1>3, <1>4 DEF Tools!EditLink

\* The parts of the invariant, each of which a lemma below keeps.
ToolsAll ==
  /\ s4 \subseteq ToolThings \cup ToolValues
  /\ s11 \subseteq ToolThings \X BOOLEAN
  /\ s3 \in Tools!Modes
  /\ DialogHolds(s15)
  /\ Tools!EdgeDiffers /\ Tools!MenuOfThing /\ Tools!MenuCountsMatch
  /\ Tools!ItemDragged

\* The invariant of the tools, in parts.
LEMMA ToolsParts == Tools!Inv <=> ToolsAll
BY DEF ToolsAll, Tools!Inv, Tools!TypesKept, Tools!EndsDiffer, DialogHolds

\* It holds when the diagram opens.
LEMMA ToolsInit == Tools!Init => Tools!Inv
<1> SUFFICES ASSUME Tools!Init PROVE Tools!Inv
  OBVIOUS
<1>1. DialogHolds(s15)
  BY ClosedWell DEF Tools!Init
<1>2. /\ s4 \subseteq ToolThings \cup ToolValues
      /\ s11 \subseteq ToolThings \X BOOLEAN /\ s3 \in Tools!Modes
  BY DEF Tools!Init, Tools!Modes
<1>3. /\ Tools!EdgeDiffers /\ Tools!MenuOfThing /\ Tools!MenuCountsMatch
      /\ Tools!ItemDragged
  BY DEF Tools!Init, Tools!EdgeDiffers, Tools!MenuOfThing,
    Tools!MenuCountsMatch, Tools!ItemDragged
<1> QED
  BY <1>1, <1>2, <1>3, ToolsParts DEF ToolsAll

\* Each part of the invariant is kept by every step.
LEMMA DialogKept ==
  DialogHolds(s15) /\ Tools!Next => DialogHolds(s15')
<1> SUFFICES ASSUME DialogHolds(s15), Tools!Next PROVE DialogHolds(s15')
  OBVIOUS
<1>1. \/ s15' = s15 \/ s15' = Tools!Closed \/ Tools!EditLink
      \/ s15' = Tools!OpenLink(s8) \/ s15' = Tools!OpenLink(s8')
  BY DEF Tools!Next, Tools!PressVertex, Tools!PressGrouping, Tools!PressEdge,
    Tools!PressCanvas, Tools!DragMove, Tools!ReleaseDrag,
    Tools!DoubleClickVertex, Tools!DoubleClickCanvas, Tools!ShowVertexMenu,
    Tools!CountsArrive, Tools!MenuAddLink, Tools!MenuExpand,
    Tools!KeyBackspace, Tools!KeySpace, Tools!ToolMode, Tools!ToolDelete,
    Tools!ToolUngroup, Tools!ToggleTableView, Tools!ToggleSettings,
    Tools!TypeSearch, Tools!SelectListed, Tools!CloseDialog,
    Tools!SubmitVertex, Tools!SubmitGrouping, Tools!SubmitLink
<1> QED
  BY <1>1, OpensWell, ClosedWell, ChosenWell

\* Only entities have links, counts and menus.
LEMMA VerticesKept ==
  ASSUME s4 \subseteq ToolThings \cup ToolValues, Tools!MenuOfThing, Tools!Next
  PROVE  s4' \subseteq ToolThings \cup ToolValues
<1>1. \/ s4' = s4 \/ Tools!MenuExpand \/ Tools!RemoveSelected
      \/ \E x \in ToolThings : s4' = s4 \cup {x}
  BY DEF Tools!Next, Tools!layout, Tools!PressVertex, Tools!PressGrouping, Tools!PressEdge,
    Tools!PressCanvas, Tools!DragMove, Tools!ReleaseDrag,
    Tools!DoubleClickVertex, Tools!DoubleClickCanvas, Tools!ShowVertexMenu,
    Tools!CountsArrive, Tools!MenuAddLink,
    Tools!KeyBackspace, Tools!KeySpace, Tools!ToolMode, Tools!ToolDelete,
    Tools!ToolUngroup, Tools!ToggleTableView, Tools!ToggleSettings,
    Tools!TypeSearch, Tools!SelectListed, Tools!CloseDialog,
    Tools!SubmitVertex, Tools!SubmitGrouping, Tools!EditLink, Tools!SubmitLink
<1>2. CASE Tools!MenuExpand
  BY <1>2 DEF Tools!MenuExpand, Tools!MenuShown, Tools!MenuOfThing
<1>3. CASE Tools!RemoveSelected
  BY <1>3 DEF Tools!RemoveSelected
<1> QED
  BY <1>1, <1>2, <1>3

\* The mode is one of the modes after every step.
LEMMA ModesKept ==
  ASSUME s3 \in Tools!Modes, Tools!Next
  PROVE  s3' \in Tools!Modes
BY DEF Tools!Modes, Tools!Next, Tools!layout, Tools!PressVertex, Tools!PressGrouping, Tools!PressEdge,
    Tools!PressCanvas, Tools!DragMove, Tools!ReleaseDrag, Tools!Release,
    Tools!DragVertex, Tools!DragGrouping,
    Tools!DoubleClickVertex, Tools!DoubleClickCanvas, Tools!ShowVertexMenu,
    Tools!CountsArrive, Tools!MenuAddLink, Tools!MenuExpand,
    Tools!KeyBackspace, Tools!KeySpace, Tools!ToolMode, Tools!ToolDelete,
    Tools!ToolUngroup, Tools!ToggleTableView, Tools!ToggleSettings,
    Tools!TypeSearch, Tools!SelectListed, Tools!CloseDialog,
    Tools!SubmitVertex, Tools!SubmitGrouping, Tools!EditLink, Tools!SubmitLink

\* The counts that are awaited, and the menu they are for.
LEMMA MenuKept ==
  ASSUME s11 \subseteq ToolThings \X BOOLEAN, Tools!MenuOfThing,
         Tools!MenuCountsMatch, Tools!Next
  PROVE  /\ s11' \subseteq ToolThings \X BOOLEAN
         /\ Tools!MenuOfThing' /\ Tools!MenuCountsMatch'
<1>1. \/ s10' \in {s10, Tools!NoMenu} /\ s11' = s11
      \/ \E x \in s4, only \in BOOLEAN : Tools!ShowVertexMenu(x, only)
      \/ Tools!CountsArrive
  BY DEF Tools!Next, Tools!PressVertex, Tools!PressGrouping, Tools!PressEdge,
    Tools!PressCanvas, Tools!PressedOutside, Tools!DragMove, Tools!ReleaseDrag,
    Tools!DoubleClickVertex, Tools!DoubleClickCanvas,
    Tools!MenuAddLink, Tools!MenuExpand,
    Tools!KeyBackspace, Tools!KeySpace, Tools!ToolMode, Tools!ToolDelete,
    Tools!ToolUngroup, Tools!ToggleTableView, Tools!ToggleSettings,
    Tools!TypeSearch, Tools!SelectListed, Tools!CloseDialog,
    Tools!SubmitVertex, Tools!SubmitGrouping, Tools!EditLink, Tools!SubmitLink
<1>2. CASE s10' \in {s10, Tools!NoMenu} /\ s11' = s11
  BY <1>2 DEF Tools!MenuOfThing, Tools!MenuCountsMatch, Tools!NoMenu
<1>3. ASSUME NEW x \in s4, NEW only \in BOOLEAN, Tools!ShowVertexMenu(x, only)
      PROVE  /\ s11' \subseteq ToolThings \X BOOLEAN
             /\ Tools!MenuOfThing' /\ Tools!MenuCountsMatch'
  BY <1>3 DEF Tools!ShowVertexMenu, Tools!MenuOfThing, Tools!MenuCountsMatch,
    Tools!Menu
<1>4. CASE Tools!CountsArrive
  BY <1>4 DEF Tools!CountsArrive, Tools!Answer, Tools!MenuOfThing,
    Tools!MenuCountsMatch, Tools!Menu
<1> QED
  BY <1>1, <1>2, <1>3, <1>4

\* The ends of a link that is drawn are those of the dialog, both with a vertex.
LEMMA EdgeKept ==
  ASSUME s4 \subseteq ToolThings \cup ToolValues, DialogHolds(s15),
         Tools!EdgeDiffers, Tools!Next
  PROVE  Tools!EdgeDiffers'
<1>1. \/ s6' \in {s6, << >>}
      \/ s6' = <<s15.source, s15.target>> /\ {s15.source, s15.target} \subseteq s4
  BY DEF Tools!Next, Tools!layout, Tools!PressVertex, Tools!PressGrouping, Tools!PressEdge,
    Tools!PressCanvas, Tools!DragMove, Tools!ReleaseDrag,
    Tools!DoubleClickVertex, Tools!DoubleClickCanvas, Tools!ShowVertexMenu,
    Tools!CountsArrive, Tools!MenuAddLink, Tools!MenuExpand, Tools!RemoveSelected,
    Tools!KeyBackspace, Tools!KeySpace, Tools!ToolMode, Tools!ToolDelete,
    Tools!ToolUngroup, Tools!ToggleTableView, Tools!ToggleSettings,
    Tools!TypeSearch, Tools!SelectListed, Tools!CloseDialog,
    Tools!SubmitVertex, Tools!SubmitGrouping, Tools!EditLink, Tools!SubmitLink
<1> QED
  BY <1>1, NoVertexNames DEF Tools!EdgeDiffers, DialogHolds

\* What is being dragged is let go of by the release that ends the drag.
LEMMA DragKept ==
  ASSUME s4 \subseteq ToolThings \cup ToolValues, Tools!ItemDragged, Tools!Next
  PROVE  Tools!ItemDragged'
<1>1. CASE Tools!ReleaseDrag
  BY <1>1 DEF Tools!ReleaseDrag, Tools!Release, Tools!ItemDragged, Tools!None
<1>2. CASE Tools!DragMove
  BY <1>2, NoVertexNames DEF Tools!DragMove, Tools!DragVertex,
    Tools!DragGrouping, Tools!ItemDragged, Tools!None
<1>3. CASE Tools!PressCanvas
  BY <1>3 DEF Tools!PressCanvas, Tools!ItemDragged, Tools!None
<1>4. CASE Tools!KeyBackspace \/ Tools!ToolDelete
  BY <1>4 DEF Tools!KeyBackspace, Tools!ToolDelete, Tools!RemoveSelected,
    Tools!ItemDragged, Tools!None
<1>5. ASSUME NEW x \in s4, NEW shift \in BOOLEAN, Tools!PressVertex(x, shift)
      PROVE  Tools!ItemDragged'
  BY <1>5 DEF Tools!PressVertex, Tools!AllowPointerEvents, Tools!ItemDragged
<1>6. ASSUME NEW g \in s7, NEW shift \in BOOLEAN, Tools!PressGrouping(g, shift)
      PROVE  Tools!ItemDragged'
  BY <1>6 DEF Tools!PressGrouping, Tools!ItemDragged
<1>7. CASE s9' = s9 /\ s16' = s16 /\ (s3' = s3 \/ s3' # "ITEM_DRAG")
  BY <1>7 DEF Tools!ItemDragged
<1>8. \/ s9' = s9 /\ s16' = s16 /\ (s3' = s3 \/ s3' # "ITEM_DRAG")
      \/ Tools!ReleaseDrag \/ Tools!DragMove \/ Tools!PressCanvas
      \/ Tools!KeyBackspace \/ Tools!ToolDelete
      \/ \E x \in s4, shift \in BOOLEAN : Tools!PressVertex(x, shift)
      \/ \E g \in s7, shift \in BOOLEAN : Tools!PressGrouping(g, shift)
  BY DEF Tools!Next, Tools!PressEdge,
    Tools!DoubleClickVertex, Tools!DoubleClickCanvas, Tools!ShowVertexMenu,
    Tools!CountsArrive, Tools!MenuAddLink, Tools!MenuExpand,
    Tools!KeySpace, Tools!ToolMode,
    Tools!ToolUngroup, Tools!ToggleTableView, Tools!ToggleSettings,
    Tools!TypeSearch, Tools!SelectListed, Tools!CloseDialog,
    Tools!SubmitVertex, Tools!SubmitGrouping, Tools!EditLink, Tools!SubmitLink
<1> QED
  BY <1>1, <1>2, <1>3, <1>4, <1>5, <1>6, <1>7, <1>8

\* Every step preserves the invariant.
LEMMA ToolsStep == Tools!Inv /\ Tools!Next => Tools!Inv'
<1>1. ToolsAll /\ Tools!Next => ToolsAll'
  BY VerticesKept, MenuKept, ModesKept, DialogKept, EdgeKept, DragKept
  DEF ToolsAll, DialogHolds
<1>2. Tools!Inv' <=> ToolsAll'
  BY ToolsParts, PTL
<1> QED
  BY <1>1, <1>2, ToolsParts

\* A step that leaves the state alone keeps it.
LEMMA ToolsStay == Tools!Inv /\ UNCHANGED vars => Tools!Inv'
<1>1. ToolsAll /\ UNCHANGED vars => ToolsAll'
  BY DEF ToolsAll, vars, DialogHolds, Tools!EdgeDiffers, Tools!MenuOfThing,
    Tools!MenuCountsMatch, Tools!ItemDragged
<1>2. Tools!Inv' <=> ToolsAll'
  BY ToolsParts, PTL
<1> QED
  BY <1>1, <1>2, ToolsParts

\* It implies what the tools promise.
LEMMA ToolsShow ==
  Tools!Inv => Tools!LinkEndsDiffer /\ Tools!MenuCountsMatch /\ Tools!DragEnds
BY DEF Tools!Inv, Tools!TypesKept, Tools!EndsDiffer, Tools!EdgeDiffers,
  Tools!LinkEndsDiffer, Tools!ItemDragged, Tools!DragEnds

-----------------------------------------------------------------------------
(* The table of entities: UiTable                                           *)

\* Filtering in UiTable is filtering.
LEMMA TableFiltered ==
  \A s, S : Table!Filtered(s, S) = Filtered(s, S)
BY DEF Table!Filtered, Filtered, Table!Positions, Positions, Table!Rank, Rank,
  Table!Cardinality, Cardinality, Table!IsFiniteSet, IsFiniteSet

\* A tab lists entities that the table holds.
LEMMA TabInHeld ==
  ASSUME NEW S, NEW schema
  PROVE  Table!InTab(S, schema) \subseteq S
BY DEF Table!InTab

\* Whatever the order, the table is given the entities of the tab, each once.
LEMMA ArrangeEnumerates ==
  ASSUME NEW S \in SUBSET Table!Entities, NEW schema, NEW s, NEW f
  PROVE  Enumerates(Table!Arrange(S, schema, s, f), Table!InTab(S, schema))
<1> DEFINE A == Table!InTab(S, schema)
           W == {e \in S : s.field \in f[e]}
           V == {e \in S : s.field \notin f[e]}
           all == Filtered(Pool, A)
           with == Filtered(all, W)
           without == Filtered(all, V)
<1>1. Enumerates(Pool, Table!Entities)
  BY TableAssumption DEF Enumerates, Table!Entities, Table!ToSet
<1>2. Table!Entities \cap A = A
  BY TabInHeld
<1>3. A \subseteq S
  BY TabInHeld
<1>4. Table!Arrange(S, schema, s, f)
        = CASE s.direction = "asc" -> with \o without
            [] s.direction = "desc" -> without \o with
            [] OTHER -> all
  BY TableFiltered DEF Table!Arrange
<1> HIDE DEF A
<1>5. Enumerates(all, A)
  BY <1>1, <1>2, EnumeratedFiltered
<1> HIDE DEF all
<1>6. Enumerates(with, A \cap W) /\ Enumerates(without, A \cap V)
  BY <1>5, EnumeratedFiltered
<1>7. (A \cap W) \cup (A \cap V) = A /\ (A \cap V) \cup (A \cap W) = A
  BY <1>3
<1>8. (A \cap W) \cap (A \cap V) = {} /\ (A \cap V) \cap (A \cap W) = {}
  OBVIOUS
<1> HIDE DEF with, without, W, V
<1>9. Enumerates(with \o without, A)
  <2>1. Enumerates(with \o without, (A \cap W) \cup (A \cap V))
    BY <1>6, <1>8, EnumeratedJoined
  <2> QED
    BY <1>7, <2>1
<1>10. Enumerates(without \o with, A)
  <2>1. Enumerates(without \o with, (A \cap V) \cup (A \cap W))
    BY <1>6, <1>8, EnumeratedJoined
  <2> QED
    BY <1>7, <2>1
<1> QED
  BY <1>4, <1>5, <1>9, <1>10 DEF A

Records(T) == [entity : T, isSelected : BOOLEAN]
EntitiesOf(r) == [i \in DOMAIN r |-> r[i].entity]

\* The rows of the entities in T, one for each.
RowsOf(r, T) == r \in Seq(Records(T)) /\ Enumerates(EntitiesOf(r), T)

\* The marks of the rows of some entities in E are those of the selection.
MarksOf(r, E, sel) ==
  /\ r \in Seq(Records(E))
  /\ \A i \in DOMAIN r : r[i].isSelected = (r[i].entity \in sel)

\* What a row is.
LEMMA RowIsRecord ==
  ASSUME NEW T, NEW e \in T, NEW sel
  PROVE  /\ Table!Row(e, sel) \in Records(T) /\ Table!Row(e, sel).entity = e
         /\ Table!Row(e, sel).isSelected = (e \in sel)
<1>1. (e \in sel) \in BOOLEAN
  OBVIOUS
<1> QED
  BY <1>1 DEF Table!Row, Records

\* Rows that are made anew mark what is selected.
LEMMA RowsMade ==
  ASSUME NEW T, NEW es \in Seq(T), NEW sel
  PROVE  /\ MarksOf(Table!Rows(es, sel), T, sel)
         /\ EntitiesOf(Table!Rows(es, sel)) = es
<1> DEFINE r == Table!Rows(es, sel)
<1>1. r = [i \in DOMAIN es |-> Table!Row(es[i], sel)]
  BY DEF Table!Rows
<1>2. DOMAIN es = 1..Len(es) /\ Len(es) \in Nat
  OBVIOUS
<1>3. \A i \in DOMAIN es : es[i] \in T
  OBVIOUS
<1> HIDE DEF r
<1>4. \A i \in DOMAIN es : /\ r[i] \in Records(T) /\ r[i].entity = es[i]
                           /\ r[i].isSelected = (es[i] \in sel)
  BY <1>1, <1>3, RowIsRecord
<1>5. DOMAIN r = 1..Len(es) /\ r \in Seq(Records(T))
  BY <1>1, <1>2, <1>4
<1>6. MarksOf(r, T, sel)
  BY <1>2, <1>4, <1>5 DEF MarksOf
<1>7. EntitiesOf(r) = es
  <2>1. EntitiesOf(r) = [i \in DOMAIN es |-> es[i]]
    BY <1>2, <1>4, <1>5 DEF EntitiesOf
  <2> QED
    BY <1>2, <2>1
<1> QED
  BY <1>6, <1>7 DEF r

\* Reflecting a selection marks it, and keeps the entities of the rows.
LEMMA RowsReflected ==
  ASSUME NEW T, NEW r \in Seq(Records(T)), NEW sel
  PROVE  /\ MarksOf(Table!ReflectUpdatedSelection(r, sel), T, sel)
         /\ EntitiesOf(Table!ReflectUpdatedSelection(r, sel)) = EntitiesOf(r)
<1> DEFINE t == Table!ReflectUpdatedSelection(r, sel)
<1>1. t = [i \in DOMAIN r |-> Table!Row(r[i].entity, sel)]
  BY DEF Table!ReflectUpdatedSelection
<1>2. DOMAIN r = 1..Len(r) /\ Len(r) \in Nat
  OBVIOUS
<1>3. \A i \in DOMAIN r : r[i].entity \in T
  <2>1. \A i \in DOMAIN r : r[i] \in Records(T)
    OBVIOUS
  <2> QED
    BY <2>1 DEF Records
<1> HIDE DEF t
<1>4. \A i \in DOMAIN r : /\ t[i] \in Records(T) /\ t[i].entity = r[i].entity
                          /\ t[i].isSelected = (r[i].entity \in sel)
  <2> SUFFICES ASSUME NEW i \in DOMAIN r
               PROVE  /\ t[i] \in Records(T) /\ t[i].entity = r[i].entity
                      /\ t[i].isSelected = (r[i].entity \in sel)
    OBVIOUS
  <2>1. t[i] = Table!Row(r[i].entity, sel) /\ r[i].entity \in T
    BY <1>1, <1>3
  <2>2. \A e \in T : /\ Table!Row(e, sel) \in Records(T)
                     /\ Table!Row(e, sel).entity = e
                     /\ Table!Row(e, sel).isSelected = (e \in sel)
    BY RowIsRecord
  <2>3. PICK e \in T : e = r[i].entity
    BY <1>3
  <2> QED
    BY <2>1, <2>2, <2>3
<1>5. DOMAIN t = 1..Len(r) /\ t \in Seq(Records(T))
  BY <1>1, <1>2, <1>4
<1>6. MarksOf(t, T, sel)
  BY <1>2, <1>4, <1>5 DEF MarksOf
<1>7. EntitiesOf(t) = EntitiesOf(r)
  BY <1>2, <1>4, <1>5 DEF EntitiesOf
<1> QED
  BY <1>6, <1>7 DEF t

\* Rows of some entities are rows of more.
LEMMA RecordsGrow ==
  ASSUME NEW A, NEW B, A \subseteq B, NEW r \in Seq(Records(A))
  PROVE  r \in Seq(Records(B))
<1>1. Records(A) \subseteq Records(B)
  BY DEF Records
<1> HIDE DEF Records
<1> QED
  BY <1>1

\* Joined rows are rows, and mark what both marked.
LEMMA RowsJoined ==
  ASSUME NEW T, NEW r \in Seq(Records(T)), NEW q \in Seq(Records(T))
  PROVE  /\ r \o q \in Seq(Records(T))
         /\ EntitiesOf(r \o q) = EntitiesOf(r) \o EntitiesOf(q)
         /\ \A sel : MarksOf(r, T, sel) /\ MarksOf(q, T, sel)
                       => MarksOf(r \o q, T, sel)
<1> DEFINE u == r \o q
<1>1. /\ u \in Seq(Records(T)) /\ DOMAIN u = 1..(Len(r) + Len(q))
      /\ \A i \in DOMAIN u : u[i] = IF i <= Len(r) THEN r[i] ELSE q[i - Len(r)]
  BY JoinedPosition
<1>2. /\ Len(r) \in Nat /\ Len(q) \in Nat
      /\ DOMAIN r = 1..Len(r) /\ DOMAIN q = 1..Len(q)
  OBVIOUS
<1>3. /\ \A i \in DOMAIN r : r[i].entity \in T
      /\ \A i \in DOMAIN q : q[i].entity \in T
  <2>1. /\ \A i \in DOMAIN r : r[i] \in Records(T)
        /\ \A i \in DOMAIN q : q[i] \in Records(T)
    OBVIOUS
  <2> QED
    BY <2>1 DEF Records
<1> DEFINE a == EntitiesOf(r)
           b == EntitiesOf(q)
<1>4. /\ a \in Seq(T) /\ b \in Seq(T) /\ Len(a) = Len(r) /\ Len(b) = Len(q)
      /\ \A i \in DOMAIN r : a[i] = r[i].entity
      /\ \A i \in DOMAIN q : b[i] = q[i].entity
  BY <1>2, <1>3 DEF EntitiesOf
<1> HIDE DEF u, a, b
<1>5. /\ a \o b \in Seq(T) /\ DOMAIN (a \o b) = 1..(Len(r) + Len(q))
      /\ \A i \in DOMAIN (a \o b) :
           (a \o b)[i] = IF i <= Len(r) THEN a[i] ELSE b[i - Len(r)]
  <2>1. a \in Seq(T) /\ b \in Seq(T)
    BY <1>4
  <2>2. /\ a \o b \in Seq(T) /\ DOMAIN (a \o b) = 1..(Len(a) + Len(b))
        /\ \A i \in DOMAIN (a \o b) :
             (a \o b)[i] = IF i <= Len(a) THEN a[i] ELSE b[i - Len(a)]
    BY <2>1, JoinedPosition
  <2> QED
    BY <1>4, <2>2
<1>6. \A i \in DOMAIN u : \/ i \in DOMAIN r /\ u[i] = r[i] /\ (a \o b)[i] = a[i]
                          \/ /\ i - Len(r) \in DOMAIN q /\ u[i] = q[i - Len(r)]
                             /\ (a \o b)[i] = b[i - Len(r)]
  BY <1>1, <1>2, <1>5
<1>7. \A i \in DOMAIN u : u[i].entity = (a \o b)[i]
  BY <1>4, <1>6
<1>8. EntitiesOf(u) = a \o b
  <2>1. EntitiesOf(u) = [i \in DOMAIN u |-> (a \o b)[i]]
    BY <1>7 DEF EntitiesOf
  <2>2. a \o b = [i \in DOMAIN (a \o b) |-> (a \o b)[i]]
    <3> DEFINE c == a \o b
    <3>1. c \in Seq(T)
      BY <1>5
    <3> HIDE DEF c
    <3>2. c = [i \in DOMAIN c |-> c[i]]
      BY <3>1
    <3> QED
      BY <3>2 DEF c
  <2> QED
    BY <1>1, <1>5, <2>1, <2>2
<1>9. \A sel : MarksOf(r, T, sel) /\ MarksOf(q, T, sel) => MarksOf(u, T, sel)
  BY <1>1, <1>6 DEF MarksOf
<1> QED
  BY <1>1, <1>8, <1>9 DEF u, a, b

\* The rows made of a list of entities are one for each of them.
LEMMA RowsOfEnumerated ==
  ASSUME NEW T, NEW es, Enumerates(es, T), NEW sel
  PROVE  RowsOf(Table!Rows(es, sel), T)
<1>1. es \in Seq(T)
  BY DEF Enumerates
<1>2. /\ MarksOf(Table!Rows(es, sel), T, sel)
      /\ EntitiesOf(Table!Rows(es, sel)) = es
  BY <1>1, RowsMade
<1> QED
  BY <1>2 DEF RowsOf, MarksOf

\* Reflecting a selection keeps one row for each entity.
LEMMA RowsOfReflected ==
  ASSUME NEW T, NEW r, RowsOf(r, T), NEW sel
  PROVE  RowsOf(Table!ReflectUpdatedSelection(r, sel), T)
<1>1. r \in Seq(Records(T)) /\ Enumerates(EntitiesOf(r), T)
  BY DEF RowsOf
<1>2. /\ MarksOf(Table!ReflectUpdatedSelection(r, sel), T, sel)
      /\ EntitiesOf(Table!ReflectUpdatedSelection(r, sel)) = EntitiesOf(r)
  BY <1>1, RowsReflected
<1> QED
  BY <1>1, <1>2 DEF RowsOf, MarksOf

\* Rows of other entities can be added to those that are there.
LEMMA RowsOfJoined ==
  ASSUME NEW A, NEW B, A \cap B = {}, NEW r, RowsOf(r, A), NEW q, RowsOf(q, B)
  PROVE  RowsOf(r \o q, A \cup B)
<1>1. /\ r \in Seq(Records(A)) /\ Enumerates(EntitiesOf(r), A)
      /\ q \in Seq(Records(B)) /\ Enumerates(EntitiesOf(q), B)
  BY DEF RowsOf
<1>2. r \in Seq(Records(A \cup B))
  <2>1. A \subseteq A \cup B
    OBVIOUS
  <2> QED
    BY <1>1, <2>1, RecordsGrow
<1>3. q \in Seq(Records(A \cup B))
  <2>1. B \subseteq A \cup B
    OBVIOUS
  <2> QED
    BY <1>1, <2>1, RecordsGrow
<1>4. /\ r \o q \in Seq(Records(A \cup B))
      /\ EntitiesOf(r \o q) = EntitiesOf(r) \o EntitiesOf(q)
  BY <1>2, <1>3, RowsJoined
<1>5. Enumerates(EntitiesOf(r) \o EntitiesOf(q), A \cup B)
  BY <1>1, EnumeratedJoined
<1> QED
  BY <1>4, <1>5 DEF RowsOf

\* A row is the only one of its entity.
LEMMA RowsOfOne ==
  ASSUME NEW e, NEW sel
  PROVE  RowsOf(<<Table!Row(e, sel)>>, {e})
<1> DEFINE x == Table!Row(e, sel)
<1>1. x \in Records({e}) /\ x.entity = e
  BY RowIsRecord
<1> HIDE DEF x
<1>2. <<x>> \in Seq(Records({e}))
  BY <1>1
<1>3. EntitiesOf(<<x>>) = <<e>>
  BY <1>1 DEF EntitiesOf
<1>4. Enumerates(<<e>>, {e})
  BY EnumeratedOne
<1> QED
  BY <1>2, <1>3, <1>4 DEF RowsOf, x

\* What a table in a diagram makes of the entities it is given, es for the T2
\* that are in the tab now: whatever it had, it has a row for each.
LEMMA RowsUpdated ==
  ASSUME NEW T, NEW T2, T \subseteq T2 \/ T2 \subseteq T,
         Enumerates(s8, T), NEW es, Enumerates(es, T2), NEW sel,
         RowsOf(s9, T), s13 \subseteq T, Table!DidUpdate(es, sel)
  PROVE  RowsOf(s9', T2) /\ s13' \subseteq T2
<1> DEFINE new == Table!Filtered(es, Table!ToSet(es) \ (Table!ToSet(s8) \cup s13))
<1>1. /\ IsFiniteSet(T) /\ Len(s8) = Cardinality(T) /\ Len(s8) \in Nat
      /\ IsFiniteSet(T2) /\ Len(es) = Cardinality(T2) /\ Len(es) \in Nat
  BY EnumeratedLength
<1>2. CASE Table!RegenerateTable(es, sel)
  <2>1. s9' = Table!Rows(es, sel) /\ s13' = {}
    BY <1>2 DEF Table!RegenerateTable
  <2>2. RowsOf(Table!Rows(es, sel), T2)
    BY RowsOfEnumerated
  <2> QED
    BY <2>1, <2>2
<1>3. CASE /\ Len(es) > Len(s8) /\ s9' = s9 \o Table!Rows(new, sel)
           /\ s13' = s13
  <2>1. T \subseteq T2
    <3>1. T2 \subseteq T => Cardinality(T2) <= Cardinality(T)
      BY <1>1, FS_Subset
    <3> QED
      BY <1>1, <1>3, <3>1
  <2>2. Table!ToSet(es) = T2 /\ Table!ToSet(s8) = T
    BY EnumeratedValues DEF Table!ToSet
  <2>3. Table!ToSet(es) \ (Table!ToSet(s8) \cup s13) = T2 \ T
    BY <2>2
  <2>4. new = Filtered(es, T2 \ T)
    BY <2>3, TableFiltered
  <2>5. Enumerates(Filtered(es, T2 \ T), T2 \cap (T2 \ T))
    BY EnumeratedFiltered
  <2>6. T2 \cap (T2 \ T) = T2 \ T
    OBVIOUS
  <2> HIDE DEF new
  <2>7. Enumerates(new, T2 \ T)
    BY <2>4, <2>5, <2>6
  <2>8. RowsOf(Table!Rows(new, sel), T2 \ T)
    BY <2>7, RowsOfEnumerated
  <2>9. T \cap (T2 \ T) = {} /\ T \cup (T2 \ T) = T2
    BY <2>1
  <2>10. RowsOf(s9 \o Table!Rows(new, sel), T \cup (T2 \ T))
    BY <2>8, <2>9, RowsOfJoined
  <2> QED
    BY <1>3, <2>1, <2>9, <2>10
<1>4. CASE /\ Len(es) = Len(s8) /\ s13' = s13
           /\ s9' \in {s9, Table!ReflectUpdatedSelection(s9, sel)}
  <2>1. T = T2
    BY <1>1, <1>4, FS_Subset
  <2>2. RowsOf(Table!ReflectUpdatedSelection(s9, sel), T)
    BY RowsOfReflected
  <2> QED
    BY <1>4, <2>1, <2>2
<1>5. \/ Table!RegenerateTable(es, sel)
      \/ /\ Len(es) > Len(s8) /\ s9' = s9 \o Table!Rows(new, sel)
         /\ s13' = s13
      \/ /\ Len(es) = Len(s8) /\ s13' = s13
         /\ s9' \in {s9, Table!ReflectUpdatedSelection(s9, sel)}
  BY DEF Table!DidUpdate, Table!AppendAdditionalEntities
<1> QED
  BY <1>2, <1>3, <1>4, <1>5

\* What a table of results makes of them: its marks are the new selection's,
\* if that does not come along with more entities.
LEMMA MarksUpdated ==
  ASSUME NEW E, NEW es \in Seq(E), NEW sel, s2,
         MarksOf(s9, E, s14), Len(es) > Len(s8) => sel = s14,
         Len(es) = Len(s8) => sel = s14 \/ ~s1,
         Table!DidUpdate(es, sel)
  PROVE  MarksOf(s9', E, sel)
<1> DEFINE new == Table!Filtered(es, Table!ToSet(es) \ (Table!ToSet(s8) \cup s13))
<1>1. s9 \in Seq(Records(E))
  BY DEF MarksOf
<1>2. CASE Table!RegenerateTable(es, sel)
  <2>1. s9' = Table!Rows(es, sel)
    BY <1>2 DEF Table!RegenerateTable
  <2> QED
    BY <2>1, RowsMade
<1>3. CASE Len(es) > Len(s8) /\ s9' = s9 \o Table!Rows(new, sel)
  <2>1. new \in Seq(E)
    <3> DEFINE S == Table!ToSet(es) \ (Table!ToSet(s8) \cup s13)
    <3>1. new = Filtered(es, S)
      BY TableFiltered
    <3> HIDE DEF S, new
    <3>2. Filtered(es, S) \in Seq(E \cap S)
      BY FilteredPlaces
    <3> QED
      BY <3>1, <3>2
  <2> HIDE DEF new
  <2>2. MarksOf(Table!Rows(new, sel), E, sel)
    BY <2>1, RowsMade
  <2>3. Table!Rows(new, sel) \in Seq(Records(E))
    BY <2>2 DEF MarksOf
  <2>4. \A s : MarksOf(s9, E, s) /\ MarksOf(Table!Rows(new, sel), E, s)
                 => MarksOf(s9 \o Table!Rows(new, sel), E, s)
    BY <1>1, <2>3, RowsJoined
  <2> QED
    BY <1>3, <2>2, <2>4
<1>4. CASE Len(es) = Len(s8) /\ \/ s9' = Table!ReflectUpdatedSelection(s9, sel)
                                \/ s9' = s9 /\ sel = s14
  <2>1. MarksOf(Table!ReflectUpdatedSelection(s9, sel), E, sel)
    BY <1>1, RowsReflected
  <2> QED
    BY <1>4, <2>1
<1>5. \/ Table!RegenerateTable(es, sel)
      \/ Len(es) > Len(s8) /\ s9' = s9 \o Table!Rows(new, sel)
      \/ Len(es) = Len(s8) /\ \/ s9' = Table!ReflectUpdatedSelection(s9, sel)
                              \/ s9' = s9 /\ sel = s14
  BY DEF Table!DidUpdate, Table!AppendAdditionalEntities
<1> QED
  BY <1>2, <1>3, <1>4, <1>5

Tab2 == Table!InTab(s3, s6)

\* The parts of the invariant.
TableAll ==
  /\ s3 \subseteq Table!Entities
  /\ s8 = Table!Arrange(s3, s6, s7, s4)
  /\ s1 => RowsOf(s9, Tab2) /\ s13 \subseteq Tab2
  /\ ~s1 /\ s2 => MarksOf(s9, Table!Entities, s14)

\* What is said of a row by EntitiesOf, of the rows themselves.
LEMMA RowsOfParts ==
  ASSUME NEW r, NEW T
  PROVE  RowsOf(r, T) <=>
           /\ r \in Seq(Records(T))
           /\ T \subseteq {r[i].entity : i \in DOMAIN r}
           /\ \A i, j \in DOMAIN r : r[i].entity = r[j].entity => i = j
<1>1. ASSUME r \in Seq(Records(T))
      PROVE  /\ EntitiesOf(r) \in Seq(T) /\ DOMAIN EntitiesOf(r) = DOMAIN r
             /\ \A i \in DOMAIN r : EntitiesOf(r)[i] = r[i].entity
  <2>1. DOMAIN r = 1..Len(r) /\ Len(r) \in Nat
    BY <1>1
  <2>2. \A i \in DOMAIN r : r[i] \in Records(T)
    BY <1>1
  <2>3. \A i \in DOMAIN r : r[i].entity \in T
    BY <2>2 DEF Records
  <2> QED
    BY <2>1, <2>3 DEF EntitiesOf
<1> DEFINE a == EntitiesOf(r)
<1> HIDE DEF a
<1>2. CASE r \in Seq(Records(T))
  <2>1. /\ a \in Seq(T) /\ DOMAIN a = DOMAIN r
        /\ \A i \in DOMAIN r : a[i] = r[i].entity
    BY <1>1, <1>2 DEF a
  <2>2. Enumerates(a, T) <=>
          /\ T \subseteq {r[i].entity : i \in DOMAIN r}
          /\ \A i, j \in DOMAIN r : r[i].entity = r[j].entity => i = j
    BY <2>1 DEF Enumerates
  <2> QED
    BY <1>2, <2>2 DEF RowsOf, a
<1>3. CASE r \notin Seq(Records(T))
  BY <1>3 DEF RowsOf
<1> QED
  BY <1>2, <1>3

\* The invariant of the table, in parts.
LEMMA TableParts == Table!Inv <=> TableAll
<1>1. Table!RowsOfTab <=> (s1 => RowsOf(s9, Tab2) /\ s13 \subseteq Tab2)
  <2>1. RowsOf(s9, Tab2) <=>
          /\ s9 \in Seq(Records(Tab2))
          /\ Tab2 \subseteq {s9[i].entity : i \in DOMAIN s9}
          /\ \A i, j \in DOMAIN s9 : s9[i].entity = s9[j].entity => i = j
    BY RowsOfParts
  <2>2. Tab2 = Table!Tab /\ Table!RowEntities = {s9[i].entity : i \in DOMAIN s9}
    BY DEF Tab2, Table!Tab, Table!RowEntities
  <2>3. Table!RowsOfTab <=>
          (s1 => /\ s9 \in Seq(Records(Table!Tab))
                 /\ Table!Tab \subseteq Table!RowEntities
                 /\ \A i, j \in DOMAIN s9 : s9[i].entity = s9[j].entity => i = j
                 /\ s13 \subseteq Table!Tab)
    BY DEF Table!RowsOfTab, Records
  <2> QED
    BY <2>1, <2>2, <2>3
<1>2. Table!RowsMarked <=> (~s1 /\ s2 => MarksOf(s9, Table!Entities, s14))
  BY DEF Table!RowsMarked, Table!ChecksMatchSelection, MarksOf, Records
<1>3. Table!ShownArranged <=> s3 \subseteq Table!Entities
                                /\ s8 = Table!Arrange(s3, s6, s7, s4)
  BY DEF Table!ShownArranged
<1> QED
  BY <1>1, <1>2, <1>3 DEF Table!Inv, TableAll

\* The entities shown are those of the tab, each once.
LEMMA ShownEnumerates ==
  TableAll => Enumerates(s8, Tab2) /\ s8 \in Seq(Tab2)
<1> SUFFICES ASSUME TableAll PROVE Enumerates(s8, Tab2)
  BY DEF Enumerates
<1>1. s3 \in SUBSET Table!Entities
  BY DEF TableAll
<1>2. Enumerates(Table!Arrange(s3, s6, s7, s4), Table!InTab(s3, s6))
  BY <1>1, ArrangeEnumerates
<1> QED
  BY <1>2 DEF TableAll, Tab2

SeqsGrow(A, B) == \A s : s \in Seq(A) => s \in Seq(B)

\* A list over a set is one over a larger set.
LEMMA SequencesGrow ==
  ASSUME NEW A, NEW B, A \subseteq B PROVE SeqsGrow(A, B)
BY DEF SeqsGrow

\* The table starts over with what it shows now.
LEMMA Regenerated ==
  ASSUME s3' \subseteq Table!Entities,
         s8' = Table!Arrange(s3', s6', s7', s4'),
         Table!RegenerateTable(s8', s14')
  PROVE  TableAll'
<1> DEFINE T == Table!InTab(s3', s6')
<1>1. Enumerates(s8', T)
  <2>1. s3' \in SUBSET Table!Entities
    OBVIOUS
  <2>2. Enumerates(Table!Arrange(s3', s6', s7', s4'), Table!InTab(s3', s6'))
    BY <2>1, ArrangeEnumerates
  <2> QED
    BY <2>2
<1>2. s9' = Table!Rows(s8', s14') /\ s13' = {}
  BY DEF Table!RegenerateTable
<1>3. RowsOf(s9', T)
  BY <1>1, <1>2, RowsOfEnumerated
<1>4. MarksOf(s9', Table!Entities, s14')
  <2>1. T \subseteq Table!Entities
    BY TabInHeld
  <2>2. s8' \in Seq(T)
    BY <1>1 DEF Enumerates
  <2>3. s8' \in Seq(Table!Entities)
    <3> HIDE DEF T
    <3> QED
      BY <2>1, <2>2, SequencesGrow DEF SeqsGrow
  <2>4. MarksOf(Table!Rows(s8', s14'), Table!Entities, s14')
    BY <2>3, RowsMade
  <2> QED
    BY <1>2, <2>4
<1>5. Tab2' = T
  BY DEF Tab2
<1>6. RowsOf(s9', Tab2') /\ s13' \subseteq Tab2'
  BY <1>2, <1>3, <1>5
<1> HIDE DEF T
<1> QED
  BY <1>4, <1>6 DEF TableAll, RowsOf, MarksOf, Tab2

\* The table is given what is held now.
LEMMA Rendered ==
  ASSUME TableAll, s1' = s1, s2' = s2, s6' = s6, s7' = s7,
         s3' \subseteq Table!Entities,
         s1 => s3 \subseteq s3' \/ s3' \subseteq s3,
         NEW sel, Table!Render(sel),
         ~s1 => sel = s14 \/ (s3' = s3 /\ s4' = s4)
  PROVE  TableAll'
<1> DEFINE T == Table!InTab(s3', s6')
<1>1. /\ s8' = Table!Arrange(s3', s6', s7', s4') /\ s14' = sel
      /\ Table!DidUpdate(s8', sel)
  BY DEF Table!Render
<1>2. Enumerates(s8', T)
  <2>1. s3' \in SUBSET Table!Entities
    OBVIOUS
  <2>2. Enumerates(Table!Arrange(s3', s6', s7', s4'), Table!InTab(s3', s6'))
    BY <2>1, ArrangeEnumerates
  <2> QED
    BY <1>1, <2>2
<1>3. Tab2' = T
  BY DEF Tab2
<1>4. s1 => RowsOf(s9', T) /\ s13' \subseteq T
  <2> SUFFICES ASSUME s1 PROVE RowsOf(s9', T) /\ s13' \subseteq T
    OBVIOUS
  <2>1. Tab2 \subseteq T \/ T \subseteq Tab2
    BY DEF Tab2, Table!InTab
  <2>2. Enumerates(s8, Tab2) /\ RowsOf(s9, Tab2) /\ s13 \subseteq Tab2
    BY ShownEnumerates DEF TableAll
  <2> HIDE DEF T
  <2> QED
    BY <1>1, <1>2, <2>1, <2>2, RowsUpdated
<1>5. ~s1 /\ s2 => MarksOf(s9', Table!Entities, sel)
  <2> SUFFICES ASSUME ~s1, s2 PROVE MarksOf(s9', Table!Entities, sel)
    OBVIOUS
  <2>1. s8' \in Seq(Table!Entities)
    <3>1. T \subseteq Table!Entities
      BY TabInHeld
    <3>2. s8' \in Seq(T)
      BY <1>2 DEF Enumerates
    <3> HIDE DEF T
    <3> QED
      BY <3>1, <3>2, SequencesGrow DEF SeqsGrow
  <2>2. MarksOf(s9, Table!Entities, s14)
    BY DEF TableAll
  <2>3. sel = s14 \/ s8' = s8
    BY <1>1 DEF TableAll
  <2>4. Len(s8') > Len(s8) => sel = s14
    <3>1. s8' = s8 => ~(Len(s8') > Len(s8))
      <4>1. Len(s8) \in Nat
        BY ShownEnumerates, EnumeratedLength
      <4> QED
        BY <4>1
    <3> QED
      BY <2>3, <3>1
  <2> QED
    BY <1>1, <2>1, <2>2, <2>4, MarksUpdated
<1> HIDE DEF T
<1> QED
  BY <1>1, <1>3, <1>4, <1>5 DEF TableAll, RowsOf, MarksOf, Tab2

\* One more row, for the entity that was made of the row to be filled.
LEMMA RowFilled ==
  ASSUME TableAll, NEW e \in Table!Entities, NEW top, NEW values,
         Table!FillAddRow(e, top, values)
  PROVE  TableAll'
<1> DEFINE row == Table!Row(e, s14)
<1>1. /\ s1' = s1 /\ s2' = s2 /\ s6' = s6 /\ s7' = s7
      /\ RowSchema[e] = s6 /\ e \notin s3 /\ e \notin Table!RowEntities
      /\ s3' = IF s1 THEN s3 \cup {e} ELSE s3
      /\ s9' = <<row>> \o s9 \/ s9' = Append(s9, row)
      /\ s13' = s13 \cup {e}
      /\ s8' = Table!Arrange(s3', s6, s7, s4')
      /\ ~s1 => s14' = s14
  BY DEF Table!FillAddRow, Table!tab
<1>2. s3 \subseteq Table!Entities /\ s3' \subseteq Table!Entities
  BY <1>1 DEF TableAll
<1>3. s1 => RowsOf(s9', Tab2') /\ s13' \subseteq Tab2'
  <2> SUFFICES ASSUME s1 PROVE RowsOf(s9', Tab2') /\ s13' \subseteq Tab2'
    OBVIOUS
  <2>1. Tab2' = Tab2 \cup {e} /\ Tab2 \cap {e} = {}
    BY <1>1 DEF Tab2, Table!InTab
  <2>2. RowsOf(s9, Tab2) /\ s13 \subseteq Tab2
    BY DEF TableAll
  <2>3. RowsOf(<<row>>, {e})
    BY RowsOfOne
  <2>4. s9 \o <<row>> = Append(s9, row)
    <3>1. s9 \in Seq(Records(Tab2))
      BY <2>2 DEF RowsOf
    <3> HIDE DEF row
    <3> QED
      BY <3>1
  <2> HIDE DEF row
  <2>5. RowsOf(s9 \o <<row>>, Tab2 \cup {e})
    BY <2>1, <2>2, <2>3, RowsOfJoined
  <2>6. RowsOf(<<row>> \o s9, Tab2 \cup {e})
    <3>1. {e} \cap Tab2 = {}
      BY <2>1
    <3>2. RowsOf(<<row>> \o s9, {e} \cup Tab2)
      BY <2>2, <2>3, <3>1, RowsOfJoined
    <3>3. {e} \cup Tab2 = Tab2 \cup {e}
      OBVIOUS
    <3> QED
      BY <3>2, <3>3
  <2>7. RowsOf(s9', Tab2 \cup {e})
    BY <1>1, <2>4, <2>5, <2>6
  <2> QED
    BY <1>1, <2>1, <2>2, <2>7
<1>4. ~s1 /\ s2 => MarksOf(s9', Table!Entities, s14')
  <2> SUFFICES ASSUME ~s1, s2 PROVE MarksOf(s9', Table!Entities, s14)
    BY <1>1
  <2>1. MarksOf(s9, Table!Entities, s14)
    BY DEF TableAll
  <2>2. MarksOf(<<row>>, Table!Entities, s14)
    <3>1. /\ row \in Records(Table!Entities) /\ row.entity = e
          /\ row.isSelected = (e \in s14)
      BY RowIsRecord
    <3> HIDE DEF row
    <3>2. <<row>> \in Seq(Records(Table!Entities))
      BY <3>1
    <3> QED
      BY <3>1, <3>2 DEF MarksOf
  <2>3. /\ s9 \in Seq(Records(Table!Entities))
        /\ <<row>> \in Seq(Records(Table!Entities))
    BY <2>1, <2>2 DEF MarksOf
  <2> HIDE DEF row
  <2>4. s9 \o <<row>> = Append(s9, row)
    BY <2>3
  <2>5. \A sel : MarksOf(s9, Table!Entities, sel) /\ MarksOf(<<row>>, Table!Entities, sel)
                   => MarksOf(s9 \o <<row>>, Table!Entities, sel)
    BY <2>3, RowsJoined
  <2>6. \A sel : MarksOf(<<row>>, Table!Entities, sel) /\ MarksOf(s9, Table!Entities, sel)
                   => MarksOf(<<row>> \o s9, Table!Entities, sel)
    BY <2>3, RowsJoined
  <2> QED
    BY <1>1, <2>1, <2>2, <2>4, <2>5, <2>6
<1> HIDE DEF row
<1> QED
  BY <1>1, <1>2, <1>3, <1>4 DEF TableAll, RowsOf, MarksOf, Tab2

\* The invariant holds when the table is drawn first.
LEMMA TableInit == Table!Init => Table!Inv
<1> SUFFICES ASSUME Table!Init PROVE TableAll
  BY TableParts
<1>1. /\ s3 \in SUBSET Table!Entities /\ s14 = {}
      /\ s8 = Table!Arrange(s3, s6, s7, s4)
      /\ s9 = Table!Rows(s8, {}) /\ s13 = {}
  BY DEF Table!Init, Table!NothingSelected
<1>2. Enumerates(Table!Arrange(s3, s6, s7, s4), Table!InTab(s3, s6))
  BY <1>1, ArrangeEnumerates
<1>3. Enumerates(s8, Tab2) /\ Tab2 \subseteq Table!Entities
  BY <1>1, <1>2, TabInHeld DEF Tab2
<1>4. RowsOf(s9, Tab2)
  <2>1. RowsOf(Table!Rows(s8, {}), Tab2)
    BY <1>3, RowsOfEnumerated
  <2> QED
    BY <1>1, <2>1
<1>5. MarksOf(s9, Table!Entities, s14)
  <2>1. s8 \in Seq(Tab2)
    BY <1>3 DEF Enumerates
  <2>2. s8 \in Seq(Table!Entities)
    BY <1>3, <2>1, SequencesGrow DEF SeqsGrow
  <2>3. MarksOf(Table!Rows(s8, {}), Table!Entities, {})
    BY <2>2, RowsMade
  <2> QED
    BY <1>1, <2>3
<1> QED
  BY <1>1, <1>4, <1>5 DEF TableAll

\* Tabs, columns and sorting make the table start over.
LEMMA TableStartsOver ==
  ASSUME TableAll,
         \/ \E schema \in Table!AllSchemata :
              Table!SetActiveSchema(schema) \/ Table!AddSchema(schema)
         \/ \E prop \in Props : Table!SortColumn(prop) \/ Table!AddColumn(prop)
  PROVE  TableAll'
<1>1. s3 \subseteq Table!Entities /\ s8 = Table!Arrange(s3, s6, s7, s4)
  BY DEF TableAll
<1>2. ASSUME NEW schema, Table!SetActiveSchema(schema) \/ Table!AddSchema(schema)
      PROVE  TableAll'
  <2>1. s6' = schema /\ s3' = s3 /\ s4' = s4 /\ Table!Mount(schema)
    BY <1>2 DEF Table!SetActiveSchema, Table!AddSchema
  <2>2. /\ s8' = Table!Arrange(s3', s6', s7', s4')
        /\ Table!RegenerateTable(s8', s14')
    BY <2>1 DEF Table!Mount
  <2> QED
    BY <1>1, <2>1, <2>2, Regenerated
<1>3. ASSUME NEW prop, Table!SortColumn(prop) PROVE TableAll'
  <2>1. /\ s3' \subseteq Table!Entities /\ s6' = s6 /\ s4' = s4 /\ s14' = s14
        /\ s8' = Table!Arrange(s3', s6, s7', s4)
        /\ Table!RegenerateTable(s8', s14)
    BY <1>1, <1>3 DEF Table!SortColumn
  <2>2. /\ s8' = Table!Arrange(s3', s6', s7', s4')
        /\ Table!RegenerateTable(s8', s14')
    BY <2>1
  <2> QED
    BY <2>1, <2>2, Regenerated
<1>4. ASSUME NEW prop, Table!AddColumn(prop) PROVE TableAll'
  <2>1. /\ s3' = s3 /\ s6' = s6 /\ s7' = s7 /\ s4' = s4 /\ s14' = s14 /\ s8' = s8
        /\ Table!RegenerateTable(s8, s14)
    BY <1>4 DEF Table!AddColumn, Table!tab
  <2>2. /\ s8' = Table!Arrange(s3', s6', s7', s4')
        /\ Table!RegenerateTable(s8', s14')
    BY <1>1, <2>1
  <2> QED
    BY <1>1, <2>1, <2>2, Regenerated
<1> QED
  BY <1>2, <1>3, <1>4

\* The others give the table what is held now, and a selection.
Renders ==
  \E sel :
    /\ s1' = s1 /\ s2' = s2 /\ s6' = s6 /\ s7' = s7
    /\ s3' \subseteq Table!Entities
    /\ s1 => s3 \subseteq s3' \/ s3' \subseteq s3
    /\ Table!Render(sel)
    /\ ~s1 => sel = s14 \/ (s3' = s3 /\ s4' = s4)

\* A step after which the table draws what is there preserves it.
LEMMA TableRenders ==
  ASSUME TableAll,
         \/ \E i \in 1..Len(Pool), shift \in BOOLEAN : Table!Check(i, shift)
         \/ \E prop \in Props, i \in 1..Len(Pool) : Table!EditCell(i, prop)
         \/ Table!FinishAction \/ Table!DrawAgain \/ Table!ShowResult
         \/ \E S \in SUBSET Table!Entities :
              \/ \E values \in SUBSET Props : Table!Appear(S, values)
              \/ Table!Disappear(S)
  PROVE  Renders
<1>1. s3 \subseteq Table!Entities
  BY DEF TableAll
<1>2. ASSUME NEW i, NEW shift, Table!Check(i, shift) PROVE Renders
  BY <1>1, <1>2 DEF Table!Check, Table!tab, Renders
<1>3. ASSUME NEW i, NEW prop, Table!EditCell(i, prop) PROVE Renders
  <2>1. s1 => s9[i].entity \in Table!Entities
    <3> SUFFICES ASSUME s1 PROVE s9[i].entity \in Table!Entities
      OBVIOUS
    <3>1. s9 \in Seq(Records(Tab2)) /\ i \in DOMAIN s9
      BY <1>3 DEF TableAll, RowsOf, Table!EditCell
    <3>2. s9[i] \in Records(Tab2)
      BY <3>1
    <3>3. s9[i].entity \in Tab2
      BY <3>2 DEF Records
    <3> QED
      BY <1>1, <3>3, TabInHeld DEF Tab2
  <2>2. /\ s1' = s1 /\ s2' = s2 /\ s6' = s6 /\ s7' = s7 /\ Table!Render(s14)
        /\ s3' = IF s1 THEN s3 \cup {s9[i].entity} ELSE s3
    BY <1>3 DEF Table!EditCell, Table!tab
  <2> QED
    BY <1>1, <2>1, <2>2 DEF Renders
<1>4. CASE Table!FinishAction
  BY <1>1, <1>4 DEF Table!FinishAction, Table!tab, Renders
<1>5. CASE Table!DrawAgain
  BY <1>1, <1>5 DEF Table!DrawAgain, Table!tab, Renders
<1>6. CASE Table!ShowResult
  <2>1. s3' \subseteq Table!Entities
    BY <1>6, TabInHeld DEF Table!ShowResult
  <2> QED
    BY <1>6, <2>1 DEF Table!ShowResult, Table!tab, Renders
<1>7. ASSUME NEW S \in SUBSET Table!Entities, NEW values, Table!Appear(S, values)
      PROVE  Renders
  BY <1>1, <1>7 DEF Table!Appear, Table!tab, Renders
<1>8. ASSUME NEW S \in SUBSET Table!Entities, Table!Disappear(S) PROVE Renders
  BY <1>1, <1>8 DEF Table!Disappear, Table!tab, Renders
<1> QED
  BY <1>2, <1>3, <1>4, <1>5, <1>6, <1>7, <1>8

\* Every step preserves it.
LEMMA TableStep == Table!Inv /\ Table!Next => Table!Inv'
<1>1. ASSUME TableAll, Table!Next PROVE TableAll'
  <2>1. Renders => TableAll'
    BY <1>1, Rendered DEF Renders
  <2>2. CASE Table!ToggleTopAddRow
    <3>1. UNCHANGED <<s1, s2, s3, s4, s6, s7, s8, s9, s13, s14>>
      BY <2>2 DEF Table!ToggleTopAddRow, Table!tab
    <3> QED
      BY <1>1, <3>1 DEF TableAll, Tab2, RowsOf, MarksOf
  <2>3. CASE \E e \in Table!Entities, top \in BOOLEAN, values \in SUBSET Props :
               Table!FillAddRow(e, top, values)
    BY <1>1, <2>3, RowFilled
  <2> QED
    BY <1>1, <2>1, <2>2, <2>3, TableStartsOver, TableRenders DEF Table!Next
<1>2. Table!Inv' <=> TableAll'
  BY TableParts, PTL
<1> QED
  BY <1>1, <1>2, TableParts

\* It depends on nothing but the variables.
LEMMA TableStays == Table!Inv /\ UNCHANGED vars => Table!Inv'
<1>1. TableAll /\ UNCHANGED vars => TableAll'
  BY DEF TableAll, vars, Tab2, RowsOf, MarksOf
<1>2. Table!Inv' <=> TableAll'
  BY TableParts, PTL
<1> QED
  BY <1>1, <1>2, TableParts

\* It implies what the table promises.
LEMMA TableShows ==
  Table!Inv => Table!RowsShowEntities /\ Table!ChecksMatchSelection
<1> SUFFICES ASSUME TableAll
             PROVE  Table!RowsShowEntities /\ Table!ChecksMatchSelection
  BY TableParts
<1>1. Table!ChecksMatchSelection
  BY DEF TableAll, MarksOf, Table!ChecksMatchSelection
<1>2. s1 => /\ Table!RowEntities = Table!ToSet(s8)
            /\ Len(s9) = Table!Cardinality(Table!RowEntities)
  <2> SUFFICES ASSUME s1
               PROVE  /\ Table!RowEntities = Table!ToSet(s8)
                      /\ Len(s9) = Table!Cardinality(Table!RowEntities)
    OBVIOUS
  <2>1. Enumerates(s8, Tab2)
    BY ShownEnumerates
  <2>2. s9 \in Seq(Records(Tab2)) /\ Enumerates(EntitiesOf(s9), Tab2)
    BY DEF TableAll, RowsOf
  <2>3. Table!ToSet(s8) = Tab2
    BY <2>1, EnumeratedValues DEF Table!ToSet
  <2>4. {EntitiesOf(s9)[i] : i \in DOMAIN EntitiesOf(s9)} = Tab2
    BY <2>2, EnumeratedValues
  <2>5. Table!RowEntities = Tab2
    BY <2>4 DEF Table!RowEntities, EntitiesOf
  <2>6. Len(EntitiesOf(s9)) = Cardinality(Tab2)
    BY <2>2, EnumeratedLength
  <2>7. Len(EntitiesOf(s9)) = Len(s9)
    BY <2>2 DEF EntitiesOf
  <2>8. \A S : Table!Cardinality(S) = Cardinality(S)
    BY DEF Table!Cardinality, Cardinality, Table!IsFiniteSet, IsFiniteSet
  <2> QED
    BY <2>3, <2>5, <2>6, <2>7, <2>8
<1> QED
  BY <1>1, <1>2 DEF Table!RowsShowEntities

-----------------------------------------------------------------------------
(* The mapping editor: UiMapping                                            *)

\* Filtering in UiMapping is filtering.
LEMMA MappingFiltered ==
  \A s, S : Mapping!Filtered(s, S) = Filtered(s, S)
BY DEF Mapping!Filtered, Filtered, Mapping!Positions, Positions, Mapping!Rank,
  Rank, Mapping!Cardinality, Cardinality, Mapping!IsFiniteSet, IsFiniteSet

\* Some numbers, if there are any, have a least one.
LEMMA LeastNumber ==
  ASSUME NEW P \in SUBSET Nat, IsFiniteSet(P), P # {}
  PROVE  \E i \in P : \A j \in P : i <= j
<1>1. Cardinality(P) \in Nat /\ Cardinality(P) # 0
  BY FS_CardinalityType, FS_EmptySet
<1>2. PICK i \in P : Rank(P, i) = 1
  BY <1>1, RankOnto
<1>3. ASSUME NEW j \in P PROVE i <= j
  <2>1. i \in Nat /\ j \in Nat
    OBVIOUS
  <2>2. j < i => Rank(P, j) < Rank(P, i)
    BY RankType
  <2>3. Rank(P, j) \in 1..Cardinality(P)
    BY RankType
  <2> QED
    BY <1>1, <1>2, <2>1, <2>2, <2>3
<1> QED
  BY <1>3

\* The sizes of the intervals, and that of the colors.
LEMMA IntervalSizes ==
  /\ \A n \in Nat : IsFiniteSet(1..n) /\ Cardinality(1..n) = n
  /\ IsFiniteSet(0..10) /\ Cardinality(0..10) = 11
<1>1. ASSUME NEW n \in Nat PROVE IsFiniteSet(1..n) /\ Cardinality(1..n) = n
  <2>1. 1 \in Int /\ n \in Int
    OBVIOUS
  <2>2. /\ IsFiniteSet(1..n)
        /\ Cardinality(1..n) = IF 1 > n THEN 0 ELSE n - 1 + 1
    BY <2>1, FS_Interval
  <2> QED
    BY <2>2
<1>2. IsFiniteSet(0..10) /\ Cardinality(0..10) = 11
  <2>1. 0 \in Int /\ 10 \in Int
    OBVIOUS
  <2>2. /\ IsFiniteSet(0..10)
        /\ Cardinality(0..10) = IF 0 > 10 THEN 0 ELSE 10 - 0 + 1
    BY <2>1, FS_Interval
  <2> QED
    BY <2>2
<1> QED
  BY <1>1, <1>2

ColorsOf(list) == {list[i].color : i \in DOMAIN list}

\* A color that no item has is found while there are fewer items than colors.
LEMMA ColorIsFree ==
  ASSUME NEW X, NEW list \in Seq(X), Len(list) < Mapping!MaxItems
  PROVE  /\ Mapping!AssignColor(list) \in Mapping!Colors
         /\ Mapping!AssignColor(list) \notin ColorsOf(list)
<1> DEFINE U == ColorsOf(list)
           C == Mapping!Colors
           F == C \ U
<1>1. /\ C = 0..10 /\ IsFiniteSet(C) /\ Cardinality(C) = 11
      /\ Len(list) \in Nat /\ Len(list) <= 10 /\ DOMAIN list = 1..Len(list)
  <2>1. C = 0..10 /\ Len(list) <= 10
    BY DEF Mapping!Colors, Mapping!MaxItems
  <2>2. IsFiniteSet(0..10) /\ Cardinality(0..10) = 11
    BY IntervalSizes
  <2> HIDE DEF C
  <2> QED
    BY <2>1, <2>2
<1> HIDE DEF C, U
<1>2. IsFiniteSet(U) /\ Cardinality(U) <= 10 /\ Cardinality(U) \in Nat
  <2> DEFINE g == [i \in 1..Len(list) |-> list[i].color]
  <2>1. g \in Surjection(1..Len(list), U)
    <3>1. \A i \in 1..Len(list) : list[i].color \in U
      BY <1>1 DEF U, ColorsOf
    <3>2. \A c \in U : \E i \in 1..Len(list) : list[i].color = c
      BY <1>1 DEF U, ColorsOf
    <3> QED
      BY <3>1, <3>2 DEF Surjection
  <2>2. IsFiniteSet(1..Len(list)) /\ Cardinality(1..Len(list)) = Len(list)
    BY <1>1, IntervalSizes
  <2> HIDE DEF g
  <2>3. IsFiniteSet(U) /\ Cardinality(U) <= Len(list)
    BY <2>1, <2>2, FS_Surjection
  <2>4. Cardinality(U) \in Nat
    BY <2>3, FS_CardinalityType
  <2> QED
    BY <1>1, <2>3, <2>4
<1>3. F # {}
  <2> SUFFICES ASSUME C \subseteq U PROVE FALSE
    OBVIOUS
  <2>1. Cardinality(C) <= Cardinality(U)
    BY <1>2, FS_Subset
  <2> QED
    BY <1>1, <1>2, <2>1
<1>4. F \in SUBSET Nat /\ IsFiniteSet(F)
  <2>1. IsFiniteSet(F)
    BY <1>1, FS_Subset
  <2> QED
    BY <1>1, <2>1
<1> HIDE DEF F
<1>5. PICK c \in F : \A j \in F : c <= j
  BY <1>3, <1>4, LeastNumber
<1>6. \A d \in 0..(c - 1) : d \in U
  <2> SUFFICES ASSUME NEW d \in 0..(c - 1), d \notin U PROVE FALSE
    OBVIOUS
  <2>1. c \in 0..10 /\ c \in Nat
    BY <1>1, <1>5 DEF F
  <2>2. d \in 0..10 /\ d < c
    BY <2>1
  <2>3. d \in F
    BY <1>1, <2>2 DEF F
  <2> QED
    BY <1>5, <2>1, <2>2, <2>3
<1>7. c \in C /\ c \notin U
  BY <1>5 DEF F
<1>8. Mapping!AssignColor(list)
        = CHOOSE x \in C : x \notin U /\ \A d \in 0..(x - 1) : d \in U
  BY DEF Mapping!AssignColor, C, U, ColorsOf
<1>9. Mapping!AssignColor(list) \in C /\ Mapping!AssignColor(list) \notin U
  BY <1>6, <1>7, <1>8
<1> QED
  BY <1>9 DEF C, U

\* The items of a query that is loaded get the colors in their order.
LEMMA NextColor ==
  ASSUME NEW list, NEW n \in 0..10, ColorsOf(list) = 0..(n - 1)
  PROVE  Mapping!AssignColor(list) = n
<1> DEFINE U == ColorsOf(list)
<1>1. Mapping!AssignColor(list)
        = CHOOSE x \in 0..10 : x \notin U /\ \A d \in 0..(x - 1) : d \in U
  BY DEF Mapping!AssignColor, Mapping!Colors, Mapping!MaxItems, ColorsOf
<1>2. \A x \in 0..10 : (x \notin U /\ \A d \in 0..(x - 1) : d \in U) <=> x = n
  <2>1. U = 0..(n - 1)
    OBVIOUS
  <2> HIDE DEF U
  <2>2. ASSUME NEW x \in 0..10, x \notin U, \A d \in 0..(x - 1) : d \in U
        PROVE  x = n
    <3>1. CASE x < n
      BY <2>1, <2>2, <3>1
    <3>2. CASE n < x
      <4>1. n \in 0..(x - 1) /\ n \notin U
        BY <2>1, <3>2
      <4> QED
        BY <2>2, <4>1
    <3> QED
      BY <3>1, <3>2
  <2>3. n \notin U /\ \A d \in 0..(n - 1) : d \in U
    BY <2>1
  <2> QED
    BY <2>2, <2>3
<1> HIDE DEF U
<1> QED
  BY <1>1, <1>2

\* The item that the list makes of the k-th of a query.
Loaded(query, shared, k) ==
  [id |-> query[k].id, schema |-> query[k].schema, keys |-> query[k].keys,
   props |-> query[k].props, color |-> k - 1,
   at |-> IF shared THEN query[k].id ELSE Mapping!None]

FirstLoaded(query, shared, n) == [k \in 1..n |-> Loaded(query, shared, k)]

\* The first n items that are loaded have the first n colors.
LEMMA FirstColors ==
  ASSUME NEW query, NEW shared, NEW n \in Nat
  PROVE  ColorsOf(FirstLoaded(query, shared, n)) = 0..(n - 1)
<1> DEFINE f == FirstLoaded(query, shared, n)
<1>1. DOMAIN f = 1..n
  BY DEF FirstLoaded
<1>2. \A k \in 1..n : f[k].color = k - 1
  BY DEF FirstLoaded, Loaded
<1> HIDE DEF f
<1>3. ColorsOf(f) = {k - 1 : k \in 1..n}
  BY <1>1, <1>2 DEF ColorsOf
<1>4. {k - 1 : k \in 1..n} = 0..(n - 1)
  <2>1. \A x \in 0..(n - 1) : x + 1 \in 1..n /\ x = (x + 1) - 1
    OBVIOUS
  <2>2. \A k \in 1..n : k - 1 \in 0..(n - 1)
    OBVIOUS
  <2> QED
    BY <2>1, <2>2
<1> QED
  BY <1>3, <1>4 DEF f

\* One item more.
LoadStep(query, shared, list, n) ==
  IF n = 0 THEN <<>>
  ELSE Append(list[n - 1],
              [id |-> query[n].id, schema |-> query[n].schema,
               keys |-> query[n].keys, props |-> query[n].props,
               color |-> Mapping!AssignColor(list[n - 1]),
               at |-> IF shared THEN query[n].id ELSE Mapping!None])

\* Loading one more query adds one item.
LEMMA FirstLoadedStep ==
  ASSUME NEW query, NEW shared, NEW n \in 1..11
  PROVE  FirstLoaded(query, shared, n)
           = Append(FirstLoaded(query, shared, n - 1), Loaded(query, shared, n))
<1> DEFINE a == FirstLoaded(query, shared, n - 1)
           x == Loaded(query, shared, n)
<1>1. DOMAIN a = 1..(n - 1) /\ n - 1 \in Nat
  BY DEF FirstLoaded
<1>2. a \in Seq({a[i] : i \in DOMAIN a} \cup {x}) /\ Len(a) = n - 1
  <2>1. a = [k \in 1..(n - 1) |-> Loaded(query, shared, k)]
    BY DEF FirstLoaded
  <2> HIDE DEF a
  <2>2. a \in [1..(n - 1) -> {a[i] : i \in DOMAIN a} \cup {x}]
    BY <1>1, <2>1
  <2> QED
    BY <1>1, <2>2
<1>3. \A k \in 1..(n - 1) : a[k] = Loaded(query, shared, k)
  BY DEF FirstLoaded
<1>4. Append(a, x) = [k \in 1..n |-> IF k = n THEN x ELSE a[k]]
  <2> DEFINE c == Append(a, x)
             V == {a[i] : i \in DOMAIN a} \cup {x}
             d == [k \in 1..n |-> IF k = n THEN x ELSE a[k]]
  <2> HIDE DEF a, x
  <2>1. (n - 1) + 1 = n /\ n \in Nat
    OBVIOUS
  <2>2. a \in Seq(V) /\ x \in V /\ Len(a) = n - 1
    BY <1>2
  <2> HIDE DEF V
  <2>3. /\ c \in Seq(V) /\ Len(c) = Len(a) + 1
        /\ \A k \in 1..Len(a) : c[k] = a[k]
        /\ c[Len(a) + 1] = x
    BY <2>2
  <2> HIDE DEF c
  <2>4. DOMAIN c = 1..n /\ c[n] = x /\ \A k \in 1..(n - 1) : c[k] = a[k]
    BY <2>1, <2>2, <2>3
  <2>5. c = [k \in DOMAIN c |-> c[k]]
    BY <2>3
  <2>6. \A k \in 1..n : c[k] = IF k = n THEN x ELSE a[k]
    BY <2>1, <2>4
  <2>7. c = d
    BY <2>4, <2>5, <2>6
  <2> QED
    BY <2>7 DEF c
<1>5. \A k \in 1..n : k # n => k \in 1..(n - 1)
  OBVIOUS
<1> HIDE DEF a
<1>6. Append(a, x) = [k \in 1..n |-> Loaded(query, shared, k)]
  BY <1>3, <1>4, <1>5 DEF x
<1> QED
  BY <1>6 DEF a, FirstLoaded

\* Load, a recursive function, ends with the list of all items.
LEMMA LoadIs ==
  ASSUME NEW X, NEW query \in Seq(X), Len(query) <= 11, NEW shared
  PROVE  Mapping!Load(query, shared) = FirstLoaded(query, shared, Len(query))
<1> DEFINE N == Len(query)
           W == [n \in 0..N |-> FirstLoaded(query, shared, n)]
           IsIt(list) == list = [n \in 0..N |-> LoadStep(query, shared, list, n)]
           L == CHOOSE list : IsIt(list)
<1>1. N \in Nat /\ N <= 11
  OBVIOUS
<1>2. Mapping!Load(query, shared) = L[N]
  BY DEF Mapping!Load, LoadStep
<1> HIDE DEF N
<1>3. ASSUME NEW n \in 0..N
      PROVE  FirstLoaded(query, shared, n) = LoadStep(query, shared, W, n)
  <2>1. CASE n = 0
    <3>1. FirstLoaded(query, shared, 0) = <<>>
      BY DEF FirstLoaded
    <3> QED
      BY <2>1, <3>1 DEF LoadStep
  <2>2. CASE n # 0
    <3>1. n \in 1..11 /\ n - 1 \in 0..N /\ n - 1 \in 0..10 /\ n - 1 \in Nat
      BY <1>1, <2>2
    <3>2. W[n - 1] = FirstLoaded(query, shared, n - 1)
      BY <3>1
    <3>3. ColorsOf(FirstLoaded(query, shared, n - 1)) = 0..((n - 1) - 1)
      BY <3>1, FirstColors
    <3>4. Mapping!AssignColor(FirstLoaded(query, shared, n - 1)) = n - 1
      BY <3>1, <3>3, NextColor
    <3>5. FirstLoaded(query, shared, n)
            = Append(FirstLoaded(query, shared, n - 1), Loaded(query, shared, n))
      BY <3>1, FirstLoadedStep
    <3> HIDE DEF W
    <3> QED
      BY <2>2, <3>2, <3>4, <3>5 DEF LoadStep, Loaded
  <2> QED
    BY <2>1, <2>2
<1>4. IsIt(W)
  BY <1>3
<1> HIDE DEF W, IsIt
<1>5. IsIt(L)
  BY <1>4
<1>6. \A n \in 0..N : L[n] = LoadStep(query, shared, L, n)
  BY <1>5 DEF IsIt
<1>7. \A n \in 0..N : W[n] = LoadStep(query, shared, W, n)
  BY <1>4 DEF IsIt
<1> DEFINE P == {n \in 0..N : L[n] # W[n]}
<1>8. P = {}
  <2> SUFFICES ASSUME P # {} PROVE FALSE
    OBVIOUS
  <2>1. P \in SUBSET Nat /\ P \in SUBSET (0..N)
    OBVIOUS
  <2>2. IsFiniteSet(P)
    <3>1. IsFiniteSet(0..N)
      BY <1>1, FS_Interval
    <3> HIDE DEF P
    <3> QED
      BY <2>1, <3>1, FS_Subset
  <2> HIDE DEF P, L
  <2>3. PICK n \in P : \A j \in P : n <= j
    BY <2>1, <2>2, LeastNumber
  <2>4. n \in 0..N /\ L[n] # W[n]
    BY <2>3 DEF P
  <2>5. CASE n = 0
    BY <1>6, <1>7, <2>4, <2>5 DEF LoadStep
  <2>6. CASE n # 0
    <3>1. n - 1 \in 0..N /\ ~(n <= n - 1)
      BY <1>1, <2>4, <2>6
    <3>2. n - 1 \notin P
      BY <2>3, <3>1
    <3>3. L[n - 1] = W[n - 1]
      BY <3>1, <3>2 DEF P
    <3>4. LoadStep(query, shared, L, n) = LoadStep(query, shared, W, n)
      BY <2>6, <3>3 DEF LoadStep
    <3> QED
      BY <1>6, <1>7, <2>4, <3>4
  <2> QED
    BY <2>5, <2>6
<1>9. L[N] = W[N]
  <2>1. N \in 0..N
    BY <1>1
  <2> QED
    BY <1>8, <2>1
<1>10. W[N] = FirstLoaded(query, shared, N)
  BY <1>1 DEF W
<1> QED
  BY <1>2, <1>9, <1>10 DEF N

\* A value, if it refers to an entity, refers to one of S.
ValueIn(v, S) ==
  /\ v = Mapping!Value(v.kind, v.of)
  /\ v.kind = "entity" => v.of \in S

\* What an item refers to is in S.
RefsIn(m, S) == \A p \in DOMAIN m.props : ValueIn(m.props[p], S)

\* A list is closed if each item refers to items of the list.
LEMMA ClosedIs ==
  ASSUME NEW list
  PROVE  Mapping!Closed(list)
           <=> \A i \in DOMAIN list : RefsIn(list[i], Mapping!Ids(list))
BY DEF Mapping!Closed, RefsIn, ValueIn

\* References stay good when there is more to refer to.
LEMMA RefsGrow ==
  ASSUME NEW m, NEW S, NEW T, RefsIn(m, S), S \subseteq T
  PROVE  RefsIn(m, T)
BY DEF RefsIn, ValueIn

\* No value refers to nothing.
LEMMA NoValueIn == \A S : ValueIn(Mapping!NoValue, S)
BY DEF ValueIn, Mapping!NoValue, Mapping!None, Mapping!Value

\* A reference to an item of the list is good.
LEMMA EntityIn == \A S : \A x \in S : ValueIn(Mapping!Value("entity", x), S)
BY DEF ValueIn, Mapping!Value

\* When a list is colored.
LEMMA ColoredIs ==
  ASSUME NEW list
  PROVE  Mapping!Colored(list) <=>
           /\ IsList(list) /\ Len(list) <= 11
           /\ \A i \in DOMAIN list : Mapping!IsItem(list[i]) /\ list[i].color \in 0..10
           /\ \A i, j \in DOMAIN list : i # j => list[i].color # list[j].color
<1>1. Mapping!Colors = 0..10 /\ Mapping!MaxItems = 11
  BY DEF Mapping!Colors, Mapping!MaxItems
<1>2. list \in Seq(Mapping!ToSet(list)) <=> IsList(list)
  BY DEF Mapping!ToSet, IsList, ValuesOf
<1> QED
  BY <1>1, <1>2 DEF Mapping!Colored

\* When a query is short enough for the colors.
LEMMA ShortIs ==
  ASSUME NEW query
  PROVE  Mapping!Short(query) <=> IsList(query) /\ Len(query) <= 11
<1>1. Mapping!MaxItems = 11
  BY DEF Mapping!MaxItems
<1>2. query \in Seq(Mapping!ToSet(query)) <=> IsList(query)
  BY DEF Mapping!ToSet, IsList, ValuesOf
<1> QED
  BY <1>1, <1>2 DEF Mapping!Short

\* The empty list and the empty query are all of these.
LEMMA NoneIsClosed ==
  /\ Mapping!Colored(<<>>) /\ Mapping!Closed(<<>>) /\ Mapping!Short(<<>>)
<1>1. IsList(<<>>)
  BY DEF IsList
<1>2. DOMAIN <<>> = {} /\ Len(<<>>) = 0
  OBVIOUS
<1> QED
  BY <1>1, <1>2, ColoredIs, ClosedIs, ShortIs

\* A list whose items have the colors of those of another, each of another one.
LEMMA Recolored ==
  ASSUME NEW list, Mapping!Colored(list), NEW r, IsList(r),
         NEW g \in [DOMAIN r -> DOMAIN list],
         \A k, m \in DOMAIN r : g[k] = g[m] => k = m,
         \A k \in DOMAIN r : Mapping!IsItem(r[k]) /\ r[k].color = list[g[k]].color
  PROVE  Mapping!Colored(r)
<1>1. /\ IsList(list) /\ Len(list) <= 11
      /\ \A i \in DOMAIN list : list[i].color \in 0..10
      /\ \A i, j \in DOMAIN list : i # j => list[i].color # list[j].color
  BY ColoredIs
<1>2. /\ DOMAIN list = 1..Len(list) /\ Len(list) \in Nat
      /\ DOMAIN r = 1..Len(r) /\ Len(r) \in Nat
  BY <1>1, ListParts
<1>3. Len(r) <= Len(list)
  <2>1. g \in Injection(1..Len(r), 1..Len(list))
    BY <1>2 DEF Injection, IsInjective
  <2>2. /\ IsFiniteSet(1..Len(list)) /\ Cardinality(1..Len(list)) = Len(list)
        /\ Cardinality(1..Len(r)) = Len(r)
    BY <1>2, IntervalSizes
  <2>3. Cardinality(1..Len(r)) <= Cardinality(1..Len(list))
    BY <2>1, <2>2, FS_Injection
  <2> QED
    BY <2>2, <2>3
<1>4. \A k \in DOMAIN r : r[k].color \in 0..10
  BY <1>1
<1>5. \A k, m \in DOMAIN r : k # m => r[k].color # r[m].color
  BY <1>1
<1>6. Len(r) <= 11
  BY <1>1, <1>2, <1>3
<1> QED
  BY <1>4, <1>5, <1>6, ColoredIs

\* One item takes the place of another.
LEMMA ItemReplaced ==
  ASSUME NEW list, Mapping!Colored(list), NEW i \in DOMAIN list, NEW m,
         Mapping!IsItem(m), m.color = list[i].color, m.id = list[i].id
  PROVE  LET r == [list EXCEPT ![i] = m]
         IN /\ Mapping!Colored(r)
            /\ Mapping!Closed(list) /\ RefsIn(m, Mapping!Ids(list)) => Mapping!Closed(r)
<1> DEFINE r == [list EXCEPT ![i] = m]
           g == [k \in DOMAIN r |-> k]
<1>1. /\ IsList(list)
      /\ \A j \in DOMAIN list : Mapping!IsItem(list[j])
  BY ColoredIs
<1>2. /\ DOMAIN list = 1..Len(list) /\ Len(list) \in Nat
      /\ list = [j \in DOMAIN list |-> list[j]]
  BY <1>1, ListParts
<1>3. /\ DOMAIN r = DOMAIN list /\ r[i] = m
      /\ \A j \in DOMAIN list : j # i => r[j] = list[j]
      /\ r = [j \in DOMAIN r |-> r[j]]
  BY <1>2
<1> HIDE DEF r
<1>4. IsList(r)
  BY <1>2, <1>3, FunctionIsList
<1>5. \A k \in DOMAIN r : /\ Mapping!IsItem(r[k]) /\ r[k].color = list[k].color
                          /\ r[k].id = list[k].id
  BY <1>1, <1>3
<1>6. /\ g \in [DOMAIN r -> DOMAIN list]
      /\ \A k \in DOMAIN r : g[k] = k
  BY <1>3
<1> HIDE DEF g
<1>7. Mapping!Colored(r)
  <2>1. \A k, m2 \in DOMAIN r : g[k] = g[m2] => k = m2
    BY <1>6
  <2>2. \A k \in DOMAIN r : Mapping!IsItem(r[k]) /\ r[k].color = list[g[k]].color
    BY <1>5, <1>6
  <2> QED
    BY <1>4, <1>6, <2>1, <2>2, Recolored
<1>8. Mapping!Ids(r) = Mapping!Ids(list)
  BY <1>3, <1>5 DEF Mapping!Ids
<1>9. ASSUME Mapping!Closed(list), RefsIn(m, Mapping!Ids(list))
      PROVE  Mapping!Closed(r)
  <2>1. \A j \in DOMAIN list : RefsIn(list[j], Mapping!Ids(list))
    BY <1>9, ClosedIs
  <2>2. \A j \in DOMAIN r : RefsIn(r[j], Mapping!Ids(r))
    BY <1>3, <1>8, <1>9, <2>1
  <2> QED
    BY <2>2, ClosedIs
<1> QED
  BY <1>7, <1>9 DEF r

\* Where an item is put, and what is there then.
PutAt(list, item, P, q) ==
  /\ IsList(P) /\ DOMAIN P = DOMAIN list \cup {q} /\ P[q] = item
  /\ \A j \in DOMAIN list : j # q => P[j] = list[j]
  /\ q \in DOMAIN list => list[q].id = item.id
  /\ Mapping!Ids(P) = Mapping!Ids(list) \cup {item.id}

\* An item that is put into a list takes the place of that with its id, or the last.
LEMMA PutItem ==
  ASSUME NEW list, IsList(list), NEW item
  PROVE  /\ \E q \in Nat : PutAt(list, item, Mapping!Put(list, item), q)
         /\ Len(Mapping!Put(list, item)) <= Len(list) + 1
<1> DEFINE P == Mapping!Put(list, item)
           N == Len(list)
<1>1. /\ DOMAIN list = 1..N /\ N \in Nat
      /\ list = [j \in DOMAIN list |-> list[j]]
  BY ListParts
<1>2. CASE item.id \in Mapping!Ids(list)
  <2> DEFINE q == Mapping!At(list, item.id)
  <2>1. q \in DOMAIN list /\ list[q].id = item.id
    BY <1>2 DEF Mapping!Ids, Mapping!At
  <2>2. P = [list EXCEPT ![q] = item]
    BY <1>2 DEF Mapping!Put
  <2> HIDE DEF q, N
  <2>3. /\ DOMAIN P = DOMAIN list /\ P[q] = item
        /\ \A j \in DOMAIN list : j # q => P[j] = list[j]
        /\ P = [j \in DOMAIN P |-> P[j]]
    BY <1>1, <2>1, <2>2
  <2> HIDE DEF P
  <2>4. IsList(P) /\ Len(P) = N
    BY <1>1, <2>3, FunctionIsList
  <2>5. \A j \in DOMAIN list : P[j].id = list[j].id
    BY <2>1, <2>3
  <2>6. Mapping!Ids(P) = Mapping!Ids(list) \cup {item.id}
    BY <1>2, <2>3, <2>5 DEF Mapping!Ids
  <2>7. PutAt(list, item, P, q) /\ q \in Nat
    BY <1>1, <2>1, <2>3, <2>4, <2>6 DEF PutAt
  <2> QED
    BY <1>1, <2>4, <2>7 DEF P, N
<1>3. CASE item.id \notin Mapping!Ids(list)
  <2> DEFINE V == ValuesOf(list) \cup {item}
             q == N + 1
  <2>1. P = Append(list, item)
    BY <1>3 DEF Mapping!Put
  <2>2. list \in Seq(V) /\ item \in V
    <3>1. list \in Seq(ValuesOf(list))
      BY DEF IsList
    <3> QED
      BY <3>1
  <2> HIDE DEF V, P
  <2>3. /\ P \in Seq(V) /\ Len(P) = N + 1 /\ DOMAIN P = 1..(N + 1)
        /\ \A j \in 1..N : P[j] = list[j]
        /\ P[N + 1] = item
    BY <2>1, <2>2
  <2> HIDE DEF N
  <2>4. IsList(P) /\ DOMAIN P = DOMAIN list \cup {q} /\ q \notin DOMAIN list
    BY <1>1, <2>3, SeqIsList
  <2>5. Mapping!Ids(P) = Mapping!Ids(list) \cup {item.id}
    BY <1>1, <2>3, <2>4 DEF Mapping!Ids
  <2>6. PutAt(list, item, P, q) /\ q \in Nat
    BY <1>1, <2>3, <2>4, <2>5 DEF PutAt
  <2> QED
    BY <1>1, <2>3, <2>6 DEF P, N
<1> QED
  BY <1>2, <1>3

\* An item after its references to id have got another value.
Applied(m, id, value) ==
  [m EXCEPT !.props = [p \in DOMAIN @ |->
     IF @[p] = Mapping!Value("entity", id) THEN value ELSE @[p]]]

\* Renaming or removing what an item refers to leaves its id and its color.
LEMMA ItemApplied ==
  ASSUME NEW m, Mapping!IsItem(m), NEW id, NEW value
  PROVE  /\ Mapping!IsItem(Applied(m, id, value))
         /\ Applied(m, id, value).id = m.id
         /\ Applied(m, id, value).color = m.color
         /\ \A S, T : RefsIn(m, T) /\ T \subseteq S \cup {id} /\ ValueIn(value, S)
                        => RefsIn(Applied(m, id, value), S)
<1> DEFINE a == Applied(m, id, value)
           ps == [p \in DOMAIN m.props |->
                    IF m.props[p] = Mapping!Value("entity", id) THEN value ELSE m.props[p]]
<1>1. m = [id |-> m.id, schema |-> m.schema, keys |-> m.keys, props |-> m.props,
           color |-> m.color, at |-> m.at]
  BY DEF Mapping!IsItem
<1>2. a = [id |-> m.id, schema |-> m.schema, keys |-> m.keys, props |-> ps,
           color |-> m.color, at |-> m.at]
  BY <1>1 DEF Applied
<1>3. /\ DOMAIN ps = DOMAIN m.props
      /\ \A p \in DOMAIN m.props :
           ps[p] = IF m.props[p] = Mapping!Value("entity", id) THEN value ELSE m.props[p]
  OBVIOUS
<1> HIDE DEF ps, a
<1>4. /\ Mapping!IsItem(a) /\ a.id = m.id /\ a.color = m.color /\ a.props = ps
  BY <1>2 DEF Mapping!IsItem
<1>5. ASSUME NEW S, NEW T, RefsIn(m, T), T \subseteq S \cup {id}, ValueIn(value, S)
      PROVE  RefsIn(a, S)
  <2> SUFFICES ASSUME NEW p \in DOMAIN m.props PROVE ValueIn(ps[p], S)
    BY <1>3, <1>4 DEF RefsIn
  <2>1. ValueIn(m.props[p], T)
    BY <1>5 DEF RefsIn
  <2>2. CASE m.props[p] = Mapping!Value("entity", id)
    BY <1>3, <1>5, <2>2
  <2>3. CASE m.props[p] # Mapping!Value("entity", id)
    <3>1. ps[p] = m.props[p]
      BY <1>3, <2>3
    <3>2. m.props[p].kind = "entity" => m.props[p].of # id
      BY <2>1, <2>3 DEF ValueIn
    <3>3. ValueIn(m.props[p], S)
      BY <1>5, <2>1, <3>2 DEF ValueIn
    <3> QED
      BY <3>1, <3>3
  <2> QED
    BY <2>2, <2>3
<1> QED
  BY <1>4, <1>5 DEF a

HasItems(list) == IsList(list) /\ \A i \in DOMAIN list : Mapping!IsItem(list[i])

\* The list r that is made of it refers no more to id.
Follows(list, id, value, r) ==
  /\ IsList(r) /\ DOMAIN r = DOMAIN list /\ Mapping!Ids(r) = Mapping!Ids(list)
  /\ \A i \in DOMAIN r : Mapping!IsItem(r[i]) /\ r[i].color = list[i].color
  /\ \A T : /\ \A i \in DOMAIN list : RefsIn(list[i], T)
            /\ T \subseteq Mapping!Ids(list) \cup {id}
            /\ ValueIn(value, Mapping!Ids(list))
            => Mapping!Closed(r)

\* It does so to each item of a list, at its place.
LEMMA ListApplied ==
  ASSUME NEW list, HasItems(list), NEW id, NEW value
  PROVE  Follows(list, id, value, Mapping!ApplyToEntityRefs(list, id, value))
<1> DEFINE r == Mapping!ApplyToEntityRefs(list, id, value)
           A == Mapping!Ids(list)
<1>0. IsList(list) /\ \A i \in DOMAIN list : Mapping!IsItem(list[i])
  BY DEF HasItems
<1>1. DOMAIN list = 1..Len(list) /\ Len(list) \in Nat
  BY <1>0, ListParts
<1>2. r = [i \in DOMAIN list |-> Applied(list[i], id, value)]
  BY DEF Mapping!ApplyToEntityRefs, Applied
<1> HIDE DEF r, A
<1>3. /\ DOMAIN r = DOMAIN list /\ r = [i \in DOMAIN r |-> r[i]]
      /\ \A i \in DOMAIN list : r[i] = Applied(list[i], id, value)
  BY <1>2
<1>4. IsList(r)
  BY <1>1, <1>3, FunctionIsList
<1>5. \A i \in DOMAIN list :
        /\ Mapping!IsItem(r[i]) /\ r[i].id = list[i].id /\ r[i].color = list[i].color
        /\ \A S, T : RefsIn(list[i], T) /\ T \subseteq S \cup {id} /\ ValueIn(value, S)
                        => RefsIn(r[i], S)
  BY <1>0, <1>3, ItemApplied
<1>6. Mapping!Ids(r) = A
  BY <1>3, <1>5 DEF Mapping!Ids, A
<1>7. ASSUME NEW T, \A i \in DOMAIN list : RefsIn(list[i], T), T \subseteq A \cup {id},
             ValueIn(value, A)
      PROVE  Mapping!Closed(r)
  <2>1. \A i \in DOMAIN r : RefsIn(r[i], A)
    BY <1>3, <1>5, <1>7
  <2> QED
    BY <1>6, <2>1, ClosedIs
<1> QED
  BY <1>3, <1>4, <1>5, <1>6, <1>7 DEF r, A, Follows

\* Each item that is left is one of the list, no two the same one.
LEMMA ListWithout ==
  ASSUME NEW list, IsList(list), NEW id
  PROVE  LET w == Mapping!Without(list, id)
         IN /\ IsList(w) /\ Mapping!Ids(w) = Mapping!Ids(list) \ {id}
            /\ \E g \in [DOMAIN w -> {i \in DOMAIN list : list[i].id # id}] :
                 /\ \A k \in DOMAIN w : w[k] = list[g[k]]
                 /\ \A k, m \in DOMAIN w : g[k] = g[m] => k = m
<1> DEFINE S == {m \in Mapping!ToSet(list) : m.id # id}
           w == Mapping!Without(list, id)
           P == Positions(list, S)
           n == Cardinality(P)
           Q == {i \in DOMAIN list : list[i].id # id}
<1>1. w = Filtered(list, S)
  BY MappingFiltered DEF Mapping!Without
<1>2. P = Q
  BY DEF Positions, Mapping!ToSet
<1>3. /\ w \in Seq(ValuesOf(list) \cap S)
      /\ Placed(list, P, w, n)
  <2>1. list \in Seq(ValuesOf(list))
    BY DEF IsList
  <2> HIDE DEF S
  <2> QED
    BY <1>1, <2>1, FilteredPlaces
<1>4. Q \subseteq Nat
  <2>1. DOMAIN list = 1..Len(list)
    BY ListParts
  <2> QED
    BY <2>1
<1>5. \A i : i \in Q <=> i \in DOMAIN list /\ list[i].id # id
  OBVIOUS
<1> HIDE DEF w, P, n, S, Q
<1>6. IsList(w)
  BY <1>3, SeqIsList
<1>7. n \in Nat /\ DOMAIN w = 1..n
  BY <1>3 DEF Placed
<1>8. PICK g \in [1..n -> P] :
           /\ \A k \in 1..n : w[k] = list[g[k]]
           /\ \A k, m \in 1..n : k < m => g[k] < g[m]
           /\ \A i \in P : \E k \in 1..n : g[k] = i
  BY <1>3 DEF Placed
<1>9. \A k \in 1..n : g[k] \in Q /\ g[k] \in Nat
  BY <1>2, <1>4, <1>8
<1>10. \A k, m \in 1..n : g[k] = g[m] => k = m
  <2> SUFFICES ASSUME NEW k \in 1..n, NEW m \in 1..n, g[k] = g[m] PROVE k = m
    OBVIOUS
  <2>1. (k < m => g[k] < g[m]) /\ (m < k => g[m] < g[k])
    BY <1>8
  <2> QED
    BY <1>7, <1>9, <2>1
<1>11. Mapping!Ids(w) = Mapping!Ids(list) \ {id}
  <2>1. ASSUME NEW k \in 1..n PROVE w[k].id \in Mapping!Ids(list) \ {id}
    BY <1>5, <1>8, <1>9 DEF Mapping!Ids
  <2>2. ASSUME NEW x \in Mapping!Ids(list) \ {id} PROVE \E k \in 1..n : w[k].id = x
    <3>1. PICK i \in DOMAIN list : list[i].id = x
      BY DEF Mapping!Ids
    <3>2. i \in P
      BY <1>2, <1>5, <3>1
    <3>3. PICK k \in 1..n : g[k] = i
      BY <1>8, <3>2
    <3> QED
      BY <1>8, <3>1, <3>3
  <2> QED
    BY <1>7, <2>1, <2>2 DEF Mapping!Ids
<1>12. g \in [DOMAIN w -> Q]
  BY <1>2, <1>7, <1>8
<1>13. \E h \in [DOMAIN w -> Q] :
                 /\ \A k \in DOMAIN w : w[k] = list[h[k]]
                 /\ \A k, m \in DOMAIN w : h[k] = h[m] => k = m
  BY <1>7, <1>8, <1>10, <1>12
<1> QED
  BY <1>6, <1>11, <1>13 DEF w, Q

\* The lists that are drawn from, and what an edit has to make of them.
EditOK(list, r) ==
  Mapping!Colored(r) /\ (Mapping!Closed(list) => Mapping!Closed(r))

\* Removing an item leaves the list closed and colored.
LEMMA MappingRemoved ==
  ASSUME NEW list, Mapping!Colored(list), NEW id
  PROVE  EditOK(list, Mapping!RemovedMapping(list, id))
<1> DEFINE w == Mapping!Without(list, id)
           r == Mapping!RemovedMapping(list, id)
           Q == {i \in DOMAIN list : list[i].id # id}
<1>1. r = Mapping!ApplyToEntityRefs(w, id, Mapping!NoValue)
  BY DEF Mapping!RemovedMapping
<1>2. IsList(list) /\ \A i \in DOMAIN list : Mapping!IsItem(list[i])
  BY ColoredIs
<1>3. /\ IsList(w) /\ Mapping!Ids(w) = Mapping!Ids(list) \ {id}
      /\ \E g \in [DOMAIN w -> Q] :
                 /\ \A k \in DOMAIN w : w[k] = list[g[k]]
                 /\ \A k, m \in DOMAIN w : g[k] = g[m] => k = m
  BY <1>2, ListWithout
<1> HIDE DEF w, r
<1>4. PICK g \in [DOMAIN w -> Q] :
                 /\ \A k \in DOMAIN w : w[k] = list[g[k]]
                 /\ \A k, m \in DOMAIN w : g[k] = g[m] => k = m
  BY <1>3
<1>5. g \in [DOMAIN w -> DOMAIN list]
  BY <1>4
<1>6. \A k \in DOMAIN w : w[k] = list[g[k]] /\ g[k] \in DOMAIN list
  BY <1>4, <1>5
<1>7. \A k \in DOMAIN w : Mapping!IsItem(w[k])
  BY <1>2, <1>6
<1>8. /\ IsList(r) /\ DOMAIN r = DOMAIN w
      /\ \A i \in DOMAIN r : Mapping!IsItem(r[i]) /\ r[i].color = w[i].color
      /\ \A T : /\ \A i \in DOMAIN w : RefsIn(w[i], T)
                /\ T \subseteq Mapping!Ids(w) \cup {id}
                /\ ValueIn(Mapping!NoValue, Mapping!Ids(w))
                => Mapping!Closed(r)
  <2>1. HasItems(w)
    BY <1>3, <1>7 DEF HasItems
  <2>2. Follows(w, id, Mapping!NoValue, r)
    BY <1>1, <2>1, ListApplied
  <2> QED
    BY <2>2 DEF Follows
<1>9. Mapping!Colored(r)
  <2>1. g \in [DOMAIN r -> DOMAIN list]
    BY <1>5, <1>8
  <2>2. \A k, m \in DOMAIN r : g[k] = g[m] => k = m
    BY <1>4, <1>8
  <2>3. \A k \in DOMAIN r : Mapping!IsItem(r[k]) /\ r[k].color = list[g[k]].color
    BY <1>6, <1>8
  <2> QED
    BY <1>8, <2>1, <2>2, <2>3, Recolored
<1>10. ASSUME Mapping!Closed(list) PROVE Mapping!Closed(r)
  <2>1. \A i \in DOMAIN list : RefsIn(list[i], Mapping!Ids(list))
    BY <1>10, ClosedIs
  <2>2. \A k \in DOMAIN w : RefsIn(w[k], Mapping!Ids(list))
    BY <1>6, <2>1
  <2>3. Mapping!Ids(list) \subseteq Mapping!Ids(w) \cup {id}
    BY <1>3
  <2> QED
    BY <1>8, <2>2, <2>3, NoValueIn
<1> QED
  BY <1>9, <1>10 DEF r, EditOK

\* Adding an item does, if a color is left.
LEMMA MappingAdded ==
  ASSUME NEW list, Mapping!Colored(list), Len(list) < Mapping!MaxItems, NEW schema
  PROVE  EditOK(list, Mapping!AddedMapping(list, schema))
<1> DEFINE P == Mapping!AddedMapping(list, schema)
           m == [id |-> Mapping!AssignId(list, schema), schema |-> schema, keys |-> {},
                 props |-> Mapping!NoProps(schema),
                 color |-> Mapping!AssignColor(list), at |-> Mapping!None]
<1>1. P = Mapping!Put(list, m)
  BY DEF Mapping!AddedMapping
<1>2. /\ IsList(list) /\ Len(list) <= 11
      /\ \A i \in DOMAIN list : Mapping!IsItem(list[i]) /\ list[i].color \in 0..10
      /\ \A i, j \in DOMAIN list : i # j => list[i].color # list[j].color
  BY ColoredIs
<1>3. Mapping!AssignColor(list) \in 0..10 /\ Mapping!AssignColor(list) \notin ColorsOf(list)
  <2>1. list \in Seq(ValuesOf(list))
    BY <1>2 DEF IsList
  <2>2. /\ Mapping!AssignColor(list) \in Mapping!Colors
        /\ Mapping!AssignColor(list) \notin ColorsOf(list)
    BY <2>1, ColorIsFree
  <2> QED
    BY <2>2 DEF Mapping!Colors, Mapping!MaxItems
<1>4. /\ Mapping!IsItem(m) /\ m.color \in 0..10
      /\ \A i \in DOMAIN list : list[i].color # m.color
  <2>1. m.color = Mapping!AssignColor(list) /\ Mapping!IsItem(m)
    BY DEF Mapping!IsItem
  <2> HIDE DEF m
  <2> QED
    BY <1>3, <2>1 DEF ColorsOf
<1>5. \A S : RefsIn(m, S)
  <2>1. m.props = [p \in Mapping!Properties(schema) |-> Mapping!NoValue]
    BY DEF Mapping!NoProps
  <2> HIDE DEF m
  <2> QED
    BY <2>1, NoValueIn DEF RefsIn
<1> HIDE DEF m, P
<1>6. Len(list) \in Nat /\ Len(list) <= 10
  BY <1>2, ListParts DEF Mapping!MaxItems
<1>7. (\E q \in Nat : PutAt(list, m, P, q)) /\ Len(P) <= Len(list) + 1
  BY <1>1, <1>2, PutItem
<1>8. PICK q \in Nat : PutAt(list, m, P, q)
  BY <1>7
<1>9. /\ IsList(P) /\ DOMAIN P = DOMAIN list \cup {q} /\ P[q] = m
      /\ \A j \in DOMAIN list : j # q => P[j] = list[j]
      /\ Mapping!Ids(P) = Mapping!Ids(list) \cup {m.id}
  BY <1>8 DEF PutAt
<1>10. Len(P) <= 11
  <2>1. Len(P) \in Nat
    BY <1>9, ListParts
  <2> QED
    BY <1>6, <1>7, <2>1
<1>11. \A i \in DOMAIN P : Mapping!IsItem(P[i]) /\ P[i].color \in 0..10
  BY <1>2, <1>4, <1>9
<1>12. \A i, j \in DOMAIN P : i # j => P[i].color # P[j].color
  BY <1>2, <1>4, <1>9
<1>13. Mapping!Colored(P)
  BY <1>9, <1>10, <1>11, <1>12, ColoredIs
<1>14. ASSUME Mapping!Closed(list) PROVE Mapping!Closed(P)
  <2>1. \A i \in DOMAIN list : RefsIn(list[i], Mapping!Ids(list))
    BY <1>14, ClosedIs
  <2>2. \A i \in DOMAIN list : RefsIn(list[i], Mapping!Ids(P))
    BY <1>9, <2>1, RefsGrow
  <2>3. \A i \in DOMAIN P : RefsIn(P[i], Mapping!Ids(P))
    BY <1>5, <1>9, <2>2
  <2> QED
    BY <2>3, ClosedIs
<1> QED
  BY <1>13, <1>14 DEF EditOK, P

\* Changing the id of an item does, also if another has the new one.
LEMMA MappingRenamed ==
  ASSUME NEW list, Mapping!Colored(list), NEW old \in Mapping!Ids(list), NEW new, old # new
  PROVE  EditOK(list, Mapping!ChangedId(list, old, new))
<1> DEFINE o == Mapping!At(list, old)
           m == [list[o] EXCEPT !.id = new]
           P == Mapping!Put(list, m)
           w == Mapping!Without(P, old)
           r == Mapping!ChangedId(list, old, new)
<1>1. r = Mapping!ApplyToEntityRefs(w, old, Mapping!Value("entity", new))
  BY DEF Mapping!ChangedId, Mapping!Get
<1>2. o \in DOMAIN list /\ list[o].id = old
  BY DEF Mapping!Ids, Mapping!At
<1>3. /\ IsList(list)
      /\ \A i \in DOMAIN list : Mapping!IsItem(list[i])
  BY ColoredIs
<1>4. /\ Mapping!IsItem(m) /\ m.id = new /\ m.color = list[o].color
      /\ m.props = list[o].props
  <2>1. Mapping!IsItem(list[o])
    BY <1>2, <1>3
  <2> HIDE DEF o
  <2> QED
    BY <2>1 DEF Mapping!IsItem
<1> HIDE DEF o, m
<1>5. PICK q \in Nat : PutAt(list, m, P, q)
  BY <1>3, PutItem
<1> HIDE DEF P
<1>6. /\ IsList(P) /\ DOMAIN P = DOMAIN list \cup {q} /\ P[q] = m
      /\ \A j \in DOMAIN list : j # q => P[j] = list[j]
      /\ q \in DOMAIN list => list[q].id = new
      /\ Mapping!Ids(P) = Mapping!Ids(list) \cup {new}
  BY <1>4, <1>5 DEF PutAt
<1>7. o # q /\ P[o].id = old
  BY <1>2, <1>6
<1>8. /\ IsList(w) /\ Mapping!Ids(w) = Mapping!Ids(P) \ {old}
      /\ \E g \in [DOMAIN w -> {i \in DOMAIN P : P[i].id # old}] :
           /\ \A k \in DOMAIN w : w[k] = P[g[k]]
           /\ \A k, n \in DOMAIN w : g[k] = g[n] => k = n
  BY <1>6, ListWithout
<1> HIDE DEF w, r
<1>9. PICK g \in [DOMAIN w -> {i \in DOMAIN P : P[i].id # old}] :
           /\ \A k \in DOMAIN w : w[k] = P[g[k]]
           /\ \A k, n \in DOMAIN w : g[k] = g[n] => k = n
  BY <1>8
<1>10. \A k \in DOMAIN w : /\ g[k] \in DOMAIN P /\ P[g[k]].id # old
                           /\ w[k] = P[g[k]]
  BY <1>9
\* The item of the list whose color the k-th has: the renamed one has the old's.
<1> DEFINE h == [k \in DOMAIN w |-> IF g[k] = q THEN o ELSE g[k]]
<1>11. \A k \in DOMAIN w : h[k] = IF g[k] = q THEN o ELSE g[k]
  OBVIOUS
<1>12. h \in [DOMAIN w -> DOMAIN list]
  <2>1. \A k \in DOMAIN w : (IF g[k] = q THEN o ELSE g[k]) \in DOMAIN list
    BY <1>2, <1>6, <1>10
  <2> QED
    BY <2>1
<1> HIDE DEF h
<1>13. \A k, n \in DOMAIN w : h[k] = h[n] => k = n
  <2>1. \A k \in DOMAIN w : g[k] # o
    BY <1>7, <1>10
  <2> QED
    BY <1>9, <1>11, <2>1
<1>14. \A k \in DOMAIN w : Mapping!IsItem(w[k]) /\ w[k].color = list[h[k]].color
  <2> SUFFICES ASSUME NEW k \in DOMAIN w
               PROVE  Mapping!IsItem(w[k]) /\ w[k].color = list[h[k]].color
    OBVIOUS
  <2>1. CASE g[k] = q
    BY <1>4, <1>6, <1>10, <1>11, <2>1
  <2>2. CASE g[k] # q
    <3>1. g[k] \in DOMAIN list /\ w[k] = list[g[k]] /\ h[k] = g[k]
      BY <1>6, <1>10, <1>11, <2>2
    <3> QED
      BY <1>3, <3>1
  <2> QED
    BY <2>1, <2>2
<1>15. /\ IsList(r) /\ DOMAIN r = DOMAIN w
       /\ \A i \in DOMAIN r : Mapping!IsItem(r[i]) /\ r[i].color = w[i].color
       /\ \A T : /\ \A i \in DOMAIN w : RefsIn(w[i], T)
                 /\ T \subseteq Mapping!Ids(w) \cup {old}
                 /\ ValueIn(Mapping!Value("entity", new), Mapping!Ids(w))
                 => Mapping!Closed(r)
  <2>1. HasItems(w)
    BY <1>8, <1>14 DEF HasItems
  <2>2. Follows(w, old, Mapping!Value("entity", new), r)
    BY <1>1, <2>1, ListApplied
  <2> QED
    BY <2>2 DEF Follows
<1>16. Mapping!Colored(r)
  <2>1. h \in [DOMAIN r -> DOMAIN list]
    BY <1>12, <1>15
  <2>2. \A k, n \in DOMAIN r : h[k] = h[n] => k = n
    BY <1>13, <1>15
  <2>3. \A k \in DOMAIN r : Mapping!IsItem(r[k]) /\ r[k].color = list[h[k]].color
    BY <1>14, <1>15
  <2> QED
    BY <1>15, <2>1, <2>2, <2>3, Recolored
<1>17. ASSUME Mapping!Closed(list) PROVE Mapping!Closed(r)
  <2>1. \A i \in DOMAIN list : RefsIn(list[i], Mapping!Ids(list))
    BY <1>17, ClosedIs
  <2>2. RefsIn(m, Mapping!Ids(list))
    <3>1. RefsIn(list[o], Mapping!Ids(list))
      BY <1>2, <2>1
    <3> QED
      BY <1>4, <3>1 DEF RefsIn
  <2>3. \A i \in DOMAIN P : RefsIn(P[i], Mapping!Ids(list))
    BY <1>6, <2>1, <2>2
  <2>4. \A k \in DOMAIN w : RefsIn(w[k], Mapping!Ids(list))
    BY <1>10, <2>3
  <2>5. /\ Mapping!Ids(list) \subseteq Mapping!Ids(w) \cup {old}
        /\ new \in Mapping!Ids(w)
    BY <1>6, <1>8
  <2>6. ValueIn(Mapping!Value("entity", new), Mapping!Ids(w))
    BY <2>5, EntityIn
  <2> QED
    BY <1>15, <2>4, <2>5, <2>6
<1> QED
  BY <1>16, <1>17 DEF r, EditOK

\* An item keeps its id and color while its keys and properties are edited.
LEMMA MappingEdited ==
  ASSUME NEW list, Mapping!Colored(list), NEW id \in Mapping!Ids(list), NEW i,
         i = Mapping!At(list, id)
  PROVE  /\ \A keys : EditOK(list, [list EXCEPT ![i].keys = keys])
         /\ \A p, v : ValueIn(v, Mapping!Ids(list))
                        => EditOK(list, [list EXCEPT ![i].props[p] = v])
<1>1. i \in DOMAIN list /\ list[i].id = id
  BY DEF Mapping!Ids, Mapping!At
<1>2. Mapping!IsItem(list[i])
  BY <1>1, ColoredIs
<1>3. ASSUME Mapping!Closed(list) PROVE RefsIn(list[i], Mapping!Ids(list))
  BY <1>1, <1>3, ClosedIs
<1>4. ASSUME NEW keys PROVE EditOK(list, [list EXCEPT ![i].keys = keys])
  <2> DEFINE m == [list[i] EXCEPT !.keys = keys]
             x == list[i]
  <2>1. /\ Mapping!IsItem(m) /\ m.color = list[i].color /\ m.id = list[i].id
        /\ m.props = list[i].props
    <3>1. Mapping!IsItem(x)
      BY <1>2
    <3> HIDE DEF x
    <3>2. LET n == [x EXCEPT !.keys = keys]
          IN Mapping!IsItem(n) /\ n.color = x.color /\ n.id = x.id /\ n.props = x.props
      BY <3>1 DEF Mapping!IsItem
    <3> QED
      BY <3>2 DEF x
  <2>2. [list EXCEPT ![i].keys = keys] = [list EXCEPT ![i] = m]
    OBVIOUS
  <2> HIDE DEF m
  <2>3. /\ Mapping!Colored([list EXCEPT ![i] = m])
        /\ Mapping!Closed(list) /\ RefsIn(m, Mapping!Ids(list))
             => Mapping!Closed([list EXCEPT ![i] = m])
    BY <1>1, <2>1, ItemReplaced
  <2>4. Mapping!Closed(list) => RefsIn(m, Mapping!Ids(list))
    BY <1>3, <2>1 DEF RefsIn
  <2> QED
    BY <2>2, <2>3, <2>4 DEF EditOK
<1>5. ASSUME NEW p, NEW v, ValueIn(v, Mapping!Ids(list))
      PROVE  EditOK(list, [list EXCEPT ![i].props[p] = v])
  <2> DEFINE x == list[i]
             ps == [x.props EXCEPT ![p] = v]
             m == [x EXCEPT !.props = ps]
  <2>1. /\ Mapping!IsItem(m) /\ m.color = list[i].color /\ m.id = list[i].id
        /\ m.props = ps
    <3>1. Mapping!IsItem(x)
      BY <1>2
    <3> HIDE DEF x, ps
    <3>2. Mapping!IsItem(m) /\ m.color = x.color /\ m.id = x.id /\ m.props = ps
      BY <3>1 DEF Mapping!IsItem
    <3> QED
      BY <3>2 DEF x
  <2>2. [list EXCEPT ![i].props[p] = v] = [list EXCEPT ![i] = m]
    OBVIOUS
  <2>3. Mapping!Closed(list) => RefsIn(m, Mapping!Ids(list))
    <3> SUFFICES ASSUME Mapping!Closed(list) PROVE RefsIn(m, Mapping!Ids(list))
      OBVIOUS
    <3>1. \A y \in DOMAIN x.props : ValueIn(x.props[y], Mapping!Ids(list))
      BY <1>3 DEF RefsIn
    <3>2. /\ DOMAIN ps = DOMAIN x.props
          /\ \A y \in DOMAIN x.props : ps[y] = x.props[y] \/ ps[y] = v
      OBVIOUS
    <3> HIDE DEF m, ps, x
    <3>3. \A y \in DOMAIN ps : ValueIn(ps[y], Mapping!Ids(list))
      BY <1>5, <3>1, <3>2
    <3> QED
      BY <2>1, <3>3 DEF RefsIn
  <2> HIDE DEF m, ps
  <2>4. /\ Mapping!Colored([list EXCEPT ![i] = m])
        /\ Mapping!Closed(list) /\ RefsIn(m, Mapping!Ids(list))
             => Mapping!Closed([list EXCEPT ![i] = m])
    BY <1>1, <2>1, ItemReplaced
  <2> QED
    BY <2>2, <2>3, <2>4 DEF EditOK
<1> QED
  BY <1>4, <1>5

QShort(m) == m = [id |-> m.id, query |-> m.query] /\ Mapping!Short(m.query)

\* The list that is made of a query is colored, and closed if that was.
LEMMA MappingLoaded ==
  ASSUME NEW query, Mapping!Short(query), NEW shared
  PROVE  /\ Mapping!Colored(Mapping!Load(query, shared))
         /\ Mapping!Closed(query) => Mapping!Closed(Mapping!Load(query, shared))
<1> DEFINE n == Len(query)
           r == FirstLoaded(query, shared, n)
<1>1. IsList(query) /\ n <= 11
  BY ShortIs
<1>2. DOMAIN query = 1..n /\ n \in Nat
  BY <1>1, ListParts
<1>3. Mapping!Load(query, shared) = r
  <2>1. query \in Seq(ValuesOf(query))
    BY <1>1 DEF IsList
  <2> QED
    BY <1>1, <2>1, LoadIs
<1> HIDE DEF n
<1>4. /\ DOMAIN r = 1..n /\ r = [k \in DOMAIN r |-> r[k]]
      /\ \A k \in 1..n : r[k] = Loaded(query, shared, k)
  BY DEF FirstLoaded
<1> HIDE DEF r
<1>5. IsList(r) /\ Len(r) = n
  BY <1>2, <1>4, FunctionIsList
<1>6. \A k \in 1..n : /\ Mapping!IsItem(r[k]) /\ r[k].color = k - 1
                      /\ r[k].id = query[k].id /\ r[k].props = query[k].props
  <2>1. \A k \in 1..n : LET x == Loaded(query, shared, k)
                        IN /\ Mapping!IsItem(x) /\ x.color = k - 1
                           /\ x.id = query[k].id /\ x.props = query[k].props
    BY DEF Loaded, Mapping!IsItem
  <2> QED
    BY <1>4, <2>1
<1>7. \A k \in 1..n : r[k].color \in 0..10
  <2>1. \A k \in 1..n : k - 1 \in 0..10
    BY <1>1, <1>2
  <2> QED
    BY <1>6, <2>1
<1>8. \A k, m \in 1..n : k # m => r[k].color # r[m].color
  BY <1>2, <1>6
<1>9. Mapping!Colored(r)
  BY <1>1, <1>4, <1>5, <1>6, <1>7, <1>8, ColoredIs
<1>10. ASSUME Mapping!Closed(query) PROVE Mapping!Closed(r)
  <2>1. \A k \in 1..n : RefsIn(query[k], Mapping!Ids(query))
    BY <1>2, <1>10, ClosedIs
  <2>2. Mapping!Ids(r) = Mapping!Ids(query)
    BY <1>2, <1>4, <1>6 DEF Mapping!Ids
  <2>3. \A k \in 1..n : RefsIn(r[k], Mapping!Ids(r))
    BY <1>6, <2>1, <2>2 DEF RefsIn
  <2> QED
    BY <1>4, <2>3, ClosedIs
<1> QED
  BY <1>3, <1>9, <1>10

\* What is sent refers to what the list does.
LEMMA MappingFormatted ==
  ASSUME NEW list, Mapping!Colored(list)
  PROVE  /\ Mapping!Short(Mapping!ToApiFormat(list))
         /\ Mapping!Closed(list) => Mapping!Closed(Mapping!ToApiFormat(list))
<1> DEFINE r == Mapping!ToApiFormat(list)
<1>1. IsList(list) /\ Len(list) <= 11
  BY ColoredIs
<1>2. DOMAIN list = 1..Len(list) /\ Len(list) \in Nat
  BY <1>1, ListParts
<1>3. /\ DOMAIN r = DOMAIN list /\ r = [i \in DOMAIN r |-> r[i]]
      /\ \A i \in DOMAIN list : r[i].id = list[i].id /\ r[i].props = list[i].props
  BY DEF Mapping!ToApiFormat
<1> HIDE DEF r
<1>4. IsList(r) /\ Len(r) = Len(list)
  BY <1>2, <1>3, FunctionIsList
<1>5. Mapping!Short(r)
  BY <1>1, <1>4, ShortIs
<1>6. ASSUME Mapping!Closed(list) PROVE Mapping!Closed(r)
  <2>1. \A i \in DOMAIN list : RefsIn(list[i], Mapping!Ids(list))
    BY <1>6, ClosedIs
  <2>2. Mapping!Ids(r) = Mapping!Ids(list)
    BY <1>3 DEF Mapping!Ids
  <2>3. \A i \in DOMAIN r : RefsIn(r[i], Mapping!Ids(r))
    BY <1>3, <2>1, <2>2 DEF RefsIn
  <2> QED
    BY <2>3, ClosedIs
<1> QED
  BY <1>5, <1>6 DEF r

\* What is imported of a query refers to what it has.
LEMMA MappingProcessed ==
  ASSUME NEW query, Mapping!Importable(query)
  PROVE  Mapping!Short(Mapping!Processed(query)) /\ Mapping!Closed(Mapping!Processed(query))
<1> DEFINE r == Mapping!Processed(query)
           ps(m) == [p \in DOMAIN m.props |->
                       IF m.props[p].kind = "column" /\ m.props[p].of \notin Mapping!Columns
                         THEN Mapping!NoValue ELSE m.props[p]]
           ks(m) == m.keys \cap Mapping!Columns
           one(m) == [m EXCEPT !.keys = @ \cap Mapping!Columns,
                               !.props = [p \in DOMAIN @ |->
                                 IF @[p].kind = "column" /\ @[p].of \notin Mapping!Columns
                                   THEN Mapping!NoValue ELSE @[p]]]
<1>1. /\ Mapping!Short(query) /\ Mapping!Closed(query)
      /\ \A i \in DOMAIN query :
           query[i] = [id |-> query[i].id, schema |-> query[i].schema,
                       keys |-> query[i].keys, props |-> query[i].props]
  BY DEF Mapping!Importable
<1>2. IsList(query) /\ Len(query) <= 11
  BY <1>1, ShortIs
<1>3. DOMAIN query = 1..Len(query) /\ Len(query) \in Nat
  BY <1>2, ListParts
<1>4. r = [i \in DOMAIN query |-> one(query[i])]
  BY DEF Mapping!Processed
<1>5. \A i \in DOMAIN query : /\ one(query[i]).id = query[i].id
                              /\ one(query[i]).props = ps(query[i])
  <2> SUFFICES ASSUME NEW i \in DOMAIN query
               PROVE  /\ one(query[i]).id = query[i].id
                      /\ one(query[i]).props = ps(query[i])
    OBVIOUS
  <2> DEFINE a == query[i].id
             b == query[i].schema
             c == query[i].keys
             e == query[i].props
             m == [id |-> a, schema |-> b, keys |-> c, props |-> e]
  <2>1. query[i] = m
    BY <1>1
  <2> HIDE DEF a, b, c, e
  <2>2. one(m) = [id |-> a, schema |-> b, keys |-> ks(m), props |-> ps(m)]
    <3>1. one(m) = [m EXCEPT !.keys = ks(m), !.props = ps(m)]
      OBVIOUS
    <3> DEFINE k == ks(m)
               x == ps(m)
    <3>2. one(m) = [m EXCEPT !.keys = k, !.props = x]
      BY <3>1
    <3> HIDE DEF k, x, one, ks, ps
    <3>3. one(m) = [id |-> a, schema |-> b, keys |-> k, props |-> x]
      BY <3>2
    <3> QED
      BY <3>3 DEF k, x
  <2>3. one(m).id = m.id /\ one(m).props = ps(m)
    BY <2>2
  <2> HIDE DEF m, one, ps
  <2> QED
    BY <2>1, <2>3
<1> HIDE DEF r, one
<1>6. /\ DOMAIN r = DOMAIN query /\ r = [i \in DOMAIN r |-> r[i]]
      /\ \A i \in DOMAIN query : r[i].id = query[i].id /\ r[i].props = ps(query[i])
  BY <1>4, <1>5
<1>7. IsList(r) /\ Len(r) = Len(query)
  BY <1>3, <1>6, FunctionIsList
<1>8. Mapping!Short(r)
  BY <1>2, <1>7, ShortIs
<1>9. Mapping!Ids(r) = Mapping!Ids(query)
  BY <1>6 DEF Mapping!Ids
<1>10. ASSUME NEW i \in DOMAIN query PROVE RefsIn(r[i], Mapping!Ids(query))
  <2>1. RefsIn(query[i], Mapping!Ids(query))
    BY <1>1, ClosedIs
  <2>2. r[i].props = ps(query[i])
    BY <1>6
  <2>3. /\ DOMAIN ps(query[i]) = DOMAIN query[i].props
        /\ \A p \in DOMAIN query[i].props :
             \/ ps(query[i])[p] = query[i].props[p]
             \/ ps(query[i])[p] = Mapping!NoValue
    OBVIOUS
  <2> HIDE DEF ps
  <2>4. \A p \in DOMAIN ps(query[i]) : ValueIn(ps(query[i])[p], Mapping!Ids(query))
    BY <2>1, <2>3, NoValueIn DEF RefsIn
  <2> QED
    BY <2>2, <2>4 DEF RefsIn
<1>11. Mapping!Closed(r)
  BY <1>6, <1>9, <1>10, ClosedIs
<1> QED
  BY <1>8, <1>11 DEF r

\* What is written to the server is short enough to load.
LEMMA MappingWritten ==
  ASSUME QShort(s3), NEW list
  PROVE  QShort(Mapping!Written(list))
<1> DEFINE new(x) == LET S == {j \in DOMAIN list : list[j].at = x.id}
                     IN IF S = {} THEN x
                        ELSE LET m == list[CHOOSE j \in S : TRUE]
                             IN [x EXCEPT !.keys = m.keys, !.props = m.props]
           q == s3.query
           r == [i \in DOMAIN q |-> new(q[i])]
<1>1. Mapping!Written(list) = [s3 EXCEPT !.query = [i \in DOMAIN @ |-> new(@[i])]]
  BY DEF Mapping!Written
<1> HIDE DEF new
<1>2. s3 = [id |-> s3.id, query |-> q] /\ Mapping!Short(q)
  BY DEF QShort
<1>3. [s3 EXCEPT !.query = [i \in DOMAIN @ |-> new(@[i])]]
        = [id |-> s3.id, query |-> r]
  BY <1>2
<1>4. IsList(q) /\ Len(q) <= 11
  BY <1>2, ShortIs
<1>5. DOMAIN q = 1..Len(q) /\ Len(q) \in Nat
  BY <1>4, ListParts
<1>6. DOMAIN r = DOMAIN q /\ r = [i \in DOMAIN r |-> r[i]]
  OBVIOUS
<1> HIDE DEF r, q
<1>7. IsList(r) /\ Len(r) = Len(q)
  BY <1>5, <1>6, FunctionIsList
<1>8. Mapping!Short(r)
  BY <1>4, <1>7, ShortIs
<1> QED
  BY <1>1, <1>3, <1>8 DEF QShort

\* The query of an address has one item, that refers to none.
LEMMA MappingAddressed ==
  ASSUME NEW schema
  PROVE  LET query == <<[id |-> schema, schema |-> schema, keys |-> {},
                         props |-> Mapping!NoProps(schema)]>>
         IN Mapping!Short(query) /\ Mapping!Closed(query)
<1> DEFINE m == [id |-> schema, schema |-> schema, keys |-> {},
                 props |-> Mapping!NoProps(schema)]
           query == <<m>>
<1>1. \A S : RefsIn(m, S)
  <2>1. m.props = [p \in Mapping!Properties(schema) |-> Mapping!NoValue]
    BY DEF Mapping!NoProps
  <2> HIDE DEF m
  <2> QED
    BY <2>1, NoValueIn DEF RefsIn
<1> HIDE DEF m
<1>2. /\ query \in Seq({m}) /\ Len(query) = 1 /\ DOMAIN query = {1}
      /\ query[1] = m
  OBVIOUS
<1> HIDE DEF query
<1>3. IsList(query)
  BY <1>2, SeqIsList
<1>4. Mapping!Short(query)
  <2>1. Len(query) <= 11
    BY <1>2
  <2> QED
    BY <1>3, <2>1, ShortIs
<1>5. Mapping!Closed(query)
  BY <1>1, <1>2, ClosedIs
<1> QED
  BY <1>4, <1>5 DEF query, m

\* What the page makes a list of, if anything: the list is colored, and closed
\* if none of the queries it may be made of is what edits left in the store.
LEMMA MappingMade ==
  ASSUME NEW imp, NEW st, NEW otherwise, QShort(imp), QShort(st),
         Mapping!Colored(otherwise), Mapping!Closed(imp.query),
         s12 => Mapping!Closed(otherwise) /\ Mapping!Closed(s11'.query),
         Mapping!LoadFromMappingData(imp, st, otherwise)
  PROVE  /\ Mapping!Colored(s6') /\ (s12' => s12)
         /\ s12' => Mapping!Closed(s6')
<1> DEFINE d == Mapping!MappingData(imp, st)
<1>1. /\ s6' = IF d.from = Mapping!None THEN otherwise
               ELSE Mapping!Load(d.query, d.from = "store")
      /\ s12' = (s12 /\ (d.from = "store" => st.query = s11'.query))
  BY DEF Mapping!LoadFromMappingData, Mapping!Show
<1>2. \/ d.from = "file" /\ d.query = imp.query
      \/ d.from = "store" /\ d.query = st.query
      \/ /\ d.from = "address"
         /\ d.query = <<[id |-> s5, schema |-> s5, keys |-> {},
                         props |-> Mapping!NoProps(s5)]>>
      \/ d.from = Mapping!None /\ d.query = <<>>
  BY DEF Mapping!MappingData, Mapping!None
<1>3. "file" # "store" /\ "address" # "store" /\ Mapping!None # "store"
  BY DEF Mapping!None
<1> HIDE DEF d
<1>4. /\ Mapping!Short(d.query)
      /\ d.from # "store" => Mapping!Closed(d.query)
      /\ s12' /\ d.from = "store" => Mapping!Closed(d.query)
  <2>1. CASE d.from = "file" /\ d.query = imp.query
    BY <1>3, <2>1 DEF QShort
  <2>2. CASE d.from = "store" /\ d.query = st.query
    BY <1>1, <2>2 DEF QShort
  <2>3. CASE /\ d.from = "address"
             /\ d.query = <<[id |-> s5, schema |-> s5, keys |-> {},
                             props |-> Mapping!NoProps(s5)]>>
    BY <1>3, <2>3, MappingAddressed
  <2>4. CASE d.from = Mapping!None /\ d.query = <<>>
    BY <1>3, <2>4, NoneIsClosed
  <2> QED
    BY <1>2, <2>1, <2>2, <2>3, <2>4
<1>5. CASE d.from = Mapping!None
  BY <1>1, <1>5
<1>6. CASE d.from # Mapping!None
  <2>1. /\ Mapping!Colored(Mapping!Load(d.query, d.from = "store"))
        /\ Mapping!Closed(d.query)
             => Mapping!Closed(Mapping!Load(d.query, d.from = "store"))
    <3> DEFINE sh == d.from = "store"
    <3> HIDE DEF sh
    <3>1. /\ Mapping!Colored(Mapping!Load(d.query, sh))
          /\ Mapping!Closed(d.query) => Mapping!Closed(Mapping!Load(d.query, sh))
      BY <1>4, MappingLoaded
    <3> QED
      BY <3>1 DEF sh
  <2> QED
    BY <1>1, <1>4, <1>6, <2>1
<1> QED
  BY <1>5, <1>6

RequestsShort == \A r \in s10 : Mapping!Short(r.query)
RequestsClosed == \A r \in s10 : Mapping!Closed(r.query)

\* The parts of the invariant.
MappingAll ==
  /\ Mapping!Colored(s6)
  /\ QShort(s3) /\ QShort(s4) /\ QShort(s11) /\ RequestsShort
  /\ Mapping!FileKnown
  /\ Mapping!Closed(s4.query)
  /\ s12 => Mapping!Closed(s6) /\ Mapping!Closed(s11.query) /\ RequestsClosed

\* The invariant of the mapping editor, in parts.
LEMMA MappingParts == Mapping!Inv <=> MappingAll
BY DEF Mapping!Inv, MappingAll, Mapping!QueriesShort, Mapping!QueriesClosed,
  QShort, RequestsShort, RequestsClosed

\* A page without a mapping has the empty query.
LEMMA NoMappingShort ==
  QShort(Mapping!NoMapping) /\ Mapping!Closed(Mapping!NoMapping.query)
BY NoneIsClosed DEF QShort, Mapping!NoMapping

\* Without a file nothing is to be known of it.
LEMMA NoFileKnown ==
  /\ s9 = Mapping!NoFile => Mapping!FileKnown
  /\ s9' = Mapping!NoFile => Mapping!FileKnown'
BY DEF Mapping!NoFile, Mapping!FileKnown

\* The invariant holds before the page is open.
LEMMA MappingInit == Mapping!Init => Mapping!Inv
<1> SUFFICES ASSUME Mapping!Init PROVE MappingAll
  BY MappingParts
<1>1. /\ s3 = Mapping!NoMapping /\ s4 = Mapping!NoMapping /\ s6 = <<>>
      /\ s9 = Mapping!NoFile /\ s10 = {} /\ s11 = Mapping!NoMapping
  BY DEF Mapping!Init
<1> QED
  BY <1>1, NoMappingShort, NoneIsClosed, NoFileKnown
  DEF MappingAll, RequestsShort, RequestsClosed

\* The variables the invariant is about, all but the list.
Rest == <<s3, s4, s9, s10, s11>>

\* Steps of the form alone leave the server and the requests as they are.
LEMMA RestStays ==
  ASSUME MappingAll, UNCHANGED Rest
  PROVE  /\ QShort(s3') /\ QShort(s4') /\ QShort(s11') /\ RequestsShort'
         /\ Mapping!FileKnown' /\ Mapping!Closed(s4'.query)
         /\ s12 => Mapping!Closed(s11'.query) /\ RequestsClosed'
<1>1. s3' = s3 /\ s4' = s4 /\ s9' = s9 /\ s10' = s10 /\ s11' = s11
  BY DEF Rest
<1> QED
  BY <1>1 DEF MappingAll, RequestsShort, RequestsClosed, Mapping!FileKnown

\* An edit of the list is one of the query in the store too.
LEMMA MappingEdit ==
  ASSUME MappingAll, NEW r, EditOK(s6, r), Mapping!Edit(r)
  PROVE  MappingAll'
<1>1. /\ s6' = r /\ s3' = Mapping!Written(r)
      /\ s4' = s4 /\ s9' = s9 /\ s10' = s10 /\ s11' = s11 /\ s12' = s12
  BY DEF Mapping!Edit, Mapping!Show
<1>2. QShort(s3')
  <2>1. QShort(s3)
    BY DEF MappingAll
  <2> QED
    BY <1>1, <2>1, MappingWritten
<1>3. Mapping!Colored(s6') /\ (s12' => Mapping!Closed(s6'))
  BY <1>1 DEF EditOK, MappingAll
<1> QED
  BY <1>1, <1>2, <1>3
  DEF MappingAll, RequestsShort, RequestsClosed, Mapping!FileKnown

\* Changes of the list preserve what holds of it.
LEMMA MappingChanges ==
  ASSUME MappingAll,
         \/ \E schema \in Mapping!Schemata : Mapping!AddMapping(schema)
         \/ \E id \in Mapping!Ids(s6) :
              \/ Mapping!RemoveMapping(id)
              \/ \E name \in Names : Mapping!ChangeId(id, name)
              \/ \E key \in Mapping!Columns :
                   Mapping!AddKey(id, key) \/ Mapping!RemoveKey(id, key)
              \/ \E end \in Mapping!Ends, of \in Mapping!Ids(s6) :
                   Mapping!SelectEntity(id, end, of)
              \/ \E p \in Attributes : Mapping!AddLiteral(id, p) \/ Mapping!EditLiteral(id, p)
              \/ \E p \in Attributes, c \in Mapping!Columns : Mapping!SelectProperty(c, id, p)
              \/ \E p \in Attributes \cup Mapping!Ends : Mapping!RemoveProperty(id, p)
  PROVE  MappingAll'
<1>1. Mapping!Colored(s6)
  BY DEF MappingAll
<1>2. ASSUME NEW schema, Mapping!AddMapping(schema) PROVE MappingAll'
  <2>1. EditOK(s6, Mapping!AddedMapping(s6, schema))
    BY <1>1, <1>2, MappingAdded DEF Mapping!AddMapping
  <2> QED
    BY <1>2, <2>1, MappingEdit DEF Mapping!AddMapping
<1>3. ASSUME NEW id \in Mapping!Ids(s6), Mapping!RemoveMapping(id) PROVE MappingAll'
  <2>1. EditOK(s6, Mapping!RemovedMapping(s6, id))
    BY <1>1, MappingRemoved
  <2> QED
    BY <1>3, <2>1, MappingEdit DEF Mapping!RemoveMapping
<1>4. ASSUME NEW id \in Mapping!Ids(s6), NEW name, Mapping!ChangeId(id, name)
      PROVE  MappingAll'
  <2>1. id # name
    BY <1>4 DEF Mapping!ChangeId
  <2>2. EditOK(s6, Mapping!ChangedId(s6, id, name))
    BY <1>1, <2>1, MappingRenamed
  <2> QED
    BY <1>4, <2>2, MappingEdit DEF Mapping!ChangeId
<1>5. ASSUME NEW id \in Mapping!Ids(s6), NEW key,
             Mapping!AddKey(id, key) \/ Mapping!RemoveKey(id, key)
      PROVE  MappingAll'
  <2> DEFINE i == Mapping!At(s6, id)
  <2>1. \A keys : EditOK(s6, [s6 EXCEPT ![i].keys = keys])
    <3>1. i = Mapping!At(s6, id)
      OBVIOUS
    <3> HIDE DEF i
    <3> QED
      BY <1>1, <3>1, MappingEdited
  <2>2. \E keys : Mapping!Edit([s6 EXCEPT ![i].keys = keys])
    <3>1. CASE Mapping!AddKey(id, key)
      <4>1. Mapping!Edit([s6 EXCEPT ![i].keys = s6[i].keys \cup {key}])
        BY <3>1 DEF Mapping!AddKey
      <4> QED
        BY <4>1
    <3>2. CASE Mapping!RemoveKey(id, key)
      <4>1. Mapping!Edit([s6 EXCEPT ![i].keys = s6[i].keys \ {key}])
        BY <3>2 DEF Mapping!RemoveKey
      <4> QED
        BY <4>1
    <3> QED
      BY <1>5, <3>1, <3>2
  <2> HIDE DEF i
  <2>3. PICK keys : Mapping!Edit([s6 EXCEPT ![i].keys = keys])
    BY <2>2
  <2> QED
    BY <2>1, <2>3, MappingEdit
\* The other edits give an item's property another value.
<1> DEFINE Sets(id) ==
      \E p, v : /\ ValueIn(v, Mapping!Ids(s6))
                /\ Mapping!Edit([s6 EXCEPT ![Mapping!At(s6, id)].props[p] = v])
<1>6. ASSUME NEW id \in Mapping!Ids(s6), Sets(id) PROVE MappingAll'
  <2> DEFINE i == Mapping!At(s6, id)
  <2>1. \A p, v : ValueIn(v, Mapping!Ids(s6)) => EditOK(s6, [s6 EXCEPT ![i].props[p] = v])
    <3>1. i = Mapping!At(s6, id)
      OBVIOUS
    <3> HIDE DEF i
    <3> QED
      BY <1>1, <3>1, MappingEdited
  <2>2. PICK p, v : /\ ValueIn(v, Mapping!Ids(s6))
                    /\ Mapping!Edit([s6 EXCEPT ![i].props[p] = v])
    BY <1>6
  <2> HIDE DEF i
  <2>3. EditOK(s6, [s6 EXCEPT ![i].props[p] = v])
    BY <2>1, <2>2
  <2> QED
    BY <2>2, <2>3, MappingEdit
<1>7. \A kind, of : kind # "entity" => ValueIn(Mapping!Value(kind, of), Mapping!Ids(s6))
  BY DEF ValueIn, Mapping!Value
<1>8. ASSUME NEW id \in Mapping!Ids(s6), NEW end, NEW of \in Mapping!Ids(s6),
             Mapping!SelectEntity(id, end, of)
      PROVE  Sets(id)
  <2>1. ValueIn(Mapping!Value("entity", of), Mapping!Ids(s6))
    BY EntityIn
  <2> QED
    BY <1>8, <2>1 DEF Mapping!SelectEntity, Mapping!AddedProperty
<1>9. ASSUME NEW id \in Mapping!Ids(s6), NEW p,
             Mapping!AddLiteral(id, p) \/ Mapping!EditLiteral(id, p)
      PROVE  Sets(id)
  <2>1. \A of : ValueIn(Mapping!Value("literal", of), Mapping!Ids(s6))
    BY <1>7
  <2> QED
    BY <1>9, <2>1 DEF Mapping!AddLiteral, Mapping!EditLiteral, Mapping!AddedProperty
<1>10. ASSUME NEW id \in Mapping!Ids(s6), NEW p, Mapping!RemoveProperty(id, p)
       PROVE  Sets(id)
  <2>1. ValueIn(Mapping!NoValue, Mapping!Ids(s6))
    BY NoValueIn
  <2> QED
    BY <1>10, <2>1 DEF Mapping!RemoveProperty, Mapping!AddedProperty
<1>11. ASSUME NEW id \in Mapping!Ids(s6), NEW p, NEW c, Mapping!SelectProperty(c, id, p)
       PROVE  MappingAll'
  <2> DEFINE i == Mapping!At(s6, id)
             v == Mapping!Value("column", c)
             added == [s6 EXCEPT ![i].props[p] = v]
  <2>1. ValueIn(v, Mapping!Ids(s6))
    BY <1>7
  <2>2. EditOK(s6, added)
    <3>1. i = Mapping!At(s6, id)
      OBVIOUS
    <3> HIDE DEF i, v
    <3> QED
      BY <1>1, <2>1, <3>1, MappingEdited
  <2>3. i \in DOMAIN s6
    BY DEF Mapping!Ids, Mapping!At
  <2>4. added = Mapping!AddedProperty(s6, id, p, v)
    BY DEF Mapping!AddedProperty
  <2>5. \/ Mapping!Edit(added)
        \/ \E b : Mapping!Edit(Mapping!AddedProperty(added, id, b, Mapping!NoValue))
    BY <1>11, <2>4 DEF Mapping!SelectProperty
  <2>6. Mapping!Ids(added) = Mapping!Ids(s6)
    <3>1. Mapping!IsItem(s6[i])
      BY <1>1, <2>3, ColoredIs
    <3>2. \A j \in DOMAIN s6 : added[j].id = s6[j].id
      BY <2>3, <3>1 DEF Mapping!IsItem
    <3> HIDE DEF i, v
    <3>3. DOMAIN added = DOMAIN s6
      OBVIOUS
    <3> HIDE DEF added
    <3> QED
      BY <3>2, <3>3 DEF Mapping!Ids
  <2> HIDE DEF added, i, v
  <2>7. Mapping!Colored(added)
    BY <2>2 DEF EditOK
  <2>8. ASSUME NEW b PROVE EditOK(s6, Mapping!AddedProperty(added, id, b, Mapping!NoValue))
    <3> DEFINE k == Mapping!At(added, id)
    <3>1. k = Mapping!At(added, id) /\ id \in Mapping!Ids(added)
      BY <2>6
    <3> HIDE DEF k
    <3>2. \A q, x : ValueIn(x, Mapping!Ids(added))
                      => EditOK(added, [added EXCEPT ![k].props[q] = x])
      BY <2>7, <3>1, MappingEdited
    <3>3. EditOK(added, [added EXCEPT ![k].props[b] = Mapping!NoValue])
      BY <3>2, NoValueIn
    <3>4. EditOK(added, Mapping!AddedProperty(added, id, b, Mapping!NoValue))
      BY <3>1, <3>3 DEF Mapping!AddedProperty
    <3> QED
      BY <2>2, <3>4 DEF EditOK
  <2> QED
    BY <2>2, <2>5, <2>8, MappingEdit
<1> HIDE DEF Sets
<1> QED
  BY <1>2, <1>3, <1>4, <1>5, <1>6, <1>8, <1>9, <1>10, <1>11

\* The other steps of the page: what they leave alone, and what they do.
LEMMA MappingOthers ==
  ASSUME MappingAll,
         \/ Mapping!Leave \/ Mapping!ToggleDialog \/ Mapping!Order
         \/ \E set \in EntitySets \cup {Mapping!None} : Mapping!SelectEntitySet(set)
         \/ \E queries \in Files : Mapping!OpenFile(queries)
         \/ \E n \in DOMAIN s9.queries : Mapping!SelectQuery(n)
  PROVE  MappingAll'
<1>1. CASE Mapping!Leave
  <2>1. /\ s6' = <<>> /\ s9' = Mapping!NoFile /\ s4' = Mapping!NoMapping
        /\ s11' = s11 /\ s12' = s12
        /\ \/ s3' = s3 /\ s10' = s10
           \/ s3' = Mapping!NoMapping /\ s10' = {}
    BY <1>1 DEF Mapping!Leave
  <2>2. Mapping!FileKnown'
    BY <2>1, NoFileKnown
  <2> QED
    BY <2>1, <2>2, NoMappingShort, NoneIsClosed
    DEF MappingAll, RequestsShort, RequestsClosed
<1>2. CASE Mapping!ToggleDialog
  <2>1. /\ s9' = Mapping!NoFile
        /\ s3' = s3 /\ s4' = s4 /\ s6' = s6 /\ s10' = s10 /\ s11' = s11 /\ s12' = s12
    BY <1>2 DEF Mapping!ToggleDialog, Mapping!data
  <2>2. Mapping!FileKnown'
    BY <2>1, NoFileKnown
  <2> QED
    BY <2>1, <2>2 DEF MappingAll, RequestsShort, RequestsClosed
<1>3. CASE Mapping!Order
  <2> DEFINE r == [kind |-> s8, query |-> <<>>, set |-> Mapping!None]
  <2>1. /\ s10' = s10 \cup {r}
        /\ s3' = s3 /\ s4' = s4 /\ s6' = s6 /\ s9' = s9 /\ s11' = s11 /\ s12' = s12
    BY <1>3 DEF Mapping!Order, Mapping!data
  <2>2. Mapping!Short(r.query) /\ Mapping!Closed(r.query)
    BY NoneIsClosed
  <2> HIDE DEF r
  <2> QED
    BY <2>1, <2>2 DEF MappingAll, RequestsShort, RequestsClosed, Mapping!FileKnown
<1>4. ASSUME NEW set, Mapping!SelectEntitySet(set) PROVE MappingAll'
  <2>1. /\ s3' = s3 /\ s4' = s4 /\ s6' = s6 /\ s9' = s9 /\ s10' = s10
        /\ s11' = s11 /\ s12' = s12
    BY <1>4 DEF Mapping!SelectEntitySet, Mapping!data
  <2> QED
    BY <2>1 DEF MappingAll, RequestsShort, RequestsClosed, Mapping!FileKnown
<1>5. ASSUME NEW queries \in Files, Mapping!OpenFile(queries) PROVE MappingAll'
  <2> DEFINE one == IF Len(queries) = 1 THEN 1 ELSE 0
  <2>1. /\ s9' = [queries |-> queries, index |-> one]
        /\ s3' = s3 /\ s4' = s4 /\ s6' = s6 /\ s10' = s10 /\ s11' = s11 /\ s12' = s12
    BY <1>5 DEF Mapping!OpenFile, Mapping!data, Mapping!editor
  <2>2. one = 0 \/ one \in DOMAIN queries
    <3>1. queries \in Seq({queries[n] : n \in DOMAIN queries})
      BY MappingAssumption
    <3> QED
      BY <3>1
  <2> HIDE DEF one
  <2>3. s9'.queries = queries /\ s9'.index = one
    BY <2>1
  <2>4. Mapping!FileKnown'
    BY <2>2, <2>3 DEF Mapping!FileKnown
  <2> QED
    BY <2>1, <2>4 DEF MappingAll, RequestsShort, RequestsClosed
<1>6. ASSUME NEW n \in DOMAIN s9.queries, Mapping!SelectQuery(n) PROVE MappingAll'
  <2>1. /\ s9' = [s9 EXCEPT !.index = n] /\ s9.queries \in Files \cup {<<>>}
        /\ s3' = s3 /\ s4' = s4 /\ s6' = s6 /\ s10' = s10 /\ s11' = s11 /\ s12' = s12
    BY <1>6 DEF Mapping!SelectQuery, Mapping!data, Mapping!editor, MappingAll,
      Mapping!FileKnown
  <2>2. s9'.queries = s9.queries /\ (s9'.index = n \/ s9'.index = s9.index)
    BY <2>1
  <2>3. Mapping!FileKnown'
    BY <2>1, <2>2 DEF Mapping!FileKnown, MappingAll
  <2> QED
    BY <2>1, <2>3 DEF MappingAll, RequestsShort, RequestsClosed
<1> QED
  BY <1>1, <1>2, <1>3, <1>4, <1>5, <1>6

\* The list after the page was given what there is.
ListOK ==
  Mapping!Colored(s6') /\ (s12' => s12) /\ (s12' => Mapping!Closed(s6'))

\* So does opening the editor with a mapping.
LEMMA MappingMounted ==
  ASSUME MappingAll, NEW st, QShort(st), s12 => Mapping!Closed(s11'.query),
         Mapping!MountEditor(st)
  PROVE  ListOK
<1>1. Mapping!LoadFromMappingData(s4, st, <<>>)
  BY DEF Mapping!MountEditor
<1>2. /\ QShort(s4) /\ Mapping!Closed(s4.query)
      /\ Mapping!Colored(<<>>) /\ Mapping!Closed(<<>>)
  BY NoneIsClosed DEF MappingAll
<1> QED
  BY <1>1, <1>2, MappingMade DEF ListOK

\* So does loading a mapping into the editor.
LEMMA MappingShown ==
  ASSUME MappingAll, NEW st, QShort(st), s12 => Mapping!Closed(s11'.query),
         Mapping!LoadFromMappingData(s4, st, s6)
  PROVE  ListOK
BY MappingMade DEF ListOK, MappingAll

\* So does a change that is stored.
LEMMA MappingStored ==
  ASSUME MappingAll, s11' = s11, Mapping!StoreChanges
  PROVE  ListOK
<1>1. CASE Mapping!LoadFromMappingData(s4, s3, s6)
  BY <1>1, MappingShown DEF MappingAll
<1>2. CASE s6' = s6 /\ s12' = s12
  BY <1>2 DEF ListOK, MappingAll
<1> QED
  BY <1>1, <1>2 DEF Mapping!StoreChanges

\* So does a step that leaves the list alone.
LEMMA ListStays ==
  ASSUME MappingAll, s6' = s6, s12' = s12
  PROVE  ListOK
BY DEF MappingAll, ListOK

\* Opening the page preserves the invariant.
LEMMA MappingMount == MappingAll /\ Mapping!Mount => MappingAll'
<1> SUFFICES ASSUME MappingAll, Mapping!Mount PROVE MappingAll'
  OBVIOUS
<1>1. s4' = Mapping!NoMapping /\ s3' = s3 /\ s9' = s9 /\ s11' = s11
  BY DEF Mapping!Mount
<1>2. \/ s10' = s10 /\ Mapping!MountEditor(s3)
      \/ /\ s10' = s10 \cup {[kind |-> "fetch", query |-> <<>>, set |-> Mapping!None]}
         /\ s6' = s6 /\ s12' = s12
  BY DEF Mapping!Mount, Mapping!editor
<1>3. ListOK
  BY <1>1, <1>2, MappingMounted, ListStays DEF MappingAll
<1>4. RequestsShort' /\ (s12 => RequestsClosed')
  <2> DEFINE r == [kind |-> "fetch", query |-> <<>>, set |-> Mapping!None]
  <2>1. Mapping!Short(r.query) /\ Mapping!Closed(r.query)
    BY NoneIsClosed
  <2>2. s10' \subseteq s10 \cup {r}
    BY <1>2
  <2> HIDE DEF r
  <2> QED
    BY <2>1, <2>2 DEF MappingAll, RequestsShort, RequestsClosed
<1> QED
  BY <1>1, <1>3, <1>4, NoMappingShort
  DEF ListOK, MappingAll, Mapping!FileKnown, RequestsClosed

\* Importing a file preserves it.
LEMMA MappingImport == MappingAll /\ Mapping!Import => MappingAll'
<1> SUFFICES ASSUME MappingAll, Mapping!Import PROVE MappingAll'
  OBVIOUS
<1> DEFINE q == Mapping!Processed(Mapping!SelectedQuery)
<1>1. /\ s9.index # 0 /\ s4' = [id |-> TRUE, query |-> q] /\ s9' = Mapping!NoFile
      /\ s3' = s3 /\ s10' = s10 /\ s11' = s11
      /\ Mapping!LoadFromMappingData(s4', s3, s6)
  BY DEF Mapping!Import
<1>2. Mapping!Importable(Mapping!SelectedQuery)
  <2>1. s9.queries \in Files \cup {<<>>} /\ s9.index \in DOMAIN s9.queries
    BY <1>1 DEF MappingAll, Mapping!FileKnown
  <2>2. s9.queries \in Files
    BY <2>1
  <2> QED
    BY <2>1, <2>2, MappingAssumption DEF Mapping!SelectedQuery
<1>3. Mapping!Short(q) /\ Mapping!Closed(q)
  BY <1>2, MappingProcessed
<1> HIDE DEF q
<1>4. QShort(s4') /\ Mapping!Closed(s4'.query)
  BY <1>1, <1>3 DEF QShort
<1>5. ListOK
  <2>1. /\ QShort(s3) /\ Mapping!Colored(s6)
        /\ s12 => Mapping!Closed(s6) /\ Mapping!Closed(s11'.query)
    BY <1>1 DEF MappingAll
  <2> DEFINE imp == s4'
  <2>2. QShort(imp) /\ Mapping!Closed(imp.query) /\ Mapping!LoadFromMappingData(imp, s3, s6)
    BY <1>1, <1>4
  <2> HIDE DEF imp
  <2> QED
    BY <2>1, <2>2, MappingMade DEF ListOK
<1>6. Mapping!FileKnown'
  BY <1>1, NoFileKnown
<1> QED
  BY <1>1, <1>4, <1>5, <1>6 DEF ListOK, MappingAll, RequestsShort, RequestsClosed

\* Submitting a dialog preserves it.
LEMMA MappingSubmit == MappingAll /\ Mapping!Submit => MappingAll'
<1> SUFFICES ASSUME MappingAll, Mapping!Submit PROVE MappingAll'
  OBVIOUS
<1> DEFINE r == Mapping!FormatMappings(s8)
<1>1. s3' = s3 /\ s4' = s4 /\ s9' = s9 /\ s11' = s11
  BY DEF Mapping!Submit, Mapping!data
<1>2. \/ s10' = s10 \cup {r} /\ Mapping!StoreChanges
      \/ s10' = s10 /\ s6' = s6 /\ s12' = s12
  BY DEF Mapping!Submit
<1>3. Mapping!Short(r.query) /\ (s12 => Mapping!Closed(r.query))
  <2>1. r.query = Mapping!ToApiFormat(s6)
    BY DEF Mapping!FormatMappings
  <2> HIDE DEF r
  <2> QED
    BY <2>1, MappingFormatted DEF MappingAll
<1> HIDE DEF r
<1>4. ListOK
  BY <1>1, <1>2, MappingStored, ListStays
<1>5. RequestsShort' /\ (s12 => RequestsClosed')
  BY <1>2, <1>3 DEF MappingAll, RequestsShort, RequestsClosed
<1> QED
  BY <1>1, <1>4, <1>5 DEF ListOK, MappingAll, Mapping!FileKnown, RequestsClosed

\* Other changes preserve it.
LEMMA MappingChange == MappingAll /\ Mapping!OtherChange => MappingAll'
<1> SUFFICES ASSUME MappingAll, Mapping!OtherChange PROVE MappingAll'
  OBVIOUS
<1>1. /\ s3' = s3 /\ s4' = s4 /\ s9' = s9 /\ s10' = s10 /\ s11' = s11
      /\ Mapping!StoreChanges
  BY DEF Mapping!OtherChange, Mapping!data
<1>2. ListOK
  BY <1>1, MappingStored
<1> QED
  BY <1>1, <1>2
  DEF ListOK, MappingAll, Mapping!FileKnown, RequestsShort, RequestsClosed

\* An answer of the server preserves it, in whatever order it comes.
LEMMA MappingAnswer ==
  ASSUME MappingAll, NEW r \in s10, Mapping!Answer(r)
  PROVE  MappingAll'
<1>1. s10' = s10 \ {r} /\ s4' = s4 /\ s9' = s9
  BY DEF Mapping!Answer
<1>2. s11' = CASE r.kind \in {"create", "save"} -> [id |-> TRUE, query |-> r.query]
               [] r.kind = "delete" -> Mapping!NoMapping
               [] OTHER -> s11
  BY DEF Mapping!Answer
<1>3. QShort(s11') /\ (s12 => Mapping!Closed(s11'.query))
  <2>1. CASE s11' = [id |-> TRUE, query |-> r.query]
    BY <2>1 DEF MappingAll, RequestsShort, RequestsClosed, QShort
  <2>2. CASE s11' = Mapping!NoMapping
    BY <2>2, NoMappingShort
  <2>3. CASE s11' = s11
    BY <2>3 DEF MappingAll
  <2> QED
    BY <1>2, <2>1, <2>2, <2>3
<1>4. s3' = s3 \/ s3' = s11'
  BY DEF Mapping!Answer
<1>5. QShort(s3')
  BY <1>3, <1>4 DEF MappingAll
<1>6. r.kind = "flush" => s11' = s11
  BY <1>2
<1>7. \/ Mapping!MountEditor(s3')
      \/ Mapping!LoadFromMappingData(s4, s3', s6)
      \/ r.kind = "flush" /\ Mapping!StoreChanges
      \/ s6' = s6 /\ s12' = s12
  BY DEF Mapping!Answer, Mapping!editor
<1>8. ListOK
  <2> DEFINE st == s3'
  <2>1. /\ QShort(st)
        /\ \/ Mapping!MountEditor(st)
           \/ Mapping!LoadFromMappingData(s4, st, s6)
           \/ r.kind = "flush" /\ Mapping!StoreChanges
           \/ s6' = s6 /\ s12' = s12
    BY <1>5, <1>7
  <2> HIDE DEF st
  <2> QED
    BY <1>3, <1>6, <2>1, MappingMounted, MappingShown, MappingStored, ListStays
<1>9. RequestsShort' /\ (s12 => RequestsClosed')
  BY <1>1 DEF MappingAll, RequestsShort, RequestsClosed
<1> QED
  BY <1>1, <1>3, <1>5, <1>8, <1>9
  DEF ListOK, MappingAll, Mapping!FileKnown, RequestsClosed

\* So does an answer that is an error.
LEMMA MappingFail ==
  ASSUME MappingAll, NEW r \in s10, Mapping!Fail(r)
  PROVE  MappingAll'
<1>1. s10' = s10 \ {r} /\ s3' = s3 /\ s4' = s4 /\ s9' = s9 /\ s11' = s11
  BY DEF Mapping!Fail
<1>2. Mapping!MountEditor(s3) \/ Mapping!StoreChanges \/ (s6' = s6 /\ s12' = s12)
  BY DEF Mapping!Fail, Mapping!editor
<1>3. ListOK
  BY <1>1, <1>2, MappingMounted, MappingStored, ListStays DEF MappingAll
<1>4. RequestsShort' /\ (s12 => RequestsClosed')
  BY <1>1 DEF MappingAll, RequestsShort, RequestsClosed
<1> QED
  BY <1>1, <1>3, <1>4 DEF ListOK, MappingAll, Mapping!FileKnown, RequestsClosed

\* Every step preserves it.
LEMMA MappingStep == Mapping!Inv /\ Mapping!Next => Mapping!Inv'
<1>1. ASSUME MappingAll, Mapping!Next PROVE MappingAll'
  BY <1>1, MappingChanges, MappingOthers, MappingMount, MappingImport, MappingSubmit,
    MappingChange, MappingAnswer, MappingFail DEF Mapping!Next
<1>2. Mapping!Inv' <=> MappingAll'
  BY MappingParts, PTL
<1> QED
  BY <1>1, <1>2, MappingParts

\* It depends on nothing but the variables.
LEMMA MappingStays == Mapping!Inv /\ UNCHANGED vars => Mapping!Inv'
<1>1. MappingAll /\ UNCHANGED vars => MappingAll'
  BY DEF MappingAll, vars, RequestsShort, RequestsClosed, Mapping!FileKnown
<1>2. Mapping!Inv' <=> MappingAll'
  BY MappingParts, PTL
<1> QED
  BY <1>1, <1>2, MappingParts

\* It implies what the mapping editor promises.
LEMMA MappingShows == Mapping!Inv => Mapping!ReferencesExist /\ Mapping!ColorsDiffer
<1> SUFFICES ASSUME MappingAll PROVE Mapping!ReferencesExist /\ Mapping!ColorsDiffer
  BY MappingParts
<1>1. Mapping!ColorsDiffer
  BY ColoredIs DEF MappingAll, Mapping!ColorsDiffer
<1>2. Mapping!ReferencesExist
  BY DEF MappingAll, Mapping!Closed, Mapping!ReferencesExist
<1> QED
  BY <1>1, <1>2

-----------------------------------------------------------------------------
(* The network diagram: UiDiagram                                           *)

\* Filtering in UiDiagram is filtering.
LEMMA DiagramFiltered ==
  \A s, S : Diagram!Filtered(s, S) = Filtered(s, S)
BY DEF Diagram!Filtered, Filtered, Diagram!Positions, Positions, Diagram!Rank,
  Rank, Diagram!Cardinality, Cardinality, Diagram!IsFiniteSet, IsFiniteSet

\* What a filtered list holds.
LEMMA FilteredValues ==
  ASSUME NEW X, NEW s \in Seq(X), NEW S
  PROVE  /\ Filtered(s, S) \in Seq(X)
         /\ ValuesOf(Filtered(s, S)) = ValuesOf(s) \cap S
<1> DEFINE t == Filtered(s, S)
           P == Positions(s, S)
           n == Cardinality(P)
<1>1. t \in Seq(X \cap S) /\ Placed(s, P, t, n)
  BY FilteredPlaces
<1>2. \A i : i \in P <=> i \in DOMAIN s /\ s[i] \in S
  BY DEF Positions
<1> HIDE DEF t, P, n
<1>3. t \in Seq(X)
  BY <1>1
<1>4. DOMAIN t = 1..n
  BY <1>1 DEF Placed
<1>5. PICK g \in [1..n -> P] :
           /\ \A k \in 1..n : t[k] = s[g[k]]
           /\ \A k, m \in 1..n : k < m => g[k] < g[m]
           /\ \A i \in P : \E k \in 1..n : g[k] = i
  BY <1>1 DEF Placed
<1>6. \A k \in DOMAIN t : t[k] = s[g[k]] /\ g[k] \in DOMAIN s /\ s[g[k]] \in S
  BY <1>2, <1>4, <1>5
<1>7. \A i \in DOMAIN s : s[i] \in S => \E k \in DOMAIN t : t[k] = s[i]
  BY <1>2, <1>4, <1>5
<1>8. ValuesOf(t) \subseteq ValuesOf(s) \cap S
  BY <1>6 DEF ValuesOf
<1>9. ValuesOf(s) \cap S \subseteq ValuesOf(t)
  BY <1>7 DEF ValuesOf
<1>10. t \in Seq(X) /\ ValuesOf(t) = ValuesOf(s) \cap S
  BY <1>3, <1>8, <1>9
<1> QED
  BY <1>10 DEF t

\* What the entity manager holds, by the ids of its list.
LEMMA HeldIs ==
  ASSUME NEW m
  PROVE  Diagram!Held(m) = {e.id : e \in ValuesOf(m)}
BY DEF Diagram!Held, ValuesOf

\* m is a list of X that holds the ids of H.
Holds(m, X, H) == m \in Seq(X) /\ Diagram!Held(m) = H

\* What it holds after entities are deleted.
LEMMA EntitiesDeleted ==
  ASSUME NEW X, NEW m \in Seq(X), NEW ids
  PROVE  Holds(Diagram!DeleteEntities(m, ids), X, Diagram!Held(m) \ ids)
<1> DEFINE S == {e \in Diagram!ToSet(m) : e.id \notin ids}
           t == Diagram!DeleteEntities(m, ids)
<1>1. t = Filtered(m, S)
  BY DiagramFiltered DEF Diagram!DeleteEntities
<1>2. \A e : e \in S <=> e \in ValuesOf(m) /\ e.id \notin ids
  BY DEF Diagram!ToSet, ValuesOf
<1> HIDE DEF S, t
<1>3. t \in Seq(X) /\ ValuesOf(t) = ValuesOf(m) \cap S
  BY <1>1, FilteredValues
<1>4. Diagram!Held(t) = {e.id : e \in ValuesOf(m) \cap S}
  BY <1>3, HeldIs
<1>5. Diagram!Held(m) = {e.id : e \in ValuesOf(m)}
  BY HeldIs
<1>6. Diagram!Held(t) = Diagram!Held(m) \ ids
  BY <1>2, <1>4, <1>5
<1> QED
  BY <1>3, <1>6 DEF Holds, t

\* What is held of some ids.
LEMMA EntitiesGotten ==
  ASSUME NEW X, NEW m \in Seq(X), NEW ids
  PROVE  Holds(Diagram!GetEntities(m, ids), X, Diagram!Held(m) \cap ids)
<1> DEFINE S == {e \in Diagram!ToSet(m) : e.id \in ids}
           t == Diagram!GetEntities(m, ids)
<1>1. t = Filtered(m, S)
  BY DiagramFiltered DEF Diagram!GetEntities
<1>2. \A e : e \in S <=> e \in ValuesOf(m) /\ e.id \in ids
  BY DEF Diagram!ToSet, ValuesOf
<1> HIDE DEF S, t
<1>3. t \in Seq(X) /\ ValuesOf(t) = ValuesOf(m) \cap S
  BY <1>1, FilteredValues
<1>4. Diagram!Held(t) = {e.id : e \in ValuesOf(m) \cap S}
  BY <1>3, HeldIs
<1>5. Diagram!Held(m) = {e.id : e \in ValuesOf(m)}
  BY HeldIs
<1>6. Diagram!Held(t) = Diagram!Held(m) \cap ids
  BY <1>2, <1>4, <1>5
<1> QED
  BY <1>3, <1>6 DEF Holds, t

\* What two lists hold that are joined.
LEMMA HeldJoined ==
  ASSUME NEW X, NEW s \in Seq(X), NEW t \in Seq(X)
  PROVE  Holds(s \o t, X, Diagram!Held(s) \cup Diagram!Held(t))
<1> DEFINE u == s \o t
<1>1. u \in Seq(X) /\ ValuesOf(u) = ValuesOf(s) \cup ValuesOf(t)
  BY JoinedValues
<1> HIDE DEF u
<1>2. Diagram!Held(u) = Diagram!Held(s) \cup Diagram!Held(t)
  BY <1>1, HeldIs
<1> QED
  BY <1>1, <1>2 DEF Holds, u

\* What it holds after entities are added, also those that it held.
LEMMA EntitiesAdded ==
  ASSUME NEW X, NEW m \in Seq(X), NEW es \in Seq(X)
  PROVE  Holds(Diagram!AddEntities(m, es), X, Diagram!Held(m) \cup Diagram!Held(es))
<1> DEFINE at(i) == CHOOSE j \in DOMAIN es : es[j].id = m[i].id
           f == [i \in DOMAIN m |->
                   IF Diagram!HasEntity(es, m[i].id) THEN es[at(i)] ELSE m[i]]
           d == Diagram!DeleteEntities(es, Diagram!Held(m))
<1>1. Diagram!AddEntities(m, es) = f \o d
  BY DEF Diagram!AddEntities
<1>2. DOMAIN m = 1..Len(m) /\ Len(m) \in Nat /\ \A i \in DOMAIN m : m[i] \in X
  OBVIOUS
<1>3. \A i \in DOMAIN es : es[i] \in X
  OBVIOUS
<1>4. \A i \in DOMAIN m :
        Diagram!HasEntity(es, m[i].id) => at(i) \in DOMAIN es /\ es[at(i)].id = m[i].id
  BY DEF Diagram!HasEntity, Diagram!Held
<1> HIDE DEF at
<1>5. \A i \in DOMAIN m : f[i] \in X /\ f[i].id = m[i].id
  BY <1>2, <1>3, <1>4
<1>6. DOMAIN f = DOMAIN m /\ f = [i \in DOMAIN m |-> f[i]]
  OBVIOUS
<1> HIDE DEF f
<1>7. f \in Seq(X)
  <2>1. f \in [1..Len(m) -> X]
    BY <1>2, <1>5, <1>6
  <2> QED
    BY <1>2, <2>1
<1>8. Diagram!Held(f) = Diagram!Held(m)
  BY <1>5, <1>6 DEF Diagram!Held
<1>9. d \in Seq(X) /\ Diagram!Held(d) = Diagram!Held(es) \ Diagram!Held(m)
  BY EntitiesDeleted DEF Holds
<1> HIDE DEF d
<1>10. Holds(f \o d, X, Diagram!Held(f) \cup Diagram!Held(d))
  BY <1>7, <1>9, HeldJoined
<1>11. Diagram!Held(f) \cup Diagram!Held(d) = Diagram!Held(m) \cup Diagram!Held(es)
  BY <1>8, <1>9
<1> QED
  BY <1>1, <1>10, <1>11

\* What a list of one entity holds.
LEMMA HeldOne ==
  ASSUME NEW X, NEW e \in X
  PROVE  Holds(<<e>>, X, {e.id})
<1>1. <<e>> \in Seq(X) /\ DOMAIN <<e>> = {1} /\ <<e>>[1] = e
  OBVIOUS
<1> QED
  BY <1>1 DEF Holds, Diagram!Held

\* What the empty list holds.
LEMMA HeldNone ==
  ASSUME NEW X
  PROVE  Holds(<<>>, X, {})
<1>1. <<>> \in Seq(X) /\ DOMAIN <<>> = {}
  OBVIOUS
<1> QED
  BY <1>1 DEF Holds, Diagram!Held

\* The parts of a layout that is made from another.
LEMMA LayoutChanged ==
  ASSUME NEW l, DOMAIN l = DOMAIN Diagram!NewLayout, NEW V, NEW W, NEW E, NEW G, NEW S
  PROVE  /\ LET g == [l EXCEPT !.vertices = V, !.hidden = W, !.edges = E]
            IN /\ DOMAIN g = DOMAIN Diagram!NewLayout
               /\ g.vertices = V /\ g.edges = E /\ g.groupings = l.groupings
         /\ LET g == [l EXCEPT !.groupings = G]
            IN /\ DOMAIN g = DOMAIN Diagram!NewLayout
               /\ g.vertices = l.vertices /\ g.edges = l.edges /\ g.groupings = G
         /\ LET g == [l EXCEPT !.settings = S]
            IN /\ DOMAIN g = DOMAIN Diagram!NewLayout
               /\ g.groupings = l.groupings
         /\ LET g == [l EXCEPT !.hidden = W, !.groupings = G]
            IN /\ DOMAIN g = DOMAIN Diagram!NewLayout
               /\ g.groupings = G
BY DEF Diagram!NewLayout

\* The layout l is drawn from a list that holds H, and has the groupings G.
Drawn(l, H, G) ==
  /\ Diagram!IsLayout(l) /\ l.groupings = G
  /\ Diagram!Shows(l, H, {})
  /\ \A e \in l.edges : Diagram!Connects(e, l, H, {})

\* The ends of a link that are drawn are held, or the link brings them with it.
LEMMA EndsHeld ==
  ASSUME NEW m \in Seq(Diagram!Entity)
  PROVE  /\ Diagram!LinkEnds(m) \subseteq {Source, Target}
         /\ Diagram!LinkEnds(m)
              \subseteq Diagram!Held(m) \cup Diagram!Brought(Diagram!Held(m))
<1> DEFINE ends(e) == IF ~Diagram!Resolves(m, e, Source) THEN {}
                      ELSE {Source} \cup (IF Diagram!Resolves(m, e, Target)
                                          THEN {Target} ELSE {})
           H == Diagram!Held(m)
<1>1. Diagram!LinkEnds(m) = UNION {ends(e) : e \in {e \in ValuesOf(m) : e.id = Link}}
  BY DEF Diagram!LinkEnds, Diagram!ToSet, ValuesOf
<1>2. ASSUME NEW e \in ValuesOf(m), e.id = Link, NEW x \in ends(e)
      PROVE  x \in {Source, Target} /\ x \in H \cup Diagram!Brought(H)
  <2>1. x \in {Source, Target} /\ Diagram!Resolves(m, e, x)
    OBVIOUS
  <2>2. e \in Diagram!Entity
    <3> DEFINE E == Diagram!Entity
    <3>1. m \in Seq(E)
      OBVIOUS
    <3> HIDE DEF E
    <3>2. \A i \in DOMAIN m : m[i] \in E
      BY <3>1
    <3> QED
      BY <3>2 DEF ValuesOf, E
  <2>3. e.objects \subseteq Diagram!Embedded
    BY <1>2, <2>2 DEF Diagram!Entity
  <2>4. Link \in H
    BY <1>2, HeldIs
  <2>5. x \in e.objects \/ x \in H
    BY <2>1 DEF Diagram!Resolves, Diagram!HasEntity
  <2> HIDE DEF H
  <2> QED
    BY <2>1, <2>3, <2>4, <2>5 DEF Diagram!Brought
<1> HIDE DEF ends, H
<1>3. Diagram!LinkEnds(m) \subseteq {Source, Target}
  BY <1>1, <1>2
<1>4. Diagram!LinkEnds(m) \subseteq H \cup Diagram!Brought(H)
  BY <1>1, <1>2
<1> QED
  BY <1>3, <1>4 DEF H

\* A layout generated from a list of entities shows what it holds.
LEMMA Generated ==
  ASSUME NEW l, DOMAIN l = DOMAIN Diagram!NewLayout, NEW m \in Seq(Diagram!Entity)
  PROVE  Drawn(Diagram!Generate(l, m), Diagram!Held(m), l.groupings)
<1> DEFINE H == Diagram!Held(m)
           things == {m[i].id : i \in DOMAIN m} \cap DiagramThings
           values == IF "value" \in l.settings /\ things # {} THEN {ValueVertex} ELSE {}
           L == Diagram!LinkEnds(m)
           V == things \cup L \cup values
           W == l.hidden \cap V
           E1 == IF L = {Source, Target} THEN {Diagram!EntityEdge} ELSE {}
           E2 == IF Diagram!DrawsReference(l, m)
                 THEN {Diagram!ValueEdge(Source, Target)} ELSE {}
           E3 == {Diagram!ValueEdge(id, ValueVertex) :
                    id \in IF values = {} THEN {} ELSE things}
           E == E1 \cup E2 \cup E3
           g == Diagram!Generate(l, m)
<1>1. g = [l EXCEPT !.vertices = V, !.hidden = W, !.edges = E]
  BY DEF Diagram!Generate
<1>2. things = H \cap DiagramThings
  BY DEF Diagram!Held
<1>3. L \subseteq {Source, Target} /\ L \subseteq H \cup Diagram!Brought(H)
  BY EndsHeld
<1>4. /\ V \subseteq DiagramThings \cup {ValueVertex}
      /\ V \cap DiagramThings = things \cup L
  <2> HIDE DEF things, L
  <2> QED
    BY <1>2, <1>3, DiagramAssumption
<1> DEFINE Ends(e) == /\ \A v \in e.ends \ V : ~e.isEntity /\ v \notin H
                      /\ e.isEntity => e.entity = Link
<1>5. \A e \in E1 : Ends(e)
  <2> SUFFICES ASSUME L = {Source, Target} PROVE Ends(Diagram!EntityEdge)
    OBVIOUS
  <2> HIDE DEF things, L, values, H
  <2> QED
    BY DEF Diagram!EntityEdge
<1>6. \A e \in E2 : Ends(e)
  <2> SUFFICES ASSUME Diagram!DrawsReference(l, m)
               PROVE  Ends(Diagram!ValueEdge(Source, Target))
    OBVIOUS
  <2>1. Source \in things
    BY DiagramAssumption DEF Diagram!DrawsReference
  <2>2. Target \in H => Target \in things
    BY <1>2, DiagramAssumption
  <2> HIDE DEF things, L, values, H
  <2> QED
    BY <2>1, <2>2 DEF Diagram!ValueEdge
<1>7. \A e \in E3 : Ends(e)
  <2> SUFFICES ASSUME values # {}, NEW id \in things
               PROVE  Ends(Diagram!ValueEdge(id, ValueVertex))
    OBVIOUS
  <2>1. values = {ValueVertex}
    OBVIOUS
  <2> HIDE DEF things, values, L, H
  <2> QED
    BY <2>1 DEF Diagram!ValueEdge
<1> HIDE DEF V, W, E1, E2, E3, g, things, values, L, H
<1>8. \A e \in E : Ends(e)
  BY <1>5, <1>6, <1>7
<1> HIDE DEF E, Ends
<1>9. /\ DOMAIN g = DOMAIN Diagram!NewLayout
      /\ g.vertices = V /\ g.edges = E /\ g.groupings = l.groupings
  BY <1>1, LayoutChanged
<1>10. Diagram!IsLayout(g)
  BY <1>4, <1>8, <1>9 DEF Diagram!IsLayout, Ends
<1>11. Diagram!ThingsIn(g) = things \cup L
  BY <1>4, <1>9 DEF Diagram!ThingsIn
<1>12. Diagram!Shows(g, H, {})
  BY <1>2, <1>3, <1>11 DEF Diagram!Shows
<1>13. \A e \in g.edges : Diagram!Connects(e, g, H, {})
  BY <1>8, <1>9 DEF Diagram!Connects, Ends
<1> QED
  BY <1>9, <1>10, <1>12, <1>13 DEF Drawn, g, H

\* Every grouping of G names only N.
GroupsIn(G, N) == \A g \in DOMAIN G : G[g] \subseteq N

\* What a grouping of l may name, but for the things of u: vertices, and those
\* that settings or a link took away.
Nameable(l, u) == l.vertices \cup {ValueVertex} \cup Diagram!Embedded \cup u

\* When the groupings of a layout are drawn.
LEMMA GroupsDrawnIs ==
  ASSUME NEW l
  PROVE  Diagram!GroupsDrawn(l) <=> GroupsIn(l.groupings, Nameable(l, s7))
BY DEF Nameable, Diagram!GroupsDrawn, GroupsIn

\* What is kept of the groupings is a part of them.
LEMMA GroupingsKept ==
  ASSUME NEW l, DOMAIN l = DOMAIN Diagram!NewLayout, NEW keep \in SUBSET DOMAIN l.groupings,
         NEW N
  PROVE  LET r == Diagram!KeepGroupings(l, keep)
         IN /\ DOMAIN r = DOMAIN Diagram!NewLayout
            /\ r.vertices = l.vertices /\ r.edges = l.edges
            /\ DOMAIN r.groupings = keep
            /\ GroupsIn(l.groupings, N) => GroupsIn(r.groupings, N)
<1> DEFINE G == [g \in keep |-> l.groupings[g]]
           r == Diagram!KeepGroupings(l, keep)
<1>1. r = [l EXCEPT !.groupings = G]
  BY DEF Diagram!KeepGroupings
<1>2. GroupsIn(l.groupings, N) => GroupsIn(G, N)
  BY DEF GroupsIn
<1>3. DOMAIN G = keep
  OBVIOUS
<1> HIDE DEF G, r
<1>4. /\ DOMAIN r = DOMAIN Diagram!NewLayout
      /\ r.vertices = l.vertices /\ r.edges = l.edges /\ r.groupings = G
  BY <1>1, LayoutChanged
<1> QED
  BY <1>2, <1>3, <1>4 DEF r

\* The layout r is l with other groupings, which name no more than l has, M and N.
Regrouped(l, r, M) ==
  /\ DOMAIN r = DOMAIN Diagram!NewLayout
  /\ r.vertices = l.vertices /\ r.edges = l.edges
  /\ \A N : M \subseteq N /\ GroupsIn(l.groupings, N) => GroupsIn(r.groupings, N)

\* Replacing the groupings of a layout draws nothing else anew.
LEMMA GroupingsSet ==
  ASSUME NEW l, DOMAIN l = DOMAIN Diagram!NewLayout, NEW G, NEW M,
         \A N : M \subseteq N /\ GroupsIn(l.groupings, N) => GroupsIn(G, N)
  PROVE  Regrouped(l, [l EXCEPT !.groupings = G], M)
<1> DEFINE r == [l EXCEPT !.groupings = G]
<1>1. /\ DOMAIN r = DOMAIN Diagram!NewLayout
      /\ r.vertices = l.vertices /\ r.edges = l.edges /\ r.groupings = G
  BY LayoutChanged
<1> HIDE DEF r
<1> QED
  BY <1>1 DEF Regrouped, r

\* Removing the groupings within a selection keeps the others good.
LEMMA SubgroupsRemoved ==
  ASSUME NEW l, NEW r, NEW M, Regrouped(l, r, M), NEW sel
  PROVE  Regrouped(l, Diagram!RemoveSubgroups(r, sel), M)
<1> DEFINE keep == {g \in DOMAIN r.groupings :
              ~(/\ Diagram!IsGroupingSelected(r, g, sel)
                /\ \E h \in DOMAIN r.groupings :
                     h # g /\ r.groupings[g] \subseteq r.groupings[h])}
           t == Diagram!RemoveSubgroups(r, sel)
<1>1. t = Diagram!KeepGroupings(r, keep)
  BY DEF Diagram!RemoveSubgroups
<1>2. keep \in SUBSET DOMAIN r.groupings
  OBVIOUS
<1> HIDE DEF keep, t
<1>3. DOMAIN r = DOMAIN Diagram!NewLayout
  BY DEF Regrouped
<1>4. ASSUME NEW N
      PROVE  /\ DOMAIN t = DOMAIN Diagram!NewLayout
             /\ t.vertices = r.vertices /\ t.edges = r.edges
             /\ GroupsIn(r.groupings, N) => GroupsIn(t.groupings, N)
  BY <1>1, <1>2, <1>3, GroupingsKept
<1>5. Regrouped(l, t, M)
  BY <1>4 DEF Regrouped
<1> QED
  BY <1>5 DEF t

\* Each way to regroup a layout keeps its groupings good.
LEMMA LayoutRegrouped ==
  ASSUME NEW l, DOMAIN l = DOMAIN Diagram!NewLayout, NEW vs
  PROVE  /\ Regrouped(l, Diagram!AddGrouping(l, vs), vs)
         /\ Regrouped(l, Diagram!KeepGroupings(l,
              {g \in DOMAIN l.groupings : ~Diagram!IsGroupingSelected(l, g, vs)}), vs)
         /\ \A targets : Regrouped(l, Diagram!DropInto(l, vs, targets), vs)
         /\ \A v : \A g \in DOMAIN l.groupings :
              Regrouped(l, [l EXCEPT !.groupings[g] = @ \ {v}], vs)
<1>1. Regrouped(l, Diagram!AddGrouping(l, vs), vs)
  <2> DEFINE G == [g \in DOMAIN l.groupings \cup {vs} |->
                     IF g = vs THEN vs ELSE l.groupings[g]]
             r == [l EXCEPT !.groupings = G]
  <2>1. \A N : vs \subseteq N /\ GroupsIn(l.groupings, N) => GroupsIn(G, N)
    BY DEF GroupsIn
  <2>2. Diagram!AddGrouping(l, vs) = Diagram!RemoveSubgroups(r, vs)
    BY DEF Diagram!AddGrouping
  <2> HIDE DEF G
  <2>3. Regrouped(l, r, vs)
    BY <2>1, GroupingsSet
  <2> HIDE DEF r
  <2> QED
    BY <2>2, <2>3, SubgroupsRemoved
<1>2. Regrouped(l, Diagram!KeepGroupings(l,
        {g \in DOMAIN l.groupings : ~Diagram!IsGroupingSelected(l, g, vs)}), vs)
  <2> DEFINE K == {g \in DOMAIN l.groupings : ~Diagram!IsGroupingSelected(l, g, vs)}
             G == [g \in K |-> l.groupings[g]]
  <2>1. \A N : vs \subseteq N /\ GroupsIn(l.groupings, N) => GroupsIn(G, N)
    BY DEF GroupsIn
  <2>2. Diagram!KeepGroupings(l, K) = [l EXCEPT !.groupings = G]
    BY DEF Diagram!KeepGroupings
  <2> HIDE DEF G
  <2>3. Regrouped(l, [l EXCEPT !.groupings = G], vs)
    BY <2>1, GroupingsSet
  <2> QED
    BY <2>2, <2>3
<1>3. ASSUME NEW targets PROVE Regrouped(l, Diagram!DropInto(l, vs, targets), vs)
  <2> DEFINE G == [g \in DOMAIN l.groupings |->
                     IF g \in targets THEN l.groupings[g] \cup vs ELSE l.groupings[g]]
             r == [l EXCEPT !.groupings = G]
  <2>1. \A N : vs \subseteq N /\ GroupsIn(l.groupings, N) => GroupsIn(G, N)
    BY DEF GroupsIn
  <2>2. Diagram!DropInto(l, vs, targets) = Diagram!RemoveSubgroups(r, vs)
    BY DEF Diagram!DropInto
  <2> HIDE DEF G
  <2>3. Regrouped(l, r, vs)
    BY <2>1, GroupingsSet
  <2> HIDE DEF r
  <2> QED
    BY <2>2, <2>3, SubgroupsRemoved
<1>4. ASSUME NEW g \in DOMAIN l.groupings, NEW v
      PROVE  Regrouped(l, [l EXCEPT !.groupings[g] = @ \ {v}], vs)
  <2> DEFINE G == [l.groupings EXCEPT ![g] = @ \ {v}]
  <2>1. \A N : vs \subseteq N /\ GroupsIn(l.groupings, N) => GroupsIn(G, N)
    BY DEF GroupsIn
  <2>2. [l EXCEPT !.groupings[g] = @ \ {v}] = [l EXCEPT !.groupings = G]
    OBVIOUS
  <2> HIDE DEF G
  <2>3. Regrouped(l, [l EXCEPT !.groupings = G], vs)
    BY <2>1, GroupingsSet
  <2> QED
    BY <2>2, <2>3
<1> QED
  BY <1>1, <1>2, <1>3, <1>4

\* What is removed is in no grouping any more.
LEMMA LayoutRemoved ==
  ASSUME NEW l, DOMAIN l = DOMAIN Diagram!NewLayout, NEW vs
  PROVE  LET r == Diagram!RemoveFromLayout(l, vs)
         IN /\ DOMAIN r = DOMAIN Diagram!NewLayout
            /\ \A N : GroupsIn(l.groupings, N) => GroupsIn(r.groupings, N \ vs)
<1> DEFINE left(g) == l.groupings[g] \ vs
           kept == {g \in DOMAIN l.groupings :
                      vs = {} \/ Diagram!Cardinality(left(g)) >= 2}
           k == Diagram!KeepGroupings(l, kept)
           W == k.hidden \cup (vs \cap {ValueVertex})
           G == [g \in kept |-> left(g)]
           r == Diagram!RemoveFromLayout(l, vs)
<1>1. r = [k EXCEPT !.hidden = W, !.groupings = G]
  BY DEF Diagram!RemoveFromLayout
<1>2. kept \in SUBSET DOMAIN l.groupings
  OBVIOUS
<1>3. \A N : GroupsIn(l.groupings, N) => GroupsIn(G, N \ vs)
  BY DEF GroupsIn
<1> HIDE DEF kept, W, G, r
<1>4. DOMAIN k = DOMAIN Diagram!NewLayout
  BY <1>2, GroupingsKept
<1> HIDE DEF k
<1>5. DOMAIN r = DOMAIN Diagram!NewLayout /\ r.groupings = G
  BY <1>1, <1>4, LayoutChanged
<1> QED
  BY <1>3, <1>5 DEF r

\* The entities that ent holds are those of held, but for the unrecorded ones.
Agrees(ent, held, u) == Diagram!Held(ent) \ u = held \ u

\* The changes c lead from what was held before to what is after.
StepFits(before, c, after, u) ==
  LET created == Diagram!Held(c.created)
      deleted == Diagram!Held(c.deleted)
  IN /\ after \ u = ((before \cup created) \ deleted) \ u
     /\ created \cap before \subseteq u
     /\ deleted \cup Diagram!Held(c.updated) \subseteq before \cup u

\* The layout l shows what is held.
LayoutFits(l, held, u, used) ==
  /\ Diagram!IsLayout(l) /\ Diagram!Shows(l, held, u)
  /\ \A f \in l.edges : Diagram!Connects(f, l, held, u)
  /\ ~used => GroupsIn(l.groupings, Nameable(l, u))

EntryFits(e, u, used) ==
  /\ e = [layout |-> e.layout, changes |-> e.changes, held |-> e.held]
  /\ e.changes \in Diagram!Changes
  /\ LayoutFits(e.layout, e.held, u, used)

HistoryFits(h, u, used) ==
  /\ IsList(h)
  /\ \A k \in DOMAIN h : EntryFits(h[k], u, used)
  /\ \A k \in 2..Len(h) : StepFits(h[k - 1].held, h[k].changes, h[k].held, u)

\* It shows as well what is the same but for the unrecorded things.
LEMMA FitsSame ==
  ASSUME NEW l, NEW held, NEW same, NEW u, NEW used, Link \notin u,
         held \ u = same \ u, LayoutFits(l, held, u, used)
  PROVE  LayoutFits(l, same, u, used)
<1>1. Diagram!Brought(held) = Diagram!Brought(same)
  BY DEF Diagram!Brought
<1>2. Diagram!Shows(l, same, u)
  BY <1>1 DEF LayoutFits, Diagram!Shows
<1>3. \A f \in l.edges : Diagram!Connects(f, l, same, u)
  BY DEF LayoutFits, Diagram!Connects
<1> QED
  BY <1>2, <1>3 DEF LayoutFits

\* The parts of an entry's changes.
LEMMA ChangesAre ==
  ASSUME NEW c \in Diagram!Changes
  PROVE  /\ c.created \in Seq(Diagram!Entity) /\ c.deleted \in Seq(Diagram!Entity)
         /\ c.updated \in Seq(Diagram!Change)
BY DEF Diagram!Changes

\* The versions of what was updated have its ids.
LEMMA UpdatedHeld ==
  ASSUME NEW c \in Diagram!Changes, NEW factor
  PROVE  Holds(Diagram!Updated(c, factor), Diagram!Entity, Diagram!Held(c.updated))
<1> DEFINE x == c.updated
           f == Diagram!Updated(c, factor)
<1>1. /\ DOMAIN f = DOMAIN x
      /\ f = [i \in DOMAIN x |-> f[i]]
      /\ \A i \in DOMAIN x : f[i] = IF factor > 0 THEN x[i].next ELSE x[i].prev
  BY DEF Diagram!Updated
<1>2. x \in Seq(Diagram!Change)
  BY ChangesAre
<1> HIDE DEF x, f
<1>3. Len(x) \in Nat /\ DOMAIN x = 1..Len(x) /\ \A i \in DOMAIN x : x[i] \in Diagram!Change
  BY <1>2
<1>4. \A i \in DOMAIN x : f[i] \in Diagram!Entity /\ f[i].id = x[i].id
  BY <1>1, <1>3 DEF Diagram!Change
<1>5. f \in Seq(Diagram!Entity)
  <2>1. f \in [1..Len(x) -> Diagram!Entity]
    BY <1>1, <1>3, <1>4
  <2> QED
    BY <1>3, <2>1
<1>6. Diagram!Held(f) = Diagram!Held(x)
  BY <1>1, <1>4 DEF Diagram!Held
<1> QED
  BY <1>5, <1>6 DEF Holds, f, x

\* Going back, then forward: what the entities are after it.
LEMMA ChangesUndone ==
  ASSUME NEW ent \in Seq(Diagram!Entity), NEW c \in Diagram!Changes,
         NEW before, NEW after, NEW u, StepFits(before, c, after, u), Agrees(ent, after, u)
  PROVE  LET m == Diagram!ApplyEntityChanges(ent, c, -1)
         IN m \in Seq(Diagram!Entity) /\ Agrees(m, before, u)
<1> DEFINE cr == Diagram!Held(c.created)
           de == Diagram!Held(c.deleted)
           up == Diagram!Held(c.updated)
           m1 == Diagram!DeleteEntities(ent, cr)
           m2 == Diagram!AddEntities(m1, Diagram!Updated(c, -1))
           m3 == Diagram!AddEntities(m2, c.deleted)
           E == Diagram!Entity
<1>1. Diagram!ApplyEntityChanges(ent, c, -1) = m3
  BY DEF Diagram!ApplyEntityChanges
<1> HIDE DEF E
<1>2. Holds(m1, E, Diagram!Held(ent) \ cr)
  BY EntitiesDeleted DEF E
<1> HIDE DEF m1
<1>3. Holds(Diagram!Updated(c, -1), E, up)
  BY UpdatedHeld DEF E
<1>4. Holds(m2, E, Diagram!Held(m1) \cup up)
  BY <1>2, <1>3, EntitiesAdded DEF Holds
<1> HIDE DEF m2
<1>5. Holds(m3, E, Diagram!Held(m2) \cup de)
  BY <1>4, ChangesAre, EntitiesAdded DEF Holds, E
<1> HIDE DEF m3
<1>6. m3 \in Seq(E) /\ Diagram!Held(m3) = ((Diagram!Held(ent) \ cr) \cup up) \cup de
  BY <1>2, <1>4, <1>5 DEF Holds
<1>7. /\ after \ u = ((before \cup cr) \ de) \ u
      /\ cr \cap before \subseteq u
      /\ de \cup up \subseteq before \cup u
  BY DEF StepFits
<1>8. Diagram!Held(ent) \ u = after \ u
  BY DEF Agrees
<1> HIDE DEF cr, de, up
<1>9. Diagram!Held(m3) \ u = before \ u
  BY <1>6, <1>7, <1>8
<1> QED
  BY <1>1, <1>6, <1>9 DEF Agrees, E

\* Redoing an entry leads from what its predecessor shows to what it shows.
LEMMA ChangesRedone ==
  ASSUME NEW ent \in Seq(Diagram!Entity), NEW c \in Diagram!Changes,
         NEW before, NEW after, NEW u, StepFits(before, c, after, u), Agrees(ent, before, u)
  PROVE  LET m == Diagram!ApplyEntityChanges(ent, c, 1)
         IN m \in Seq(Diagram!Entity) /\ Agrees(m, after, u)
<1> DEFINE cr == Diagram!Held(c.created)
           de == Diagram!Held(c.deleted)
           up == Diagram!Held(c.updated)
           m1 == Diagram!AddEntities(ent, c.created)
           m2 == Diagram!AddEntities(m1, Diagram!Updated(c, 1))
           m3 == Diagram!DeleteEntities(m2, de)
           E == Diagram!Entity
<1>1. Diagram!ApplyEntityChanges(ent, c, 1) = m3
  BY DEF Diagram!ApplyEntityChanges
<1> HIDE DEF E
<1>2. Holds(m1, E, Diagram!Held(ent) \cup cr)
  BY ChangesAre, EntitiesAdded DEF E
<1> HIDE DEF m1
<1>3. Holds(Diagram!Updated(c, 1), E, up)
  BY UpdatedHeld DEF E
<1>4. Holds(m2, E, Diagram!Held(m1) \cup up)
  BY <1>2, <1>3, EntitiesAdded DEF Holds
<1> HIDE DEF m2
<1>5. Holds(m3, E, Diagram!Held(m2) \ de)
  BY <1>4, EntitiesDeleted DEF Holds
<1> HIDE DEF m3
<1>6. m3 \in Seq(E) /\ Diagram!Held(m3) = ((Diagram!Held(ent) \cup cr) \cup up) \ de
  BY <1>2, <1>4, <1>5 DEF Holds
<1>7. /\ after \ u = ((before \cup cr) \ de) \ u
      /\ de \cup up \subseteq before \cup u
  BY DEF StepFits
<1>8. Diagram!Held(ent) \ u = before \ u
  BY DEF Agrees
<1> HIDE DEF cr, de, up
<1>9. Diagram!Held(m3) \ u = after \ u
  BY <1>6, <1>7, <1>8
<1> QED
  BY <1>1, <1>6, <1>9 DEF Agrees, E

\* All that is known of the editor: entities, layout, history, position,
\* expanding, detached, unrecorded and detachedUse.
Edited(ent, l, h, p, u, used) ==
  /\ ent \in Seq(Diagram!Entity)
  /\ HistoryFits(h, u, used)
  /\ p \in DOMAIN h /\ l = h[p].layout
  /\ Agrees(ent, h[p].held, u)
  /\ u \subseteq DiagramThings

Expanding(exp, det) ==
  exp \in {"no", "shown", "detached"} /\ DOMAIN det = DOMAIN Diagram!NewLayout

DiagramAll == Edited(s1, s2, s3, s4, s7, s9) /\ Expanding(s5, s6)

\* What a history that fits is as a list.
LEMMA HistoryList ==
  ASSUME NEW h, NEW u, NEW used, HistoryFits(h, u, used)
  PROVE  /\ Len(h) \in Nat /\ DOMAIN h = 1..Len(h)
         /\ h \in Seq([layout : {h[i].layout : i \in DOMAIN h},
                       changes : Diagram!Changes,
                       held : {h[i].held : i \in DOMAIN h}])
<1>1. IsList(h) /\ Len(h) \in Nat /\ DOMAIN h = 1..Len(h) /\ h = [i \in DOMAIN h |-> h[i]]
  BY ListParts DEF HistoryFits
<1> DEFINE R == [layout : {h[i].layout : i \in DOMAIN h}, changes : Diagram!Changes,
                 held : {h[i].held : i \in DOMAIN h}]
<1>2. ASSUME NEW k \in DOMAIN h PROVE h[k] \in R
  <2> DEFINE e == h[k]
  <2>1. /\ e = [layout |-> e.layout, changes |-> e.changes, held |-> e.held]
        /\ e.changes \in Diagram!Changes
    BY DEF HistoryFits, EntryFits
  <2>2. e.layout \in {h[i].layout : i \in DOMAIN h} /\ e.held \in {h[i].held : i \in DOMAIN h}
    OBVIOUS
  <2> QED
    BY <2>1, <2>2
<1> HIDE DEF R
<1>3. h \in [1..Len(h) -> R]
  BY <1>1, <1>2
<1>4. h \in Seq(R)
  BY <1>1, <1>3
<1> QED
  BY <1>1, <1>4 DEF R

\* The invariant of the diagram, in parts.
LEMMA DiagramParts == Diagram!Inv <=> DiagramAll
<1> DEFINE R == [layout : {s3[i].layout : i \in DOMAIN s3}, changes : Diagram!Changes,
                 held : {s3[i].held : i \in DOMAIN s3}]
<1>1. ASSUME Diagram!Inv PROVE DiagramAll
  <2>1. /\ s1 \in Seq(Diagram!Entity) /\ s4 \in DOMAIN s3 /\ s3 \in Seq(R)
        /\ \A i \in DOMAIN s3 : Diagram!IsLayout(s3[i].layout)
        /\ Expanding(s5, s6) /\ s2 = s3[s4].layout /\ s7 \subseteq DiagramThings
    BY <1>1 DEF Diagram!Inv, Diagram!HistoryTypes, Expanding
  <2>2. IsList(s3)
    <3> HIDE DEF R
    <3> QED
      BY <2>1, SeqIsList
  <2>3. ASSUME NEW k \in DOMAIN s3 PROVE EntryFits(s3[k], s7, s9)
    <3> DEFINE e == s3[k]
    <3>1. e \in R
      <4> HIDE DEF R
      <4> QED
        BY <2>1
    <3>2. /\ e = [layout |-> e.layout, changes |-> e.changes, held |-> e.held]
          /\ e.changes \in Diagram!Changes
      BY <3>1
    <3>3. Diagram!EntryShows(e)
      BY <1>1 DEF Diagram!Inv
    <3>4. Diagram!IsLayout(e.layout)
      BY <2>1
    <3> HIDE DEF e
    <3>5. EntryFits(e, s7, s9)
      BY <3>2, <3>3, <3>4, GroupsDrawnIs DEF EntryFits, LayoutFits, Diagram!EntryShows
    <3> QED
      BY <3>5 DEF e
  <2>4. ASSUME NEW k \in 2..Len(s3)
        PROVE  StepFits(s3[k - 1].held, s3[k].changes, s3[k].held, s7)
    <3>1. /\ Diagram!HistoryReplays /\ Diagram!ChangesFit
      BY <1>1 DEF Diagram!Inv
    <3> QED
      BY <3>1 DEF Diagram!HistoryReplays, Diagram!ChangesFit, StepFits
  <2>5. Agrees(s1, s3[s4].held, s7)
    BY <1>1 DEF Diagram!Inv, Agrees
  <2> QED
    BY <2>1, <2>2, <2>3, <2>4, <2>5 DEF DiagramAll, Edited, HistoryFits
<1>2. ASSUME DiagramAll PROVE Diagram!Inv
  <2>1. /\ s1 \in Seq(Diagram!Entity) /\ HistoryFits(s3, s7, s9)
        /\ s4 \in DOMAIN s3 /\ s2 = s3[s4].layout /\ s7 \subseteq DiagramThings
        /\ Agrees(s1, s3[s4].held, s7) /\ Expanding(s5, s6)
    BY <1>2 DEF DiagramAll, Edited
  <2>2. s3 \in Seq(R)
    BY <2>1, HistoryList
  <2>3. \A k \in DOMAIN s3 : EntryFits(s3[k], s7, s9)
    BY <2>1 DEF HistoryFits
  <2>4. \A k \in 2..Len(s3) : StepFits(s3[k - 1].held, s3[k].changes, s3[k].held, s7)
    BY <2>1 DEF HistoryFits
  <2>5. /\ \A i \in DOMAIN s3 : Diagram!IsLayout(s3[i].layout)
        /\ \A i \in DOMAIN s3 : Diagram!EntryShows(s3[i])
    BY <2>3, GroupsDrawnIs DEF EntryFits, LayoutFits, Diagram!EntryShows
  <2>6. Diagram!HistoryReplays /\ Diagram!ChangesFit
    BY <2>4 DEF Diagram!HistoryReplays, Diagram!ChangesFit, StepFits
  <2>7. Diagram!Held(s1) \ s7 = s3[s4].held \ s7
    BY <2>1 DEF Agrees
  <2>8. Diagram!HistoryTypes
    BY <2>1, <2>2, <2>5 DEF Diagram!HistoryTypes, Expanding
  <2> QED
    BY <2>1, <2>5, <2>6, <2>7, <2>8 DEF Diagram!Inv
<1> QED
  BY <1>1, <1>2

\* What is shown is what is held.
LEMMA DiagramFits ==
  ASSUME DiagramAll
  PROVE  LayoutFits(s2, Diagram!Held(s1), s7, s9) /\ Link \notin s7
<1>1. Edited(s1, s2, s3, s4, s7, s9)
  BY DEF DiagramAll
<1>2. EntryFits(s3[s4], s7, s9) /\ s2 = s3[s4].layout
  BY <1>1 DEF Edited, HistoryFits
<1>3. Link \notin s7 /\ Diagram!Held(s1) \ s7 = s3[s4].held \ s7
  BY <1>1, DiagramAssumption DEF Edited, Agrees
<1> DEFINE held == s3[s4].held
<1>4. LayoutFits(s2, held, s7, s9) /\ Diagram!Held(s1) \ s7 = held \ s7
  BY <1>2, <1>3 DEF EntryFits
<1> HIDE DEF held
<1> QED
  BY <1>3, <1>4, FitsSame

\* It implies what the diagram promises.
LEMMA DiagramShows ==
  Diagram!Inv => /\ Diagram!DrawnAsHeld /\ Diagram!EdgesConnect
                 /\ Diagram!GroupingsNameVertices /\ Diagram!HistoryReplays
<1> SUFFICES ASSUME Diagram!Inv
             PROVE  /\ Diagram!DrawnAsHeld /\ Diagram!EdgesConnect
                    /\ Diagram!GroupingsNameVertices
  BY DEF Diagram!Inv
<1>1. LayoutFits(s2, Diagram!Held(s1), s7, s9)
  BY DiagramParts, DiagramFits
<1> QED
  BY <1>1, GroupsDrawnIs DEF LayoutFits, Diagram!DrawnAsHeld, Diagram!EdgesConnect,
    Diagram!GroupingsNameVertices

-----------------------------------------------------------------------------
(* Entries of the history *)

\* An entry fits also when more is unrecorded.
LEMMA FitsGrow ==
  ASSUME NEW before, NEW c, NEW after, NEW u, NEW v, u \subseteq v,
         StepFits(before, c, after, u)
  PROVE  StepFits(before, c, after, v)
BY DEF StepFits

\* More is unrecorded, and what was used stays used.
Later(u, used, v, also) == u \subseteq v /\ (~also => ~used)

\* So does its layout.
LEMMA EntryFitsGrow ==
  ASSUME NEW e, NEW u, NEW v, NEW used, NEW also, Later(u, used, v, also),
         EntryFits(e, u, used)
  PROVE  EntryFits(e, v, also)
BY DEF EntryFits, LayoutFits, Nameable, GroupsIn, Later, Diagram!Shows, Diagram!Connects

\* n is a history whose last entry, at p + 1, is e.
Pushed(n, p, e, v, also) ==
  HistoryFits(n, v, also) /\ p + 1 \in DOMAIN n /\ n[p + 1] = e

\* A history whose end is cut off and that gets a new entry fits.
LEMMA HistoryPushed ==
  ASSUME NEW h, NEW u, NEW v, NEW used, NEW also, Later(u, used, v, also),
         HistoryFits(h, u, used), NEW p \in DOMAIN h, NEW e,
         EntryFits(e, v, also), StepFits(h[p].held, e.changes, e.held, v)
  PROVE  Pushed(Append(SubSeq(h, 1, p), e), p, e, v, also)
<1> DEFINE b == SubSeq(h, 1, p)
           n == Append(b, e)
           X == ValuesOf(h) \cup {e}
<1>1. /\ DOMAIN h = 1..Len(h) /\ Len(h) \in Nat /\ p \in 1..Len(h) /\ IsList(h)
  BY HistoryList DEF HistoryFits
<1>2. h \in Seq(X)
  <2>1. h \in Seq(ValuesOf(h))
    BY <1>1 DEF IsList
  <2> QED
    BY <2>1
<1> HIDE DEF X
<1>3. b \in Seq(X) /\ Len(b) = p /\ \A k \in 1..p : b[k] = h[k]
  BY <1>1, <1>2
<1>4. e \in X
  BY DEF X
<1> HIDE DEF b
<1>5. /\ n \in Seq(X) /\ Len(n) = p + 1 /\ DOMAIN n = 1..(p + 1)
      /\ n[p + 1] = e /\ \A k \in 1..p : n[k] = b[k]
  BY <1>1, <1>3, <1>4
<1> HIDE DEF n
<1>6. IsList(n)
  BY <1>5, SeqIsList
<1>7. \A k \in 1..p : n[k] = h[k]
  BY <1>3, <1>5
<1>8. ASSUME NEW k \in DOMAIN n PROVE EntryFits(n[k], v, also)
  <2>1. CASE k \in 1..p
    <3>1. k \in DOMAIN h /\ n[k] = h[k]
      BY <1>1, <1>7, <2>1
    <3>2. EntryFits(h[k], u, used)
      BY <3>1 DEF HistoryFits
    <3> QED
      BY <3>1, <3>2, EntryFitsGrow
  <2>2. CASE k = p + 1
    BY <1>5, <2>2
  <2> QED
    BY <1>1, <1>5, <2>1, <2>2
<1>9. ASSUME NEW k \in 2..Len(n)
      PROVE  StepFits(n[k - 1].held, n[k].changes, n[k].held, v)
  <2>1. CASE k \in 2..p
    <3>1. k \in 2..Len(h) /\ n[k] = h[k] /\ n[k - 1] = h[k - 1]
      BY <1>1, <1>7, <2>1
    <3>2. StepFits(h[k - 1].held, h[k].changes, h[k].held, u)
      BY <3>1 DEF HistoryFits
    <3> QED
      BY <3>1, <3>2, FitsGrow DEF Later
  <2>2. CASE k = p + 1
    <3>1. n[k] = e /\ n[k - 1] = h[p]
      BY <1>1, <1>5, <1>7, <2>2
    <3> QED
      BY <3>1
  <2> QED
    BY <1>1, <1>5, <2>1, <2>2
<1>10. HistoryFits(n, v, also)
  BY <1>6, <1>8, <1>9 DEF HistoryFits
<1>11. p + 1 \in DOMAIN n
  BY <1>1, <1>5
<1> QED
  BY <1>5, <1>10, <1>11 DEF n, b, Pushed

\* A step that is recorded.
LEMMA EditRecorded ==
  ASSUME NEW ent, NEW l, NEW h, NEW p, NEW u, NEW used, Edited(ent, l, h, p, u, used),
         NEW m \in Seq(Diagram!Entity), NEW r, NEW c \in Diagram!Changes,
         NEW v \in SUBSET DiagramThings, NEW also, Later(u, used, v, also),
         LayoutFits(r, Diagram!Held(m), v, also), StepFits(h[p].held, c, Diagram!Held(m), v)
  PROVE  Edited(m, r,
                Append(SubSeq(h, 1, p),
                       [layout |-> r, changes |-> c, held |-> Diagram!Held(m)]),
                p + 1, v, also)
<1> DEFINE H == Diagram!Held(m)
           e == [layout |-> r, changes |-> c, held |-> H]
           n == Append(SubSeq(h, 1, p), e)
<1>1. HistoryFits(h, u, used) /\ p \in DOMAIN h
  BY DEF Edited
<1>2. LayoutFits(r, H, v, also) /\ StepFits(h[p].held, c, H, v) /\ Agrees(m, H, v)
  BY DEF Agrees
<1> HIDE DEF H
<1>3. /\ e.layout = r /\ e.changes = c /\ e.held = H
      /\ e = [layout |-> e.layout, changes |-> e.changes, held |-> e.held]
  OBVIOUS
<1> HIDE DEF e
<1>4. EntryFits(e, v, also)
  BY <1>2, <1>3 DEF EntryFits
<1>5. StepFits(h[p].held, e.changes, e.held, v)
  BY <1>2, <1>3
<1>6. Pushed(n, p, e, v, also)
  BY <1>1, <1>4, <1>5, HistoryPushed
<1> HIDE DEF n
<1>7. Edited(m, r, n, p + 1, v, also)
  BY <1>2, <1>3, <1>6 DEF Edited, Pushed
<1> QED
  BY <1>7 DEF n, e, H

-----------------------------------------------------------------------------
(* The steps of the diagram's editor *)

\* An entry records one kind of change.
LEMMA OneChange ==
  ASSUME NEW s \in Seq(Diagram!Entity), NEW t \in Seq(Diagram!Change)
  PROVE  /\ LET c == Diagram!NoChanges
            IN /\ c \in Diagram!Changes
               /\ c.created = <<>> /\ c.updated = <<>> /\ c.deleted = <<>>
         /\ LET c == [Diagram!NoChanges EXCEPT !.created = s]
            IN /\ c \in Diagram!Changes
               /\ c.created = s /\ c.updated = <<>> /\ c.deleted = <<>>
         /\ LET c == [Diagram!NoChanges EXCEPT !.updated = t]
            IN /\ c \in Diagram!Changes
               /\ c.created = <<>> /\ c.updated = t /\ c.deleted = <<>>
         /\ LET c == [Diagram!NoChanges EXCEPT !.deleted = s]
            IN /\ c \in Diagram!Changes
               /\ c.created = <<>> /\ c.updated = <<>> /\ c.deleted = s
<1>1. <<>> \in Seq(Diagram!Entity) /\ <<>> \in Seq(Diagram!Change)
  OBVIOUS
<1> QED
  BY <1>1 DEF Diagram!NoChanges, Diagram!Changes

\* The changes c lead from what ent holds to what m holds.
Leads(ent, c, m, v) ==
  /\ Diagram!Held(m) \ v
       = ((Diagram!Held(ent) \cup Diagram!Held(c.created)) \ Diagram!Held(c.deleted)) \ v
  /\ Diagram!Held(c.created) \cap Diagram!Held(ent) = {}
  /\ Diagram!Held(c.deleted) \subseteq Diagram!Held(ent)
  /\ Diagram!Held(c.updated) \subseteq Diagram!Held(ent)

\* r is drawn from m, which is what is left of H but for what is gone.
LEMMA GeneratedFits ==
  ASSUME NEW H, NEW K, NEW l, NEW u, NEW used, LayoutFits(l, H, u, used),
         NEW r, NEW G, Drawn(r, K, G), NEW v, u \subseteq v,
         NEW gone, (H \cap DiagramThings) \ gone \subseteq K,
         NEW also, ~also => GroupsIn(G, Nameable(l, u) \ gone)
  PROVE  LayoutFits(r, K, v, also)
<1>1. /\ Diagram!IsLayout(r) /\ r.groupings = G /\ Diagram!Shows(r, K, {})
      /\ \A e \in r.edges : Diagram!Connects(e, r, K, {})
  BY DEF Drawn
<1>2. Diagram!Shows(r, K, v)
  BY <1>1 DEF Diagram!Shows
<1>3. \A e \in r.edges : Diagram!Connects(e, r, K, v)
  BY <1>1 DEF Diagram!Connects
<1>4. Nameable(l, u) \ gone \subseteq Nameable(r, v)
  <2>1. l.vertices \subseteq DiagramThings \cup {ValueVertex}
    BY DEF LayoutFits, Diagram!IsLayout
  <2>2. (l.vertices \cap DiagramThings) \ u \subseteq H \cup Diagram!Embedded
    BY DEF LayoutFits, Diagram!Shows, Diagram!ThingsIn, Diagram!Brought
  <2>3. K \cap DiagramThings \subseteq r.vertices
    BY <1>1 DEF Diagram!Shows, Diagram!ThingsIn
  <2> QED
    BY <2>1, <2>2, <2>3 DEF Nameable
<1>5. ~also => GroupsIn(r.groupings, Nameable(r, v))
  BY <1>1, <1>4 DEF GroupsIn
<1> QED
  BY <1>1, <1>2, <1>3, <1>5 DEF LayoutFits

\* An edit that records an entry which fits preserves the invariant.
LEMMA Recording ==
  ASSUME DiagramAll, NEW m \in Seq(Diagram!Entity), NEW l, NEW c \in Diagram!Changes,
         Diagram!Record(m, l, c), Later(s7, s9, s7', s9'), s7' \subseteq DiagramThings,
         LayoutFits(l, Diagram!Held(m), s7', s9'), Leads(s1, c, m, s7')
  PROVE  Edited(s1, s2, s3, s4, s7, s9)'
<1> DEFINE n == Append(SubSeq(s3, 1, s4),
                       [layout |-> l, changes |-> c, held |-> Diagram!Held(m)])
<1>1. s1' = m /\ s2' = l /\ s4' = s4 + 1 /\ s3' = n
  BY DEF Diagram!Record, Diagram!Push
<1>2. Edited(s1, s2, s3, s4, s7, s9)
  BY DEF DiagramAll
<1>3. StepFits(s3[s4].held, c, Diagram!Held(m), s7')
  <2>1. Diagram!Held(s1) \ s7 = s3[s4].held \ s7 /\ s7 \subseteq s7'
    BY <1>2 DEF Edited, Agrees, Later
  <2> DEFINE H == Diagram!Held(s1)
             K == Diagram!Held(m)
             B == s3[s4].held
             cr == Diagram!Held(c.created)
             de == Diagram!Held(c.deleted)
             up == Diagram!Held(c.updated)
  <2>2. /\ K \ s7' = ((H \cup cr) \ de) \ s7' /\ cr \cap H = {}
        /\ de \subseteq H /\ up \subseteq H
    BY DEF Leads
  <2>3. H \ s7 = B \ s7
    BY <2>1
  <2> HIDE DEF H, K, B, cr, de, up
  <2>4. /\ K \ s7' = ((B \cup cr) \ de) \ s7' /\ cr \cap B \subseteq s7'
        /\ de \cup up \subseteq B \cup s7'
    BY <2>1, <2>2, <2>3
  <2> QED
    BY <2>4 DEF StepFits, K, B, cr, de, up
<1>4. Edited(m, l, n, s4 + 1, s7', s9')
  BY <1>2, <1>3, EditRecorded
<1> HIDE DEF n
<1>5. Edited(s1', s2', s3', s4', s7', s9')
  BY <1>1, <1>4
<1> QED
  BY <1>5 DEF Edited, HistoryFits, EntryFits, LayoutFits, StepFits, Agrees, Nameable,
    GroupsIn, IsList, ValuesOf, Diagram!Shows, Diagram!Connects, Diagram!ThingsIn,
    Diagram!Held, Diagram!IsLayout

\* What the page has: the facts of a step before it is made.
LEMMA DiagramFacts ==
  ASSUME DiagramAll
  PROVE  /\ s1 \in Seq(Diagram!Entity) /\ s7 \subseteq DiagramThings
         /\ Diagram!IsLayout(s2) /\ DOMAIN s2 = DOMAIN Diagram!NewLayout
         /\ ~s9 => GroupsIn(s2.groupings, Nameable(s2, s7))
BY DiagramFits DEF DiagramAll, Edited, LayoutFits, Diagram!IsLayout

\* An edit that draws its result anew, and removes what is gone.
LEMMA EditDrawn ==
  ASSUME DiagramAll, NEW k, DOMAIN k = DOMAIN Diagram!NewLayout,
         NEW m \in Seq(Diagram!Entity), NEW c \in Diagram!Changes, NEW gone,
         Diagram!Record(m, Diagram!Generate(k, m), c), s7' = s7, s9' = s9,
         \A N : GroupsIn(s2.groupings, N) => GroupsIn(k.groupings, N \ gone),
         (Diagram!Held(s1) \cap DiagramThings) \ gone \subseteq Diagram!Held(m),
         Leads(s1, c, m, {})
  PROVE  Edited(s1, s2, s3, s4, s7, s9)'
<1> DEFINE r == Diagram!Generate(k, m)
<1>1. /\ LayoutFits(s2, Diagram!Held(s1), s7, s9) /\ s7 \subseteq DiagramThings
      /\ ~s9 => GroupsIn(s2.groupings, Nameable(s2, s7))
  BY DiagramFits, DiagramFacts
<1>2. Drawn(r, Diagram!Held(m), k.groupings)
  BY Generated
<1>3. Diagram!Record(m, r, c)
  OBVIOUS
<1> HIDE DEF r
<1>4. ~s9 => GroupsIn(k.groupings, Nameable(s2, s7) \ gone)
  BY <1>1
<1>5. LayoutFits(r, Diagram!Held(m), s7, s9)
  BY <1>1, <1>2, <1>4, GeneratedFits
<1>6. Leads(s1, c, m, s7)
  BY DEF Leads
<1>7. Later(s7, s9, s7', s9')
  BY DEF Later
<1>8. LayoutFits(r, Diagram!Held(m), s7', s9') /\ Leads(s1, c, m, s7')
  BY <1>5, <1>6
<1> QED
  BY <1>1, <1>3, <1>7, <1>8, Recording

\* An edit that changes no entity.
LEMMA NothingChanged ==
  /\ Diagram!NoChanges \in Diagram!Changes
  /\ \A v : Leads(s1, Diagram!NoChanges, s1, v)
<1>1. <<>> \in Seq(Diagram!Entity) /\ <<>> \in Seq(Diagram!Change)
  OBVIOUS
<1> DEFINE c == Diagram!NoChanges
<1>2. /\ c \in Diagram!Changes /\ c.created = <<>> /\ c.updated = <<>> /\ c.deleted = <<>>
  BY <1>1, OneChange
<1>3. Diagram!Held(<<>>) = {}
  BY HeldNone DEF Holds
<1> HIDE DEF c
<1>4. \A v : Leads(s1, c, s1, v)
  BY <1>2, <1>3 DEF Leads
<1> QED
  BY <1>2, <1>4 DEF c

\* An edit of the groupings alone.
LEMMA EditRegrouped ==
  ASSUME DiagramAll, NEW r, NEW vs, vs \subseteq s2.vertices,
         Regrouped(s2, r, vs) \/ r = s2,
         Diagram!Record(s1, r, Diagram!NoChanges), s7' = s7, s9' = s9
  PROVE  Edited(s1, s2, s3, s4, s7, s9)'
<1> DEFINE N == Nameable(s2, s7)
<1>1. /\ s1 \in Seq(Diagram!Entity) /\ s7 \subseteq DiagramThings
      /\ LayoutFits(s2, Diagram!Held(s1), s7, s9)
  BY DiagramFits, DiagramFacts
<1>2. DOMAIN s2 = DOMAIN Diagram!NewLayout /\ vs \subseteq N
  BY <1>1 DEF LayoutFits, Diagram!IsLayout, Nameable
<1> HIDE DEF N
<1>3. /\ DOMAIN r = DOMAIN Diagram!NewLayout
      /\ r.vertices = s2.vertices /\ r.edges = s2.edges
      /\ GroupsIn(s2.groupings, N) => GroupsIn(r.groupings, N)
  BY <1>2 DEF Regrouped
<1>4. N = Nameable(r, s7)
  BY <1>3 DEF N, Nameable
<1>5. LayoutFits(r, Diagram!Held(s1), s7, s9)
  <2>1. ~s9 => GroupsIn(r.groupings, Nameable(r, s7))
    BY <1>1, <1>3, <1>4 DEF LayoutFits, N
  <2>2. Diagram!IsLayout(r)
    BY <1>1, <1>3 DEF LayoutFits, Diagram!IsLayout
  <2>3. Diagram!Shows(r, Diagram!Held(s1), s7)
    BY <1>1, <1>3 DEF LayoutFits, Diagram!Shows, Diagram!ThingsIn
  <2>4. \A f \in r.edges : Diagram!Connects(f, r, Diagram!Held(s1), s7)
    BY <1>1, <1>3 DEF LayoutFits, Diagram!Connects
  <2> QED
    BY <2>1, <2>2, <2>3, <2>4 DEF LayoutFits
<1>6. Later(s7, s9, s7', s9')
  BY DEF Later
<1>7. LayoutFits(r, Diagram!Held(s1), s7', s9') /\ s7' \subseteq DiagramThings
  BY <1>1, <1>5
<1> QED
  BY <1>1, <1>6, <1>7, NothingChanged, Recording

\* A new entity of the diagram, and what a list of it holds.
LEMMA ThingIs ==
  ASSUME NEW id \in DiagramThings \cup {Link}
  PROVE  /\ Diagram!Thing(id) \in Diagram!Entity /\ Diagram!Thing(id).id = id
         /\ Holds(<<Diagram!Thing(id)>>, Diagram!Entity, {id})
<1> DEFINE e == Diagram!Thing(id)
<1>1. e \in Diagram!Entity /\ e.id = id
  BY DEF Diagram!Thing, Diagram!Entity, Diagram!Ids
<1> HIDE DEF e
<1>2. Holds(<<e>>, Diagram!Entity, {e.id})
  BY <1>1, HeldOne
<1> QED
  BY <1>1, <1>2 DEF e

\* A new link has the ids of its ends.
LEMMA LinkIs ==
  LET e == [Diagram!Thing(Link) EXCEPT !.ids = {Source, Target}]
  IN e \in Diagram!Entity /\ e.id = Link
BY DiagramAssumption DEF Diagram!Thing, Diagram!Entity, Diagram!Ids

\* A new entity, a thing or the link, is drawn and recorded as created.
LEMMA EntityCreated ==
  ASSUME DiagramAll, NEW e \in Diagram!Entity, ~Diagram!HasEntity(s1, e.id),
         LET m == Diagram!AddEntity(s1, e)
         IN Diagram!Record(m, Diagram!Generate(s2, m),
              [Diagram!NoChanges EXCEPT !.created = <<e>>]),
         s7' = s7, s9' = s9
  PROVE  Edited(s1, s2, s3, s4, s7, s9)'
<1> DEFINE one == <<e>>
           m == Diagram!AddEntities(s1, one)
           c == [Diagram!NoChanges EXCEPT !.created = one]
<1>1. one \in Seq(Diagram!Entity) /\ Diagram!Held(one) = {e.id}
  BY HeldOne DEF Holds
<1>2. Diagram!Record(m, Diagram!Generate(s2, m), c)
  BY DEF Diagram!AddEntity
<1> HIDE DEF one
<1>3. m \in Seq(Diagram!Entity) /\ Diagram!Held(m) = Diagram!Held(s1) \cup {e.id}
  BY <1>1, DiagramFacts, EntitiesAdded DEF Holds
<1>4. c \in Diagram!Changes /\ c.created = one /\ c.updated = <<>> /\ c.deleted = <<>>
  <2>1. <<>> \in Seq(Diagram!Change)
    OBVIOUS
  <2> QED
    BY <1>1, <2>1, OneChange
<1> HIDE DEF m, c
<1>5. Diagram!Held(<<>>) = {}
  BY HeldNone DEF Holds
<1>6. e.id \notin Diagram!Held(s1)
  BY DEF Diagram!HasEntity
<1>7. \A N : GroupsIn(s2.groupings, N) => GroupsIn(s2.groupings, N \ {})
  BY DEF GroupsIn
<1>8. /\ (Diagram!Held(s1) \cap DiagramThings) \ {} \subseteq Diagram!Held(m)
      /\ Leads(s1, c, m, {})
  BY <1>1, <1>3, <1>4, <1>5, <1>6 DEF Leads
<1>9. DOMAIN s2 = DOMAIN Diagram!NewLayout
  BY DiagramFacts
<1> QED
  BY <1>2, <1>3, <1>4, <1>7, <1>8, <1>9, EditDrawn

\* The source's reference is set or cleared.
LEMMA SourceEdited ==
  ASSUME DiagramAll, Diagram!EditSource
  PROVE  Edited(s1, s2, s3, s4, s7, s9)'
<1> DEFINE list == Diagram!GetEntities(s1, {Source})
           old == list[1]
           set == [old EXCEPT !.objects = {Target}]
           E == Diagram!Entity
<1> PICK new \in {Diagram!Thing(Source)} \cup IF Diagram!HasEntity(s1, Target) THEN {set} ELSE {} :
           LET m == Diagram!AddEntity(s1, new)
           IN Diagram!Record(m, Diagram!Generate(s2, m),
                [Diagram!NoChanges EXCEPT !.updated = <<[prev |-> old, next |-> new,
                                                         id |-> Source]>>])
  BY DEF Diagram!EditSource
<1> DEFINE one == <<new>>
           m == Diagram!AddEntities(s1, one)
           t == <<[prev |-> old, next |-> new, id |-> Source]>>
           c == [Diagram!NoChanges EXCEPT !.updated = t]
<1>1. /\ Source \in Diagram!Held(s1) /\ Diagram!Record(m, Diagram!Generate(s2, m), c)
      /\ s7' = s7 /\ s9' = s9
  BY DEF Diagram!EditSource, Diagram!HasEntity, Diagram!AddEntity
<1>2. s1 \in Seq(E) /\ DOMAIN s2 = DOMAIN Diagram!NewLayout
  BY DiagramFacts
<1>3. list \in Seq(E) /\ Diagram!Held(list) = {Source}
  <2> HIDE DEF E
  <2> QED
    BY <1>1, <1>2, EntitiesGotten DEF Holds
<1> HIDE DEF list
<1>4. 1 \in DOMAIN list /\ old \in E /\ old.id = Source
  <2>1. DOMAIN list = 1..Len(list) /\ Len(list) \in Nat /\ \A i \in DOMAIN list : list[i] \in E
    <3> HIDE DEF E
    <3> QED
      BY <1>3
  <2>2. PICK i \in DOMAIN list : TRUE
    BY <1>3 DEF Diagram!Held
  <2>3. 1 \in DOMAIN list
    BY <2>1, <2>2
  <2> QED
    BY <1>3, <2>1, <2>3 DEF Diagram!Held
<1> HIDE DEF old
<1>5. new \in E /\ new.id = Source
  <2>1. set \in E /\ set.id = Source
    BY <1>4, DiagramAssumption DEF Diagram!Entity
  <2>2. Diagram!Thing(Source) \in E /\ Diagram!Thing(Source).id = Source
    BY ThingIs, DiagramAssumption
  <2> HIDE DEF set, E
  <2> QED
    BY <2>1, <2>2
<1>6. /\ [prev |-> old, next |-> new, id |-> Source] \in Diagram!Change
      /\ [prev |-> old, next |-> new, id |-> Source].id = Source
  BY <1>4, <1>5, DiagramAssumption DEF Diagram!Change, Diagram!Ids
<1>7. t \in Seq(Diagram!Change) /\ Diagram!Held(t) = {Source}
  <2> DEFINE x == [prev |-> old, next |-> new, id |-> Source]
  <2>1. x \in Diagram!Change /\ x.id = Source
    BY <1>6
  <2> HIDE DEF x
  <2>2. Holds(<<x>>, Diagram!Change, {x.id})
    BY <2>1, HeldOne
  <2> QED
    BY <2>1, <2>2 DEF x, Holds
<1> HIDE DEF t
<1>8. one \in Seq(E) /\ Diagram!Held(one) = {Source}
  BY <1>5, HeldOne DEF Holds
<1> HIDE DEF one, E
<1>9. m \in Seq(E) /\ Diagram!Held(m) = Diagram!Held(s1) \cup {Source}
  BY <1>2, <1>8, EntitiesAdded DEF Holds
<1>10. c \in Diagram!Changes /\ c.created = <<>> /\ c.updated = t /\ c.deleted = <<>>
  <2>1. <<>> \in Seq(Diagram!Entity)
    OBVIOUS
  <2> QED
    BY <1>7, <2>1, OneChange
<1>11. m \in Seq(Diagram!Entity) /\ s1 \in Seq(Diagram!Entity)
  BY <1>2, <1>9 DEF E
<1> HIDE DEF m, c
<1>12. Diagram!Held(<<>>) = {}
  BY HeldNone DEF Holds
<1>13. \A N : GroupsIn(s2.groupings, N) => GroupsIn(s2.groupings, N \ {})
  BY DEF GroupsIn
<1>14. /\ (Diagram!Held(s1) \cap DiagramThings) \ {} \subseteq Diagram!Held(m)
       /\ Leads(s1, c, m, {})
  BY <1>1, <1>7, <1>9, <1>10, <1>12 DEF Leads
<1> QED
  BY <1>1, <1>2, <1>10, <1>11, <1>13, <1>14, EditDrawn

\* What is selected is removed, with the links at it.
LEMMA SelectionRemoved ==
  ASSUME DiagramAll, NEW vs, NEW es, es = {} \/ es = s2.edges,
         Diagram!RemoveSelection(vs, es)
  PROVE  Edited(s1, s2, s3, s4, s7, s9)'
<1> DEFINE ids == Diagram!IdsToRemove(s2, vs, es)
           list == Diagram!GetEntities(s1, ids)
           m == Diagram!DeleteEntities(s1, ids)
           k == Diagram!RemoveFromLayout(s2, vs)
           c == [Diagram!NoChanges EXCEPT !.deleted = list]
           E == Diagram!Entity
<1>1. Diagram!Record(m, Diagram!Generate(k, m), c) /\ s7' = s7 /\ s9' = s9
  BY DEF Diagram!RemoveSelection
<1>2. s1 \in Seq(E) /\ DOMAIN s2 = DOMAIN Diagram!NewLayout /\ Diagram!IsLayout(s2)
  BY DiagramFacts
<1>3. ids \subseteq vs \cup {Link}
  <2>1. \A e \in s2.edges : e.isEntity => e.entity = Link
    BY <1>2 DEF Diagram!IsLayout
  <2> QED
    BY <2>1 DEF Diagram!IdsToRemove
<1> HIDE DEF ids, E
<1>4. list \in Seq(E) /\ Diagram!Held(list) = Diagram!Held(s1) \cap ids
  BY <1>2, EntitiesGotten DEF Holds
<1>5. m \in Seq(E) /\ Diagram!Held(m) = Diagram!Held(s1) \ ids
  BY <1>2, EntitiesDeleted DEF Holds
<1> HIDE DEF list
<1>6. c \in Diagram!Changes /\ c.created = <<>> /\ c.updated = <<>> /\ c.deleted = list
  <2>1. <<>> \in Seq(Diagram!Change)
    OBVIOUS
  <2> QED
    BY <1>4, <2>1, OneChange DEF E
<1>7. /\ DOMAIN k = DOMAIN Diagram!NewLayout
      /\ \A N : GroupsIn(s2.groupings, N) => GroupsIn(k.groupings, N \ vs)
  BY <1>2, LayoutRemoved
<1> HIDE DEF m, c, k
<1>8. Diagram!Held(<<>>) = {}
  BY HeldNone DEF Holds
<1>9. /\ (Diagram!Held(s1) \cap DiagramThings) \ vs \subseteq Diagram!Held(m)
      /\ Leads(s1, c, m, {})
  BY <1>3, <1>4, <1>5, <1>6, <1>8, DiagramAssumption DEF Leads
<1>10. m \in Seq(Diagram!Entity)
  BY <1>5 DEF E
<1> QED
  BY <1>1, <1>6, <1>7, <1>9, <1>10, EditDrawn

\* Changing the settings preserves the invariant.
LEMMA SettingsChanged ==
  ASSUME DiagramAll, NEW types, Diagram!ChangeSettings(types)
  PROVE  Edited(s1, s2, s3, s4, s7, s9)'
<1> DEFINE k == [s2 EXCEPT !.settings = types]
<1>1. Diagram!Record(s1, Diagram!Generate(k, s1), Diagram!NoChanges) /\ s7' = s7 /\ s9' = s9
  BY DEF Diagram!ChangeSettings
<1>2. s1 \in Seq(Diagram!Entity) /\ DOMAIN s2 = DOMAIN Diagram!NewLayout
  BY DiagramFacts
<1>3. DOMAIN k = DOMAIN Diagram!NewLayout /\ k.groupings = s2.groupings
  BY <1>2, LayoutChanged
<1> HIDE DEF k
<1>4. \A N : GroupsIn(s2.groupings, N) => GroupsIn(k.groupings, N \ {})
  BY <1>3 DEF GroupsIn
<1>5. (Diagram!Held(s1) \cap DiagramThings) \ {} \subseteq Diagram!Held(s1)
  OBVIOUS
<1> QED
  BY <1>1, <1>2, <1>3, <1>4, <1>5, NothingChanged, EditDrawn

\* What an expansion found is drawn, and recorded as no change.
LEMMA ExpandFinished ==
  ASSUME DiagramAll, NEW results, Diagram!FinishExpand(results),
         results = <<Diagram!Thing(Found)>> \/ results = <<>>
  PROVE  Edited(s1, s2, s3, s4, s7, s9)'
<1> DEFINE k == IF s5 = "shown" THEN s2 ELSE s6
           m == Diagram!AddEntities(s1, results)
           c == Diagram!NoChanges
           r == Diagram!Generate(k, m)
           ids == Diagram!Held(results)
           N == Nameable(s2, s7)
           used == s9 \/ s5 = "detached"
<1>1. /\ Diagram!Record(m, r, c) /\ s5 # "no"
      /\ s7' = s7 \cup ids /\ s9' = used
  BY DEF Diagram!FinishExpand, Diagram!Held
<1>2. results \in Seq(Diagram!Entity) /\ ids \subseteq DiagramThings
  <2> DEFINE one == <<Diagram!Thing(Found)>>
             S == Seq(Diagram!Entity)
  <2>1. Found \in DiagramThings
    BY DiagramAssumption
  <2>2. one \in S /\ Diagram!Held(one) = {Found}
    BY <2>1, ThingIs DEF Holds
  <2>3. <<>> \in S /\ Diagram!Held(<<>>) = {}
    BY HeldNone DEF Holds
  <2>4. results = one \/ results = <<>>
    OBVIOUS
  <2> HIDE DEF one, S
  <2>5. results \in S /\ Diagram!Held(results) \subseteq DiagramThings
    BY <2>1, <2>2, <2>3, <2>4
  <2> QED
    BY <2>5 DEF S
<1>3. /\ s1 \in Seq(Diagram!Entity) /\ s7 \subseteq DiagramThings
      /\ LayoutFits(s2, Diagram!Held(s1), s7, s9)
      /\ DOMAIN s2 = DOMAIN Diagram!NewLayout /\ (~s9 => GroupsIn(s2.groupings, N))
  BY DiagramFits, DiagramFacts
<1>4. Expanding(s5, s6)
  BY DEF DiagramAll
<1>5. DOMAIN k = DOMAIN Diagram!NewLayout /\ (s5 = "shown" => k = s2)
  BY <1>3, <1>4 DEF Expanding
<1>6. m \in Seq(Diagram!Entity) /\ Diagram!Held(m) = Diagram!Held(s1) \cup ids
  BY <1>2, <1>3, EntitiesAdded DEF Holds
<1>7. c \in Diagram!Changes /\ Leads(s1, c, s1, s7 \cup ids)
  BY NothingChanged
<1> HIDE DEF k, m, c, ids
<1>8. Drawn(r, Diagram!Held(m), k.groupings)
  BY <1>5, <1>6, Generated
<1> HIDE DEF r
<1> DEFINE v == s7 \cup ids
<1>9. Leads(s1, c, m, v)
  BY <1>6, <1>7 DEF Leads
<1>10. (Diagram!Held(s1) \cap DiagramThings) \ {} \subseteq Diagram!Held(m)
  BY <1>6
<1>11. ~used => GroupsIn(k.groupings, N \ {})
  <2>1. GroupsIn(k.groupings, N) => GroupsIn(k.groupings, N \ {})
    BY DEF GroupsIn
  <2> HIDE DEF N
  <2> QED
    BY <1>1, <1>3, <1>4, <1>5, <2>1 DEF Expanding
<1>12. s7' = v /\ s7 \subseteq v /\ v \subseteq DiagramThings
  BY <1>1, <1>2, <1>3
<1> HIDE DEF v, used
<1>13. LayoutFits(r, Diagram!Held(m), v, used)
  <2>1. (~used) => GroupsIn(k.groupings, Nameable(s2, s7) \ {})
    BY <1>11
  <2> QED
    BY <1>3, <1>8, <1>10, <1>12, <2>1, GeneratedFits
<1>14. Later(s7, s9, s7', s9')
  BY <1>1, <1>12 DEF Later, used
<1>15. /\ LayoutFits(r, Diagram!Held(m), s7', s9') /\ Leads(s1, c, m, s7')
       /\ s7' \subseteq DiagramThings
  BY <1>1, <1>9, <1>12, <1>13
<1> QED
  BY <1>1, <1>6, <1>7, <1>14, <1>15, Recording

\* So does each way to regroup.
LEMMA Regrouping ==
  ASSUME DiagramAll, NEW vs, vs \subseteq s2.vertices, Diagram!Regroup(vs)
  PROVE  Edited(s1, s2, s3, s4, s7, s9)'
<1>1. DOMAIN s2 = DOMAIN Diagram!NewLayout
  BY DiagramFacts
<1>2. s7' = s7 /\ s9' = s9
  BY DEF Diagram!Regroup
<1>3. PICK r : Regrouped(s2, r, vs) /\ Diagram!Record(s1, r, Diagram!NoChanges)
  <2>1. /\ Regrouped(s2, Diagram!AddGrouping(s2, vs), vs)
        /\ Regrouped(s2, Diagram!KeepGroupings(s2,
             {g \in DOMAIN s2.groupings : ~Diagram!IsGroupingSelected(s2, g, vs)}), vs)
        /\ \A targets : Regrouped(s2, Diagram!DropInto(s2, vs, targets), vs)
        /\ \A v : \A g \in DOMAIN s2.groupings :
              Regrouped(s2, [s2 EXCEPT !.groupings[g] = @ \ {v}], vs)
    BY <1>1, LayoutRegrouped
  <2> QED
    BY <2>1 DEF Diagram!Regroup
<1> QED
  BY <1>2, <1>3, EditRegrouped

\* Undo and redo.
LEMMA Navigated ==
  ASSUME DiagramAll, NEW factor \in {-1, 1}, Diagram!NavigateHistory(factor)
  PROVE  Edited(s1, s2, s3, s4, s7, s9)'
<1> DEFINE c == Diagram!ChangesOf(factor)
           m == Diagram!ApplyEntityChanges(s1, c, factor)
           q == s4 + factor
           r == s3[q].layout
<1>1. /\ q \in DOMAIN s3 /\ s1' = m /\ s4' = q /\ s2' = r
      /\ s3' = s3 /\ s7' = s7 /\ s9' = s9
  BY DEF Diagram!NavigateHistory, Diagram!CanGoTo
<1>2. /\ s1 \in Seq(Diagram!Entity) /\ HistoryFits(s3, s7, s9) /\ s7 \subseteq DiagramThings
      /\ s4 \in DOMAIN s3 /\ Agrees(s1, s3[s4].held, s7)
  BY DEF DiagramAll, Edited
<1>3. Len(s3) \in Nat /\ DOMAIN s3 = 1..Len(s3)
  BY <1>2, HistoryList
<1>4. \A k \in DOMAIN s3 : s3[k].changes \in Diagram!Changes
  BY <1>2 DEF HistoryFits, EntryFits
<1>5. \A k \in 2..Len(s3) :
        StepFits(s3[k - 1].held, s3[k].changes, s3[k].held, s7)
  BY <1>2 DEF HistoryFits
<1> DEFINE from == s3[s4].held
           to == s3[q].held
<1>6. m \in Seq(Diagram!Entity) /\ Agrees(m, to, s7)
  <2>1. CASE factor = -1
    <3>1. /\ s4 \in 2..Len(s3) /\ q = s4 - 1 /\ c = s3[s4].changes
      BY <1>1, <1>2, <1>3, <2>1 DEF Diagram!ChangesOf
    <3>2. StepFits(to, c, from, s7) /\ c \in Diagram!Changes /\ Agrees(s1, from, s7)
      BY <1>2, <1>4, <1>5, <3>1
    <3> HIDE DEF c, from, to
    <3> QED
      BY <1>2, <2>1, <3>2, ChangesUndone
  <2>2. CASE factor = 1
    <3>1. /\ q \in 2..Len(s3) /\ q - 1 = s4 /\ c = s3[q].changes
      BY <1>1, <1>2, <1>3, <2>2 DEF Diagram!ChangesOf
    <3>2. StepFits(from, c, to, s7) /\ c \in Diagram!Changes /\ Agrees(s1, from, s7)
      <4> HIDE DEF q, c
      <4> QED
        BY <1>1, <1>2, <1>4, <1>5, <3>1
    <3> HIDE DEF c, from, to
    <3> QED
      BY <1>2, <2>2, <3>2, ChangesRedone
  <2> QED
    BY <2>1, <2>2
<1> HIDE DEF m, q, c
<1>7. Edited(m, r, s3, q, s7, s9)
  BY <1>1, <1>2, <1>6 DEF Edited
<1> HIDE DEF r
<1>8. Edited(s1', s2', s3', s4', s7', s9')
  BY <1>1, <1>7
<1> QED
  BY <1>8 DEF Edited, HistoryFits, EntryFits, LayoutFits, StepFits, Agrees, Nameable,
    GroupsIn, IsList, ValuesOf, Diagram!Shows, Diagram!Connects, Diagram!ThingsIn,
    Diagram!Held, Diagram!IsLayout

\* Every step preserves the invariant.
LEMMA DiagramStep == Diagram!Inv /\ Diagram!Next => Diagram!Inv'
<1> SUFFICES ASSUME DiagramAll, Diagram!Next PROVE DiagramAll'
  <2>1. Diagram!Inv' <=> DiagramAll'
    BY DiagramParts, PTL
  <2> QED
    BY <2>1, DiagramParts
<1>1. /\ DOMAIN s2 = DOMAIN Diagram!NewLayout /\ Expanding(s5, s6)
      /\ \A vs \in Diagram!Selections : vs \subseteq s2.vertices
  <2>1. \A vs \in Diagram!Selections : vs \subseteq s2.vertices
    BY DEF Diagram!Selections, Diagram!VisibleVertices
  <2> QED
    BY <2>1, DiagramFacts DEF DiagramAll
<1>2. ASSUME Edited(s1, s2, s3, s4, s7, s9)', s5' = s5, s6' = s6 PROVE DiagramAll'
  BY <1>1, <1>2 DEF DiagramAll, Expanding
<1>3. CASE Diagram!CreateVertex
  <2>1. Diagram!Thing(Found) \in Diagram!Entity /\ Diagram!Thing(Found).id = Found
    BY ThingIs, DiagramAssumption
  <2>2. s5' = s5 /\ s6' = s6 /\ s7' = s7 /\ s9' = s9
    BY <1>3 DEF Diagram!CreateVertex
  <2>3. Edited(s1, s2, s3, s4, s7, s9)'
    BY <1>3, <2>1, <2>2, EntityCreated DEF Diagram!CreateVertex
  <2> QED
    BY <1>2, <2>2, <2>3
<1>4. CASE Diagram!CreateLink
  <2>1. LET e == [Diagram!Thing(Link) EXCEPT !.ids = {Source, Target}]
        IN e \in Diagram!Entity /\ e.id = Link
    BY LinkIs
  <2>2. s5' = s5 /\ s6' = s6 /\ s7' = s7 /\ s9' = s9
    BY <1>4 DEF Diagram!CreateLink
  <2>3. Edited(s1, s2, s3, s4, s7, s9)'
    BY <1>4, <2>1, <2>2, EntityCreated DEF Diagram!CreateLink
  <2> QED
    BY <1>2, <2>2, <2>3
<1>5. CASE Diagram!EditSource
  <2>1. s5' = s5 /\ s6' = s6
    BY <1>5 DEF Diagram!EditSource
  <2>2. Edited(s1, s2, s3, s4, s7, s9)'
    BY <1>5, SourceEdited
  <2> QED
    BY <1>2, <2>1, <2>2
<1>6. CASE Diagram!Restyle
  <2>1. /\ s5' = s5 /\ s6' = s6 /\ s7' = s7 /\ s9' = s9
        /\ Diagram!Record(s1, s2, Diagram!NoChanges)
    BY <1>6 DEF Diagram!Restyle
  <2>2. {} \subseteq s2.vertices
    OBVIOUS
  <2>3. Edited(s1, s2, s3, s4, s7, s9)'
    BY <2>1, <2>2, EditRegrouped
  <2> QED
    BY <1>2, <2>1, <2>3
<1>7. ASSUME NEW vs \in Diagram!Selections, NEW es \in {{}, s2.edges},
             Diagram!RemoveSelection(vs, es)
      PROVE  DiagramAll'
  <2>1. s5' = s5 /\ s6' = s6
    BY <1>7 DEF Diagram!RemoveSelection
  <2>2. es = {} \/ es = s2.edges
    OBVIOUS
  <2>3. Edited(s1, s2, s3, s4, s7, s9)'
    BY <1>7, <2>2, SelectionRemoved
  <2> QED
    BY <1>2, <2>1, <2>3
<1>8. ASSUME NEW vs \in Diagram!Selections, Diagram!Regroup(vs) PROVE DiagramAll'
  <2>1. s5' = s5 /\ s6' = s6
    BY <1>8 DEF Diagram!Regroup
  <2>2. vs \subseteq s2.vertices
    BY <1>1
  <2>3. Edited(s1, s2, s3, s4, s7, s9)'
    BY <1>8, <2>2, Regrouping
  <2> QED
    BY <1>2, <2>1, <2>3
<1>9. ASSUME NEW types, Diagram!ChangeSettings(types) PROVE DiagramAll'
  <2>1. s5' = s5 /\ s6' = s6
    BY <1>9 DEF Diagram!ChangeSettings
  <2>2. Edited(s1, s2, s3, s4, s7, s9)'
    BY <1>9, SettingsChanged
  <2> QED
    BY <1>2, <2>1, <2>2
<1>10. CASE Diagram!StartExpand
  <2>1. /\ s5' = "shown" /\ s6' = s2
        /\ s1' = s1 /\ s2' = s2 /\ s3' = s3 /\ s4' = s4 /\ s7' = s7 /\ s9' = s9
    BY <1>10 DEF Diagram!StartExpand
  <2>2. Expanding(s5', s6')
    BY <1>1, <2>1 DEF Expanding
  <2>3. Edited(s1', s2', s3', s4', s7', s9')
    BY <2>1 DEF DiagramAll
  <2> QED
    BY <2>2, <2>3 DEF DiagramAll, Expanding, Edited, HistoryFits, EntryFits, LayoutFits,
      StepFits, Agrees, Nameable, GroupsIn, IsList, ValuesOf, Diagram!Shows,
      Diagram!Connects, Diagram!ThingsIn, Diagram!Held, Diagram!IsLayout
<1>11. ASSUME NEW results \in {<<Diagram!Thing(Found)>>, <<>>}, Diagram!FinishExpand(results)
       PROVE  DiagramAll'
  <2>1. results = <<Diagram!Thing(Found)>> \/ results = <<>>
    OBVIOUS
  <2>2. Edited(s1, s2, s3, s4, s7, s9)'
    BY <1>11, <2>1, ExpandFinished
  <2>3. s5' = "no" /\ s6' = s2'
    BY <1>11 DEF Diagram!FinishExpand
  <2>4. DOMAIN (s2') = DOMAIN Diagram!NewLayout
    <3> DEFINE k == IF s5 = "shown" THEN s2 ELSE s6
               m == Diagram!AddEntities(s1, results)
    <3>1. s2' = Diagram!Generate(k, m)
      BY <1>11 DEF Diagram!FinishExpand, Diagram!Record
    <3>2. DOMAIN k = DOMAIN Diagram!NewLayout
      BY <1>1 DEF Expanding
    <3> HIDE DEF k, m
    <3> QED
      BY <3>1, <3>2 DEF Diagram!Generate
  <2>5. Expanding(s5, s6)'
    BY <2>3, <2>4 DEF Expanding
  <2> QED
    BY <2>2, <2>5 DEF DiagramAll
<1>12. ASSUME NEW factor \in {-1, 1}, Diagram!NavigateHistory(factor) PROVE DiagramAll'
  <2>1. Edited(s1, s2, s3, s4, s7, s9)'
    BY <1>12, Navigated
  <2>2. /\ s5' = IF s5 = "no" THEN "no" ELSE "detached"
        /\ s6' = CASE s5 = "no" -> s2' [] s5 = "shown" -> s2 [] s5 = "detached" -> s6
        /\ s2' = s3[s4 + factor].layout /\ s4 + factor \in DOMAIN s3
    BY <1>12 DEF Diagram!NavigateHistory, Diagram!CanGoTo
  <2>3. DOMAIN (s2') = DOMAIN Diagram!NewLayout
    <3>1. HistoryFits(s3, s7, s9)
      BY DEF DiagramAll, Edited
    <3> DEFINE q == s4 + factor
    <3>2. s2' = s3[q].layout /\ q \in DOMAIN s3
      BY <2>2
    <3> HIDE DEF q
    <3> QED
      BY <3>1, <3>2 DEF HistoryFits, EntryFits, LayoutFits, Diagram!IsLayout
  <2>4. s6' \in {s2', s2, s6}
    BY <1>1, <2>2 DEF Expanding
  <2>5. Expanding(s5, s6)'
    BY <1>1, <2>2, <2>3, <2>4 DEF Expanding
  <2> QED
    BY <2>1, <2>5 DEF DiagramAll
<1>13. Diagram!NavigateHistory(-1) \/ Diagram!NavigateHistory(1) => DiagramAll'
  BY <1>12
<1> QED
  BY <1>3, <1>4, <1>5, <1>6, <1>7, <1>8, <1>9, <1>10, <1>11, <1>13 DEF Diagram!Next

\* It depends on nothing but the variables.
LEMMA DiagramStays == Diagram!Inv /\ UNCHANGED vars => Diagram!Inv'
<1> SUFFICES ASSUME DiagramAll, UNCHANGED vars PROVE DiagramAll'
  <2>1. Diagram!Inv' <=> DiagramAll'
    BY DiagramParts, PTL
  <2> QED
    BY <2>1, DiagramParts
<1>1. /\ s1' = s1 /\ s2' = s2 /\ s3' = s3 /\ s4' = s4 /\ s5' = s5 /\ s6' = s6
      /\ s7' = s7 /\ s9' = s9
  BY DEF vars
<1>2. Edited(s1', s2', s3', s4', s7', s9') /\ Expanding(s5', s6')
  BY <1>1 DEF DiagramAll
<1> QED
  BY <1>2 DEF DiagramAll, Expanding, Edited, HistoryFits, EntryFits, LayoutFits,
    StepFits, Agrees, Nameable, GroupsIn, IsList, ValuesOf, Diagram!Shows,
    Diagram!Connects, Diagram!ThingsIn, Diagram!Held, Diagram!IsLayout

\* It holds when the diagram opens.
LEMMA DiagramInit == Diagram!Init => Diagram!Inv
<1> SUFFICES ASSUME Diagram!Init PROVE DiagramAll
  BY DiagramParts
<1> PICK stored \in SUBSET DiagramThings :
      s2 = Diagram!Generate([Diagram!NewLayout EXCEPT !.vertices = stored], s1)
  BY DEF Diagram!Init
<1> DEFINE k == [Diagram!NewLayout EXCEPT !.vertices = stored]
           r == Diagram!Generate(k, s1)
           c == Diagram!NoChanges
           H == Diagram!Held(s1)
           e == [layout |-> r, changes |-> c, held |-> H]
<1>1. /\ s1 \in InSets /\ s2 = r
      /\ s3 = <<[layout |-> s2, changes |-> c, held |-> H]>> /\ s4 = 1
      /\ s5 = "no" /\ s6 = s2 /\ s7 = {} /\ s9 = FALSE
  BY DEF Diagram!Init, Diagram!NewHistory
<1>2. s1 \in Seq(Diagram!Entity)
  <2>1. s1 \in Seq({s1[i] : i \in DOMAIN s1})
    BY <1>1, DiagramAssumption
  <2>2. \A i \in DOMAIN s1 :
          s1[i] \in [id : DiagramThings \cup {Link}, ids : SUBSET DiagramThings,
                     objects : SUBSET DiagramThings]
    BY <1>1, DiagramAssumption
  <2>3. ASSUME NEW i \in DOMAIN s1, s1[i].id = Link
        PROVE  s1[i].objects \subseteq Diagram!Embedded
    BY <1>1, <2>3 DEF Diagram!Embedded
  <2>4. \A i \in DOMAIN s1 : s1[i] \in Diagram!Entity
    BY <2>2, <2>3 DEF Diagram!Entity, Diagram!Ids
  <2> DEFINE S == {s1[i] : i \in DOMAIN s1}
  <2>5. S \subseteq Diagram!Entity
    BY <2>4
  <2> HIDE DEF S
  <2> QED
    BY <2>1, <2>5 DEF S
<1>3. c \in Diagram!Changes
  BY NothingChanged
<1>4. DOMAIN k = DOMAIN Diagram!NewLayout /\ k.groupings = [g \in {} |-> {}]
  BY DEF Diagram!NewLayout
<1> HIDE DEF k
<1>5. Drawn(r, H, k.groupings) /\ r.groupings = k.groupings
  BY <1>2, <1>4, Generated DEF Drawn
<1> HIDE DEF r, c
<1>6. GroupsIn(r.groupings, Nameable(r, {}))
  BY <1>4, <1>5 DEF GroupsIn
<1>7. LayoutFits(r, H, {}, s9)
  <2> HIDE DEF H
  <2> QED
    BY <1>5, <1>6 DEF LayoutFits, Drawn
<1>8. Agrees(s1, H, {})
  BY DEF Agrees
<1> HIDE DEF H
<1>9. /\ e.layout = r /\ e.changes = c /\ e.held = H
      /\ e = [layout |-> e.layout, changes |-> e.changes, held |-> e.held]
  OBVIOUS
<1>10. s3 = <<e>>
  BY <1>1
<1> HIDE DEF e
<1>11. EntryFits(e, s7, s9)
  BY <1>1, <1>3, <1>7, <1>9 DEF EntryFits
<1>12. IsList(s3) /\ DOMAIN s3 = {1} /\ Len(s3) = 1 /\ s3[1] = e
  <2>1. <<e>> \in Seq({e}) /\ DOMAIN <<e>> = {1} /\ Len(<<e>>) = 1 /\ <<e>>[1] = e
    OBVIOUS
  <2> QED
    BY <1>10, <2>1, SeqIsList
<1>13. HistoryFits(s3, s7, s9)
  <2>1. 2..Len(s3) = {}
    BY <1>12
  <2> QED
    BY <1>11, <1>12, <2>1 DEF HistoryFits
<1>14. Edited(s1, s2, s3, s4, s7, s9)
  BY <1>1, <1>2, <1>8, <1>9, <1>12, <1>13 DEF Edited
<1>15. Expanding(s5, s6)
  BY <1>1, <1>5 DEF Expanding, Drawn, Diagram!IsLayout
<1> QED
  BY <1>14, <1>15 DEF DiagramAll

-----------------------------------------------------------------------------
(* The timeline: UiTimeline                                                 *)

\* What a quotient and a remainder are.
LEMMA Division ==
  ASSUME NEW n \in Int, NEW d \in Nat \ {0}
  PROVE  /\ n \div d \in Int /\ n % d \in 0..(d - 1)
         /\ n = d * (n \div d) + (n % d)
OBVIOUS

\* The quotient of a greater number is no less.
LEMMA DivisionGrows ==
  ASSUME NEW a \in Int, NEW b \in Int, a <= b, NEW d \in Nat \ {0}
  PROVE  a \div d <= b \div d
<1> DEFINE q == a \div d
           r == b \div d
<1>1. /\ q \in Int /\ a % d \in 0..(d - 1) /\ a = d * q + (a % d)
      /\ r \in Int /\ b % d \in 0..(d - 1) /\ b = d * r + (b % d)
  BY Division
<1> HIDE DEF q, r
<1>2. d * q < d * (r + 1)
  BY <1>1
<1>3. ASSUME r + 1 <= q PROVE FALSE
  <2>1. d * (r + 1) <= d * q
    BY <1>1, <1>3
  <2> QED
    BY <1>1, <1>2, <2>1
<1>4. q <= r
  BY <1>1, <1>3
<1> QED
  BY <1>4 DEF q, r

\* The quotient and the remainder of a number that is made of them.
LEMMA Quotient ==
  ASSUME NEW d \in Nat \ {0}, NEW q \in Int, NEW r \in 0..(d - 1)
  PROVE  (q * d + r) \div d = q /\ (q * d + r) % d = r
<1> DEFINE n == q * d + r
           p == n \div d
           s == n % d
<1>1. n \in Int
  OBVIOUS
<1>2. p \in Int /\ s \in 0..(d - 1) /\ n = d * p + s
  BY <1>1, Division
<1>3. d * q + r = d * p + s
  BY <1>2
<1> HIDE DEF n, p, s
<1>4. ASSUME p + 1 <= q PROVE FALSE
  <2>1. d * (p + 1) <= d * q
    BY <1>2, <1>4
  <2> QED
    BY <1>2, <1>3, <2>1
<1>5. ASSUME q + 1 <= p PROVE FALSE
  <2>1. d * (q + 1) <= d * p
    BY <1>2, <1>5
  <2> QED
    BY <1>2, <1>3, <2>1
<1>6. p = q
  BY <1>2, <1>4, <1>5
<1>7. s = r
  BY <1>2, <1>3, <1>6
<1> QED
  BY <1>6, <1>7 DEF n, p, s

M == Timeline!Months
Y == Timeline!YearDays

\* What the assumption says of a year: its months begin one after the other.
LEMMA YearIs ==
  /\ M \in Nat \ {0} /\ Y \in Nat \ {0} /\ MonthStarts[1] = 0
  /\ \A m \in 1..(M + 1) : MonthStarts[m] \in 0..Y
  /\ \A m, n \in 1..(M + 1) : m <= n => MonthStarts[m] <= MonthStarts[n]
  /\ MonthStarts[M + 1] = Y
<1>1. /\ MonthStarts \in Seq(Nat) /\ M \in Nat \ {0} /\ M = Len(MonthStarts) - 1
      /\ MonthStarts[1] = 0
      /\ \A m, n \in 1..(M + 1) : m < n => MonthStarts[m] < MonthStarts[n]
  BY TimelineAssumption DEF M, Timeline!Months
<1>2. \A m \in 1..(M + 1) : MonthStarts[m] \in Nat
  BY <1>1
<1>3. MonthStarts[M + 1] = Y
  BY DEF Y, Timeline!YearDays, M
<1>4. \A m, n \in 1..(M + 1) : m <= n => MonthStarts[m] <= MonthStarts[n]
  BY <1>1, <1>2
<1>5. 1 \in 1..(M + 1) /\ M + 1 \in 1..(M + 1) /\ 1 < M + 1
  BY <1>1
<1>6. Y \in Nat \ {0}
  BY <1>1, <1>2, <1>3, <1>5
<1>7. \A m \in 1..(M + 1) : MonthStarts[m] \in 0..Y
  BY <1>1, <1>2, <1>3, <1>4, <1>5
<1> QED
  BY <1>1, <1>3, <1>4, <1>6, <1>7

\* Every day of the year lies in a month.
LEMMA MonthFound ==
  ASSUME NEW d \in 0..(Y - 1)
  PROVE  \E m \in 0..(M - 1) : MonthStarts[m + 1] <= d /\ d < MonthStarts[m + 2]
<1> DEFINE P == {m \in 0..(M - 1) : d < MonthStarts[m + 2]}
<1>1. P \in SUBSET Nat /\ IsFiniteSet(P)
  <2>1. IsFiniteSet(0..(M - 1))
    BY YearIs, FS_Interval
  <2>2. P \in SUBSET (0..(M - 1)) /\ 0..(M - 1) \subseteq Nat
    OBVIOUS
  <2> HIDE DEF P
  <2>3. IsFiniteSet(P)
    BY <2>1, <2>2, FS_Subset
  <2> QED
    BY <2>2, <2>3
<1>2. M - 1 \in P
  <2>1. M - 1 \in 0..(M - 1) /\ (M - 1) + 2 = M + 1
    BY YearIs
  <2>2. d < Y /\ MonthStarts[M + 1] = Y
    BY YearIs
  <2> QED
    BY <2>1, <2>2
<1>3. \A m : m \in P <=> m \in 0..(M - 1) /\ d < MonthStarts[m + 2]
  OBVIOUS
<1> HIDE DEF P
<1>4. PICK m \in P : \A j \in P : m <= j
  BY <1>1, <1>2, LeastNumber
<1>5. m \in 0..(M - 1) /\ d < MonthStarts[m + 2]
  BY <1>3, <1>4
<1>6. MonthStarts[m + 1] <= d
  <2>1. CASE m = 0
    BY <2>1, YearIs
  <2>2. CASE m # 0
    <3>1. m - 1 \in 0..(M - 1) /\ (m - 1) + 2 = m + 1 /\ m + 1 \in 1..(M + 1) /\ ~(m <= m - 1)
      BY <1>5, <2>2, YearIs
    <3>2. m - 1 \notin P
      BY <1>4, <3>1
    <3>3. ~(d < MonthStarts[m + 1])
      BY <1>3, <3>1, <3>2
    <3>4. MonthStarts[m + 1] \in 0..Y /\ d \in Int
      BY <3>1, YearIs
    <3> QED
      BY <3>3, <3>4
  <2> QED
    BY <2>1, <2>2
<1> QED
  BY <1>5, <1>6

\* The start of the m-th month of year q.
LEMMA MonthStartIs ==
  ASSUME NEW q \in Int, NEW m \in 0..(M - 1)
  PROVE  /\ q * M + m \in Int
         /\ Timeline!MonthStart(q * M + m) = q * Y + MonthStarts[m + 1]
<1>1. (q * M + m) \div M = q /\ (q * M + m) % M = m
  BY YearIs, Quotient
<1>2. q * M + m \in Int
  BY YearIs
<1> QED
  BY <1>1, <1>2 DEF Timeline!MonthStart, M, Y

\* A month is a year and a month of it.
LEMMA MonthParts ==
  ASSUME NEW n \in Int
  PROVE  \E q \in Int : \E m \in 0..(M - 1) :
           n = q * M + m /\ q = n \div M
<1>1. n \div M \in Int /\ n % M \in 0..(M - 1) /\ n = M * (n \div M) + (n % M)
  BY YearIs, Division
<1> DEFINE q == n \div M
           m == n % M
<1> HIDE DEF q, m
<1>2. q \in Int /\ m \in 0..(M - 1) /\ n = M * q + m
  BY <1>1 DEF q, m
<1>3. n = q * M + m
  BY <1>2, YearIs
<1> QED
  BY <1>2, <1>3 DEF q

\* Of two months the later begins later.
LEMMA MonthStartGrows ==
  ASSUME NEW a \in Int, NEW b \in Int, a <= b
  PROVE  /\ Timeline!MonthStart(a) \in Int /\ Timeline!MonthStart(b) \in Int
         /\ Timeline!MonthStart(a) <= Timeline!MonthStart(b)
<1>1. PICK q \in Int : \E m \in 0..(M - 1) : a = q * M + m /\ q = a \div M
  BY MonthParts
<1>2. PICK m \in 0..(M - 1) : a = q * M + m /\ q = a \div M
  BY <1>1
<1>3. PICK p \in Int : \E n \in 0..(M - 1) : b = p * M + n /\ p = b \div M
  BY MonthParts
<1>4. PICK n \in 0..(M - 1) : b = p * M + n /\ p = b \div M
  BY <1>3
<1>5. q <= p
  BY <1>2, <1>4, YearIs, DivisionGrows
<1> DEFINE s == MonthStarts[m + 1]
           t == MonthStarts[n + 1]
           A == Timeline!MonthStart(a)
           B == Timeline!MonthStart(b)
<1>6. A = q * Y + s /\ B = p * Y + t
  BY <1>2, <1>4, MonthStartIs
<1>7. /\ M \in Nat \ {0} /\ Y \in Nat \ {0}
      /\ s \in 0..Y /\ t \in 0..Y /\ (m <= n => s <= t)
  <2>1. m + 1 \in 1..(M + 1) /\ n + 1 \in 1..(M + 1) /\ M \in Nat \ {0}
    BY YearIs
  <2>2. m <= n => m + 1 <= n + 1
    OBVIOUS
  <2> QED
    BY <2>1, <2>2, YearIs
<1> HIDE DEF s, t, A, B
<1>8. A \in Int /\ B \in Int
  BY <1>6, <1>7
<1>9. CASE q = p
  <2>1. m <= n
    BY <1>2, <1>4, <1>7, <1>9
  <2> QED
    BY <1>6, <1>7, <1>8, <1>9, <2>1 DEF A, B
<1>10. CASE q + 1 <= p
  <2>1. (q + 1) * Y <= p * Y
    BY <1>7, <1>10
  <2>2. A <= B
    BY <1>6, <1>7, <2>1
  <2> QED
    BY <1>8, <2>2 DEF A, B
<1> QED
  BY <1>5, <1>9, <1>10

\* The month of a day is the one it lies in.
LEMMA MonthOfIs ==
  ASSUME NEW day \in Int
  PROVE  /\ Timeline!MonthOf(day) \in Int
         /\ Timeline!MonthStart(Timeline!MonthOf(day)) <= day
         /\ day < Timeline!MonthStart(Timeline!MonthOf(day) + 1)
<1> DEFINE q == day \div Y
           d == day % Y
           m == CHOOSE x \in 0..(M - 1) : MonthStarts[x + 1] <= d /\ d < MonthStarts[x + 2]
           k == Timeline!MonthOf(day)
<1>1. q \in Int /\ d \in 0..(Y - 1) /\ day = Y * q + d
  BY YearIs, Division
<1>2. k = q * M + m
  BY DEF Timeline!MonthOf, M, Y
<1> HIDE DEF q, d
<1>3. m \in 0..(M - 1) /\ MonthStarts[m + 1] <= d /\ d < MonthStarts[m + 2]
  BY <1>1, MonthFound
<1> HIDE DEF m, k
<1>4. M \in Nat \ {0} /\ Y \in Nat \ {0} /\ MonthStarts[1] = 0 /\ MonthStarts[M + 1] = Y
  BY YearIs
<1>5. k \in Int /\ Timeline!MonthStart(k) = q * Y + MonthStarts[m + 1]
  BY <1>1, <1>2, <1>3, MonthStartIs
<1> DEFINE s == MonthStarts[m + 1]
           t == MonthStarts[m + 2]
<1>6. s \in Int /\ t \in Int /\ s <= d /\ d < t
  <2>1. m + 1 \in 1..(M + 1) /\ m + 2 \in 1..(M + 1)
    BY <1>3, <1>4
  <2> QED
    BY <1>3, <2>1, YearIs
<1>7. Timeline!MonthStart(k + 1) = q * Y + t
  <2>1. CASE m + 1 \in 0..(M - 1)
    <3> DEFINE n == m + 1
    <3>1. n \in 0..(M - 1) /\ k + 1 = q * M + n /\ n + 1 = m + 2
      BY <1>1, <1>2, <1>3, <1>4, <2>1
    <3> HIDE DEF n
    <3> QED
      BY <1>1, <3>1, MonthStartIs
  <2>2. CASE m + 1 = M
    <3> DEFINE p == q + 1
    <3>1. p \in Int /\ 0 \in 0..(M - 1) /\ k + 1 = p * M + 0
      BY <1>1, <1>2, <1>3, <1>4, <2>2
    <3>2. p * Y = q * Y + Y /\ m + 2 = M + 1
      BY <1>1, <1>3, <1>4, <2>2
    <3> HIDE DEF p
    <3>3. Timeline!MonthStart(p * M + 0) = p * Y + MonthStarts[0 + 1]
      BY <3>1, MonthStartIs
    <3>4. p * Y + MonthStarts[0 + 1] = p * Y
      BY <1>4, <3>1
    <3> QED
      BY <1>4, <3>1, <3>2, <3>3, <3>4
  <2> QED
    BY <1>3, <1>4, <2>1, <2>2
<1>8. q * Y + d = day
  BY <1>1, <1>4
<1> HIDE DEF s, t
<1>9. q * Y + s <= day /\ day < q * Y + t
  BY <1>1, <1>4, <1>6, <1>8
<1> QED
  BY <1>5, <1>7, <1>9 DEF k, s, t

\* The values of a function on a finite set are finitely many.
LEMMA ImageFinite ==
  ASSUME NEW S, IsFiniteSet(S), NEW f
  PROVE  IsFiniteSet({f[x] : x \in S})
<1> DEFINE T == {f[x] : x \in S}
           g == [x \in S |-> f[x]]
<1>1. g \in Surjection(S, T)
  BY DEF Surjection
<1> HIDE DEF g
<1> QED
  BY <1>1, FS_Surjection

\* A finite set of integers has a least and a greatest member.
LEMMA LeastInteger ==
  ASSUME NEW P \in SUBSET Int, IsFiniteSet(P), P # {}
  PROVE  \E x \in P : \A y \in P : x <= y
<1> DEFINE below(x) == {y \in P : y < x}
           f == [x \in P |-> Cardinality(below(x))]
           R == {f[x] : x \in P}
<1>1. \A x \in P : below(x) \in SUBSET P /\ x \notin below(x)
  OBVIOUS
<1>2. ASSUME NEW x \in P, NEW y \in P, y < x
      PROVE  below(y) \in SUBSET below(x) /\ y \in below(x)
  <2>1. \A z \in below(y) : z \in P /\ z < x
    <3> SUFFICES ASSUME NEW z \in P, z < y PROVE z < x
      OBVIOUS
    <3>1. x \in Int /\ y \in Int /\ z \in Int
      OBVIOUS
    <3> QED
      BY <1>2, <3>1
  <2> QED
    BY <1>2, <2>1
<1>3. \A x \in P : f[x] = Cardinality(below(x))
  OBVIOUS
<1> HIDE DEF below, f
<1>4. \A x \in P : IsFiniteSet(below(x)) /\ f[x] \in Nat
  BY <1>1, <1>3, FS_Subset, FS_CardinalityType
<1>5. R \in SUBSET Nat /\ R # {}
  BY <1>4
<1>6. IsFiniteSet(R)
  BY ImageFinite
<1>7. \A k : k \in R <=> \E x \in P : k = f[x]
  OBVIOUS
<1> HIDE DEF R
<1>8. PICK k \in R : \A j \in R : k <= j
  BY <1>5, <1>6, LeastNumber
<1>9. PICK x \in P : k = f[x]
  BY <1>7
<1>10. ASSUME NEW y \in P, y < x PROVE FALSE
  <2>1. below(y) \in SUBSET below(x) /\ y \in below(x) /\ y \notin below(y)
    BY <1>1, <1>2, <1>10
  <2>2. IsFiniteSet(below(x))
    BY <1>4
  <2>3. /\ Cardinality(below(y)) <= Cardinality(below(x))
        /\ Cardinality(below(x)) # Cardinality(below(y))
    BY <2>1, <2>2, FS_Subset
  <2>4. f[y] <= f[x] /\ f[x] # f[y] /\ f[x] \in Nat /\ f[y] \in Nat
    BY <1>3, <1>4, <2>3
  <2>5. f[x] <= f[y]
    BY <1>7, <1>8, <1>9
  <2> QED
    BY <2>4, <2>5
<1>11. \A y \in P : x \in Int /\ y \in Int
  OBVIOUS
<1>12. \A y \in P : x <= y
  BY <1>10, <1>11
<1> QED
  BY <1>12

\* The least of a finite set of integers.
LEMMA MinIs ==
  ASSUME NEW P \in SUBSET Int, IsFiniteSet(P), P # {}
  PROVE  /\ Timeline!Min(P) \in Int /\ Timeline!Min(P) \in P
         /\ \A y \in P : Timeline!Min(P) <= y
<1>1. \E x \in P : \A y \in P : x <= y
  BY LeastInteger
<1> DEFINE x == Timeline!Min(P)
<1>2. x \in P /\ \A y \in P : x <= y
  BY <1>1 DEF Timeline!Min
<1> QED
  BY <1>2

\* The greatest of a finite set of integers.
LEMMA MaxIs ==
  ASSUME NEW P \in SUBSET Int, IsFiniteSet(P), P # {}
  PROVE  /\ Timeline!Max(P) \in Int /\ Timeline!Max(P) \in P
         /\ \A y \in P : y <= Timeline!Max(P)
<1> DEFINE f == [x \in P |-> 0 - x]
           R == {f[x] : x \in P}
<1>1. R \in SUBSET Int /\ R # {}
  <2>1. \A x \in P : f[x] \in Int
    OBVIOUS
  <2> HIDE DEF f
  <2> QED
    BY <2>1
<1>2. \A x \in P : f[x] = 0 - x /\ f[x] \in R
  OBVIOUS
<1>3. \A r \in R : \E x \in P : r = 0 - x
  OBVIOUS
<1> HIDE DEF f
<1>4. IsFiniteSet(R)
  BY ImageFinite
<1> HIDE DEF R
<1>5. PICK r \in R : \A q \in R : r <= q
  BY <1>1, <1>4, LeastInteger
<1>6. PICK x \in P : r = 0 - x
  BY <1>3
<1>7. \A y \in P : y <= x
  <2> SUFFICES ASSUME NEW y \in P PROVE y <= x
    OBVIOUS
  <2>1. r <= f[y] /\ f[y] = 0 - y
    BY <1>2, <1>5
  <2>2. x \in Int /\ y \in Int
    OBVIOUS
  <2> QED
    BY <1>6, <2>1, <2>2
<1>8. \E z \in P : \A y \in P : z >= y
  <2>1. \A y \in P : x >= y
    <3> SUFFICES ASSUME NEW y \in P PROVE x >= y
      OBVIOUS
    <3>1. x \in Int /\ y \in Int /\ y <= x
      BY <1>7
    <3> QED
      BY <3>1
  <2> QED
    BY <2>1
<1> DEFINE m == Timeline!Max(P)
<1>9. m \in P /\ \A y \in P : m >= y
  BY <1>8 DEF Timeline!Max
<1>10. m \in Int
  BY <1>9
<1> HIDE DEF m
<1>11. \A y \in P : y <= m
  <2> SUFFICES ASSUME NEW y \in P PROVE y <= m
    OBVIOUS
  <2>1. y \in Int /\ m >= y
    BY <1>9
  <2> QED
    BY <1>10, <2>1
<1> QED
  BY <1>9, <1>10, <1>11 DEF m

Dates == [year : Nat, month : 0..M, day : Nat]
TypedItems(e) == e \in [Items -> [start : Dates, end : Dates]]

\* Every item has dates, also one that is not on the timeline.
LEMMA DatesTyped ==
  ASSUME s2 \in [Items -> Spans \cup {Timeline!Nothing}]
  PROVE  TypedItems(s2)
<1>1. Spans \subseteq [start : Dates, end : Dates]
  BY TimelineAssumption DEF Dates, M, Timeline!Months
<1>2. Timeline!Nothing \in [start : Dates, end : Dates]
  <2>1. M \in Nat \ {0}
    BY YearIs
  <2> QED
    BY <2>1 DEF Dates, Timeline!Nothing, Timeline!NoDate, Timeline!Date
<1> QED
  BY <1>1, <1>2 DEF TypedItems

\* A day is an integer.
LEMMA DayTyped ==
  ASSUME NEW y \in Int, NEW m \in Int, NEW d \in Int
  PROVE  Timeline!Day(y, m, d) \in Int
<1> DEFINE n == y * M + m - 1
<1>1. n \in Int
  BY YearIs
<1> HIDE DEF n
<1>2. Timeline!MonthStart(n) \in Int
  BY <1>1, MonthStartGrows
<1>3. Timeline!Day(y, m, d) = Timeline!MonthStart(n) + d - 1
  BY DEF Timeline!Day, n, M
<1> QED
  BY <1>2, <1>3

\* The first days of the years.
LEMMA YearStarts ==
  ASSUME NEW y \in Int
  PROVE  Timeline!Day(y, 1, 1) = y * Y
<1>1. M \in Nat \ {0} /\ Y \in Nat \ {0} /\ MonthStarts[1] = 0
  BY YearIs
<1> DEFINE s == Timeline!MonthStart(y * M + 0)
<1>2. 0 \in 0..(M - 1) /\ y * M + 0 = y * M + 1 - 1 /\ y * M + 0 \in Int
  BY <1>1
<1>3. s = y * Y + MonthStarts[0 + 1]
  BY <1>2, MonthStartIs
<1>4. Timeline!Day(y, 1, 1) = s + 1 - 1
  BY <1>2 DEF Timeline!Day, M
<1> HIDE DEF s
<1>5. s = y * Y /\ s \in Int
  BY <1>1, <1>3
<1> QED
  BY <1>4, <1>5

\* So are the first and the last day that a date may mean.
LEMMA ExtremesTyped ==
  ASSUME NEW date \in Dates
  PROVE  Timeline!Earliest(date) \in Int /\ Timeline!Latest(date) \in Int
<1>1. /\ M \in Nat \ {0}
      /\ date.year \in Nat /\ date.month \in 0..M /\ date.day \in Nat
  BY YearIs DEF Dates
<1> DEFINE m1 == IF date.month = 0 THEN 1 ELSE date.month
           d1 == IF date.day = 0 THEN 1 ELSE date.day
           m2 == IF date.month = 0 THEN M ELSE date.month
           d2 == IF date.day = 0 THEN Timeline!MonthDays(m2) ELSE date.day
<1>2. m1 \in Int /\ d1 \in Int /\ m2 \in 1..M
  BY <1>1
<1>3. d2 \in Int
  <2> HIDE DEF m2
  <2>1. m2 \in 1..(M + 1) /\ m2 + 1 \in 1..(M + 1)
    BY <1>1, <1>2
  <2>2. MonthStarts[m2] \in Int /\ MonthStarts[m2 + 1] \in Int
    BY <2>1, YearIs
  <2>3. Timeline!MonthDays(m2) \in Int
    BY <2>2 DEF Timeline!MonthDays
  <2> QED
    BY <1>1, <2>3
<1>4. /\ Timeline!Earliest(date) = Timeline!Day(date.year, m1, d1)
      /\ Timeline!Latest(date) = Timeline!Day(date.year, m2, d2)
  BY DEF Timeline!Earliest, Timeline!Latest, M
<1> HIDE DEF m1, d1, m2, d2
<1> DEFINE y == date.year
<1>5. m2 \in Int /\ y \in Int
  BY <1>1, <1>2
<1> HIDE DEF y
<1>6. Timeline!Day(y, m1, d1) \in Int /\ Timeline!Day(y, m2, d2) \in Int
  BY <1>2, <1>3, <1>5, DayTyped
<1> QED
  BY <1>4, <1>6 DEF y

\* So are the ends of a bar.
LEMMA BarsTyped ==
  ASSUME TypedItems(s2), NEW i \in Items
  PROVE  Timeline!EarliestOf(i) \in Int /\ Timeline!LatestOf(i) \in Int
<1>1. s2[i].start \in Dates /\ s2[i].end \in Dates
  BY DEF TypedItems
<1>2. /\ Timeline!Earliest(s2[i].start) \in Int /\ Timeline!Latest(s2[i].start) \in Int
      /\ Timeline!Latest(s2[i].end) \in Int
  BY <1>1, ExtremesTyped
<1> QED
  BY <1>2 DEF Timeline!EarliestOf, Timeline!LatestOf

\* The first and the last date are the bounds of the items' dates.
Bars(S) == {j \in S : Timeline!Valid(s2[j].start) \/ Timeline!Valid(s2[j].end)}

\* The last days of some items are finitely many integers.
LEMMA LastDates ==
  ASSUME TypedItems(s2), NEW S \in SUBSET Items, NEW i \in Bars(S)
  PROVE  /\ Timeline!LatestDates(S) \in SUBSET Int
         /\ IsFiniteSet(Timeline!LatestDates(S))
         /\ Timeline!LatestOf(i) \in Timeline!LatestDates(S)
<1>1. Bars(S) \in SUBSET Items /\ IsFiniteSet(Items)
  BY TimelineAssumption DEF Bars
<1>2. IsFiniteSet(Bars(S))
  BY <1>1, FS_Subset
<1> DEFINE f == [j \in Items |-> Timeline!LatestOf(j)]
<1>3. \A j \in Items : f[j] = Timeline!LatestOf(j) /\ f[j] \in Int
  BY BarsTyped
<1> HIDE DEF f
<1>4. Timeline!LatestDates(S) = {f[j] : j \in Bars(S)}
  BY <1>1, <1>3 DEF Timeline!LatestDates, Bars
<1>5. IsFiniteSet({f[j] : j \in Bars(S)})
  BY <1>2, ImageFinite
<1> QED
  BY <1>1, <1>3, <1>4, <1>5

\* No bar begins before the first date of the chart.
LEMMA FirstDates ==
  ASSUME TypedItems(s2), Timeline!Drawn # {}
  PROVE  /\ Timeline!EarliestDate \in Int
         /\ \A i \in Timeline!Drawn : Timeline!EarliestDate <= Timeline!EarliestOf(i)
<1>1. Timeline!Drawn \in SUBSET Items /\ IsFiniteSet(Items)
  BY TimelineAssumption DEF Timeline!Drawn, Timeline!Present
<1>2. IsFiniteSet(Timeline!Drawn)
  BY <1>1, FS_Subset
<1> DEFINE f == [j \in Items |-> Timeline!EarliestOf(j)]
           P == {f[j] : j \in Timeline!Drawn}
<1>3. \A j \in Items : f[j] = Timeline!EarliestOf(j) /\ f[j] \in Int
  BY BarsTyped
<1> HIDE DEF f
<1>4. Timeline!EarliestDate = Timeline!Min(P)
  <2>1. {Timeline!EarliestOf(i) : i \in Timeline!Drawn} = P
    BY <1>1, <1>3
  <2> QED
    BY <2>1 DEF Timeline!EarliestDate
<1>5. IsFiniteSet(P)
  BY <1>2, ImageFinite
<1>6. P \in SUBSET Int /\ P # {} /\ \A i \in Timeline!Drawn : Timeline!EarliestOf(i) \in P
  BY <1>1, <1>3
<1> HIDE DEF P
<1> QED
  BY <1>4, <1>5, <1>6, MinIs

Zooms == {"days", "months", "years"}

\* The chart has at least one unit of padding on either side.
LEMMA PaddingPositive ==
  ASSUME Timeline!EarliestDate \in Int, Timeline!LatestDate \in Int,
         NEW zoom \in Zooms
  PROVE  Timeline!Padding(zoom) \in Nat \ {0}
<1> DEFINE months == Timeline!Difference(Timeline!EarliestDate, Timeline!LatestDate)
           half == months \div M
           Least(n, diff) == IF n > diff + 1 THEN n - diff ELSE 1
<1>1. ASSUME NEW a \in Int, NEW b \in Int PROVE Timeline!WholeMonths(a, b) \in Int
  <2>1. Timeline!MonthOf(a) \in Int /\ Timeline!MonthOf(b) \in Int
    BY MonthOfIs
  <2> QED
    BY <2>1 DEF Timeline!WholeMonths
<1>2. months \in Int
  BY <1>1 DEF Timeline!Difference
<1>3. half \in Int
  BY <1>2, YearIs, Division
<1>4. /\ zoom = "days" => Timeline!Padding(zoom) = Least(3, months)
      /\ zoom = "months" => Timeline!Padding(zoom) = Least(12, months)
      /\ zoom = "years" => Timeline!Padding(zoom) = Least(3, half)
  BY DEF Timeline!Padding, M
<1> HIDE DEF months, half
<1>5. /\ Least(3, months) \in Nat \ {0} /\ Least(12, months) \in Nat \ {0}
      /\ Least(3, half) \in Nat \ {0}
  BY <1>2, <1>3
<1>6. zoom = "days" \/ zoom = "months" \/ zoom = "years"
  BY DEF Zooms
<1> HIDE DEF Least
<1> QED
  BY <1>4, <1>5, <1>6

\* The chart begins no later than the first date, and ends no earlier than the last.
LEMMA StartsBefore ==
  ASSUME NEW zoom, Timeline!EarliestDate \in Int, Timeline!Padding(zoom) \in Nat \ {0}
  PROVE  /\ Timeline!ChartStart(zoom) \in Int
         /\ Timeline!ChartStart(zoom) <= Timeline!EarliestDate
<1> DEFINE e == Timeline!EarliestDate
           p == Timeline!Padding(zoom)
           q == e \div Y
           k == Timeline!MonthOf(e)
<1>1. e \in Int /\ p \in Nat \ {0} /\ Y \in Nat \ {0}
  BY YearIs
<1>2. /\ zoom = "years" => Timeline!ChartStart(zoom) = Timeline!Day(q - p, 1, 1)
      /\ zoom # "years" => Timeline!ChartStart(zoom) = Timeline!MonthStart(k - p)
  BY DEF Timeline!ChartStart, Y
<1>3. q \in Int /\ e % Y \in 0..(Y - 1) /\ e = Y * q + (e % Y)
  BY <1>1, Division
<1> HIDE DEF e, q
<1>4. k \in Int /\ Timeline!MonthStart(k) <= e
  BY <1>1, MonthOfIs
<1> HIDE DEF p, k
<1>5. CASE zoom = "years"
  <2> DEFINE n == q - p
  <2>1. n \in Int /\ n <= q
    BY <1>1, <1>3
  <2>2. n * Y <= q * Y
    BY <1>1, <1>3, <2>1
  <2> HIDE DEF n
  <2>3. Timeline!Day(n, 1, 1) = n * Y
    BY <2>1, YearStarts
  <2>4. n * Y \in Int /\ n * Y <= e
    BY <1>1, <1>3, <2>1, <2>2
  <2> QED
    BY <1>2, <1>5, <2>3, <2>4 DEF e, n
<1>6. CASE zoom # "years"
  <2> DEFINE n == k - p
  <2>1. n \in Int /\ n <= k
    BY <1>1, <1>4
  <2>2. Timeline!ChartStart(zoom) = Timeline!MonthStart(n)
    BY <1>2, <1>6
  <2> HIDE DEF n
  <2>3. /\ Timeline!MonthStart(n) \in Int /\ Timeline!MonthStart(k) \in Int
        /\ Timeline!MonthStart(n) <= Timeline!MonthStart(k)
    BY <1>4, <2>1, MonthStartGrows
  <2>4. Timeline!MonthStart(n) <= e
    BY <1>1, <1>4, <2>3
  <2> QED
    BY <2>2, <2>3, <2>4 DEF e
<1> QED
  BY <1>5, <1>6

\* The chart ends no earlier than its last date.
LEMMA EndsAfter ==
  ASSUME NEW zoom, Timeline!LatestDate \in Int, Timeline!Padding(zoom) \in Nat \ {0}
  PROVE  /\ Timeline!ChartEnd(zoom) \in Int
         /\ Timeline!LatestDate <= Timeline!ChartEnd(zoom)
<1> DEFINE e == Timeline!LatestDate
           p == Timeline!Padding(zoom)
           q == e \div Y
           k == Timeline!MonthOf(e)
<1>1. e \in Int /\ p \in Nat \ {0} /\ Y \in Nat \ {0}
  BY YearIs
<1>2. /\ zoom = "years" => Timeline!ChartEnd(zoom) = Timeline!Day(q + p + 1, 1, 1) - 1
      /\ zoom # "years" => Timeline!ChartEnd(zoom) = Timeline!MonthStart(k + p + 1) - 1
  BY DEF Timeline!ChartEnd, Y
<1>3. q \in Int /\ e % Y \in 0..(Y - 1) /\ e = Y * q + (e % Y)
  BY <1>1, Division
<1> HIDE DEF e, q
<1>4. k \in Int /\ e < Timeline!MonthStart(k + 1)
  BY <1>1, MonthOfIs
<1> HIDE DEF p, k
<1>5. CASE zoom = "years"
  <2> DEFINE n == q + p + 1
  <2>1. n \in Int /\ q + 1 <= n
    BY <1>1, <1>3
  <2>2. Timeline!ChartEnd(zoom) = Timeline!Day(n, 1, 1) - 1
    BY <1>2, <1>5
  <2> HIDE DEF n
  <2>3. (q + 1) * Y <= n * Y
    BY <1>1, <1>3, <2>1
  <2>4. Timeline!Day(n, 1, 1) = n * Y
    BY <2>1, YearStarts
  <2>5. n * Y \in Int /\ e <= n * Y - 1
    BY <1>1, <1>3, <2>1, <2>3
  <2> QED
    BY <2>2, <2>4, <2>5 DEF e
<1>6. CASE zoom # "years"
  <2> DEFINE n == k + p + 1
             j == k + 1
  <2>1. n \in Int /\ j \in Int /\ j <= n
    BY <1>1, <1>4
  <2>2. Timeline!ChartEnd(zoom) = Timeline!MonthStart(n) - 1
    BY <1>2, <1>6
  <2>3. e < Timeline!MonthStart(j)
    BY <1>4
  <2> HIDE DEF n, j
  <2>4. /\ Timeline!MonthStart(j) \in Int /\ Timeline!MonthStart(n) \in Int
        /\ Timeline!MonthStart(j) <= Timeline!MonthStart(n)
    BY <2>1, MonthStartGrows
  <2>5. Timeline!MonthStart(n) - 1 \in Int /\ e <= Timeline!MonthStart(n) - 1
    BY <1>1, <2>3, <2>4
  <2> QED
    BY <2>2, <2>5 DEF e
<1> QED
  BY <1>5, <1>6

\* So the chart fits, whatever the dates.
LEMMA ChartHolds ==
  ASSUME s2 \in [Items -> Spans \cup {Timeline!Nothing}]
  PROVE  Timeline!ChartFits
<1> DEFINE z == Timeline!ZoomLevel
           e == Timeline!EarliestDate
           l == Timeline!LatestDate
<1>1. TypedItems(s2)
  BY DatesTyped
<1>2. z \in Zooms
  BY DEF Timeline!ZoomLevel, Timeline!AvailableZoomLevels, Zooms
<1>3. /\ Timeline!Drawn \in SUBSET Items
      /\ Timeline!ChartItems \in SUBSET Items /\ Timeline!Present \in SUBSET Items
      /\ Timeline!Drawn \subseteq Bars(Timeline!ChartItems)
      /\ Timeline!Drawn \subseteq Bars(Timeline!Present)
  <2>1. Timeline!Drawn \subseteq Timeline!ChartItems
    BY DEF Timeline!Drawn, Timeline!ChartItems, Timeline!Valid, Timeline!NoDate, Timeline!Date
  <2> QED
    BY <2>1 DEF Timeline!Drawn, Timeline!ChartItems, Timeline!Present, Bars
<1>4. ASSUME NEW i \in Timeline!Drawn
      PROVE  /\ e \in Int /\ l \in Int /\ e <= Timeline!EarliestOf(i)
             /\ Timeline!EarliestOf(i) \in Int /\ Timeline!LatestOf(i) \in Int
             /\ Timeline!LatestOf(i) <= l
             /\ Timeline!Max(Timeline!LatestDates(Timeline!Present)) \in Int
             /\ l <= Timeline!Max(Timeline!LatestDates(Timeline!Present))
  <2>1. e \in Int /\ e <= Timeline!EarliestOf(i)
    BY <1>1, FirstDates
  <2>2. i \in Bars(Timeline!ChartItems) /\ i \in Bars(Timeline!Present)
    BY <1>3
  <2> DEFINE C == Timeline!LatestDates(Timeline!ChartItems)
             D == Timeline!LatestDates(Timeline!Present)
  <2>3. C \in SUBSET Int /\ IsFiniteSet(C) /\ Timeline!LatestOf(i) \in C
    BY <1>1, <1>3, <2>2, LastDates
  <2>4. D \in SUBSET Int /\ IsFiniteSet(D) /\ Timeline!LatestOf(i) \in D
    BY <1>1, <1>3, <2>2, LastDates
  <2>5. C \subseteq D
    BY DEF Timeline!LatestDates, Timeline!ChartItems
  <2>6. l = Timeline!Max(C)
    BY DEF Timeline!LatestDate
  <2> HIDE DEF C, D, l
  <2>7. l \in Int /\ l \in C /\ \A y \in C : y <= l
    BY <2>3, <2>6, MaxIs
  <2>8. Timeline!Max(D) \in Int /\ \A y \in D : y <= Timeline!Max(D)
    BY <2>4, MaxIs
  <2>9. Timeline!EarliestOf(i) \in Int /\ Timeline!LatestOf(i) \in Int
    BY <1>1, <1>3, BarsTyped
  <2> QED
    BY <2>1, <2>3, <2>5, <2>7, <2>8, <2>9 DEF D
<1>5. ASSUME NEW i \in Timeline!Drawn
      PROVE  /\ Timeline!ChartStart(z) <= Timeline!EarliestOf(i)
             /\ Timeline!LatestOf(i) <= Timeline!ChartEnd(z)
  <2>1. /\ e \in Int /\ l \in Int /\ e <= Timeline!EarliestOf(i)
        /\ Timeline!EarliestOf(i) \in Int /\ Timeline!LatestOf(i) \in Int
        /\ Timeline!LatestOf(i) <= l
    BY <1>4
  <2> HIDE DEF z
  <2>2. Timeline!Padding(z) \in Nat \ {0}
    BY <1>2, <2>1, PaddingPositive
  <2>3. Timeline!ChartStart(z) \in Int /\ Timeline!ChartStart(z) <= e
    BY <2>1, <2>2, StartsBefore
  <2>4. Timeline!ChartEnd(z) \in Int /\ l <= Timeline!ChartEnd(z)
    BY <2>1, <2>2, EndsAfter
  <2> HIDE DEF e, l
  <2> QED
    BY <2>1, <2>3, <2>4
<1>6. ASSUME Timeline!Drawn # {}
      PROVE  /\ z = "days" => (l - e) \div Y < DaysMax
             /\ z = "months" => (l - e) \div Y < MonthsMax
  <2>1. PICK i \in Timeline!Drawn : TRUE
    BY <1>6
  <2> DEFINE a == l - e
             b == Timeline!Max(Timeline!LatestDates(Timeline!Present)) - e
  <2>2. e \in Int /\ l \in Int /\ a \in Int /\ b \in Int /\ a <= b
    <3> DEFINE mx == Timeline!Max(Timeline!LatestDates(Timeline!Present))
    <3>1. e \in Int /\ l \in Int /\ mx \in Int /\ l <= mx
      BY <1>4, <2>1
    <3> HIDE DEF mx, e, l
    <3>2. l - e \in Int /\ mx - e \in Int /\ l - e <= mx - e
      BY <3>1
    <3> QED
      BY <3>1, <3>2 DEF mx
  <2>3. Timeline!Years = b \div Y
    BY DEF Timeline!Years, Y
  <2> HIDE DEF a, b
  <2>4. /\ a \div Y \in Int /\ b \div Y \in Int /\ a \div Y <= b \div Y
    BY <2>2, YearIs, Division, DivisionGrows
  <2>5. /\ z = "days" => Timeline!Years < DaysMax
        /\ z = "months" => Timeline!Years < MonthsMax
    BY <1>6 DEF Timeline!ZoomLevel, Timeline!AvailableZoomLevels
  <2>6. DaysMax \in Nat /\ MonthsMax \in Nat
    BY TimelineAssumption
  <2> HIDE DEF z
  <2>7. /\ z = "days" => a \div Y < DaysMax
        /\ z = "months" => a \div Y < MonthsMax
    BY <2>3, <2>4, <2>5, <2>6
  <2> QED
    BY <2>7 DEF a
<1> HIDE DEF z, e, l
<1> QED
  BY <1>5, <1>6 DEF Timeline!ChartFits, z, e, l, Y

TypedEntities(e) == e \in [Items -> Spans \cup {Timeline!Nothing}]
Requested(submitting, pending, failed) == submitting /\ ~failed => pending # {}

TimelineAll == TypedEntities(s2) /\ Requested(s7, s10, s11)

\* The invariant of the timeline, in parts.
LEMMA TimelineParts == Timeline!Inv <=> TimelineAll
BY DEF TimelineAll, Timeline!Inv, TypedEntities, Timeline!SubmittingHasRequest, Requested

\* It holds when the timeline opens.
LEMMA TimelineInit == Timeline!Init => Timeline!Inv
<1> SUFFICES ASSUME Timeline!Init PROVE TimelineAll
  BY TimelineParts
<1>1. TypedEntities(s2)
  BY DEF Timeline!Init, TypedEntities
<1>2. Requested(s7, s10, s11)
  BY DEF Timeline!Init, Requested
<1> QED
  BY <1>1, <1>2 DEF TimelineAll

\* An item changes its dates, or leaves the timeline.
LEMMA ItemTyped ==
  ASSUME TypedEntities(s2), NEW i, NEW d \in Spans \cup {Timeline!Nothing},
         s2' = [s2 EXCEPT ![i] = d]
  PROVE  TypedEntities(s2')
BY DEF TypedEntities

\* Every step preserves it.
LEMMA TimelineStep == Timeline!Inv /\ Timeline!Next => Timeline!Inv'
<1>1. ASSUME TypedEntities(s2), Timeline!Next PROVE TypedEntities(s2')
  <2>1. CASE UNCHANGED s2
    BY <1>1, <2>1
  <2>2. ASSUME NEW i \in Items, Timeline!Remove(i) PROVE TypedEntities(s2')
    BY <1>1, <2>2, ItemTyped DEF Timeline!Remove
  <2>3. ASSUME NEW span \in Spans, Timeline!ChangeDates(span)
        PROVE  TypedEntities(s2')
    BY <1>1, <2>3, ItemTyped DEF Timeline!ChangeDates
  <2>4. ASSUME NEW i \in Items, NEW span \in Spans, Timeline!Created(i, span)
        PROVE  TypedEntities(s2')
    BY <1>1, <2>4, ItemTyped DEF Timeline!Created
  <2> QED
    BY <1>1, <2>1, <2>2, <2>3, <2>4
    DEF Timeline!Next, Timeline!RendererAndViewer, Timeline!Select,
        Timeline!Unselect, Timeline!Submit, Timeline!CreateFails,
        Timeline!SetRenderer, Timeline!SetZoomLevel, Timeline!TypeField,
        Timeline!ChangeSchema, Timeline!ToggleDialog
<1>2. ASSUME Requested(s7, s10, s11), Timeline!Next
      PROVE  Requested(s7', s10', s11')
  <2>1. CASE UNCHANGED <<s7, s10, s11>>
    BY <1>2, <2>1
  <2>2. ASSUME NEW i \in Items, Timeline!Submit(i) PROVE Requested(s7', s10', s11')
    BY <2>2 DEF Timeline!Submit, Requested
  <2>3. ASSUME NEW i \in Items, Timeline!CreateFails(i)
        PROVE  Requested(s7', s10', s11')
    BY <2>3 DEF Timeline!CreateFails, Requested
  <2>4. ASSUME NEW i \in Items, NEW span \in Spans, Timeline!Created(i, span)
        PROVE  Requested(s7', s10', s11')
    BY <2>4 DEF Timeline!Created, Timeline!Toggle, Requested
  <2>5. CASE Timeline!ToggleDialog
    BY <2>5 DEF Timeline!ToggleDialog, Timeline!Toggle, Requested
  <2> QED
    BY <1>2, <2>1, <2>2, <2>3, <2>4, <2>5
    DEF Timeline!Next, Timeline!RendererAndViewer, Timeline!Select,
        Timeline!Unselect, Timeline!Remove, Timeline!ChangeDates,
        Timeline!SetRenderer, Timeline!SetZoomLevel, Timeline!TypeField,
        Timeline!ChangeSchema, Timeline!dialog
<1>3. Timeline!Inv' <=> TimelineAll'
  BY TimelineParts, PTL
<1> QED
  BY <1>1, <1>2, <1>3, TimelineParts DEF TimelineAll

\* It depends on nothing but the variables.
LEMMA TimelineStays == Timeline!Inv /\ UNCHANGED vars => Timeline!Inv'
<1>1. TimelineAll /\ UNCHANGED vars => TimelineAll'
  BY DEF TimelineAll, vars
<1>2. Timeline!Inv' <=> TimelineAll'
  BY TimelineParts, PTL
<1> QED
  BY <1>1, <1>2, TimelineParts

\* It implies what the timeline promises.
LEMMA TimelineShows ==
  Timeline!Inv => Timeline!ChartFits /\ Timeline!SubmittingHasRequest
BY ChartHolds DEF Timeline!Inv

-----------------------------------------------------------------------------
(* The invariants of the editors.  Only the steps of a page itself change   *)
(* its state, and no step leaves the page.                                  *)

\* A step on another page, or none.
LEMMA PageStays ==
  [Next]_vars => page' = page /\ (UNCHANGED vars \/ InDiagram \/ InAutosave
                                  \/ InTools \/ InTimeline \/ InTable \/ InMapping)
BY DEF Next, vars, InDiagram, InAutosave, InTools, InTimeline, InTable, InMapping

\* Once the requests of a diagram or a timeline are answered and none failed or
\* overtook another, the server has what the editor holds; and the screen says
\* that it saves only while a request is out
\* (entityEditorWrapper.jsx, DiagramEditor.jsx, TimelineScreen.jsx).
THEOREM SavingAlwaysHolds == Spec => []SavingHolds
<1> DEFINE Inv == page = "autosave" => Autosave!Inv
<1>1. Init => Inv
  BY SavingInit DEF Init
<1>2. Inv /\ [Next]_vars => Inv'
  <2> SUFFICES ASSUME Inv, [Next]_vars, page' = "autosave" PROVE Autosave!Inv'
    OBVIOUS
  <2>1. page = "autosave" /\ Autosave!Inv
    BY PageStays
  <2>2. CASE UNCHANGED vars
    <3>1. s9' \in BOOLEAN
      BY <2>1, <2>2, SavingParts DEF SavingAll, SavingTypes, vars
    <3> QED
      BY <2>1, <2>2, <3>1, SavingStays DEF vars
  <2>3. CASE InAutosave
    BY <2>1, <2>3, SavingStep DEF InAutosave
  <2> QED
    BY <2>1, <2>2, <2>3
    DEF Next, InDiagram, InTools, InTimeline, InTable, InMapping
<1>3. Inv => SavingHolds
  BY SavingShows DEF SavingHolds
<1> QED
  BY <1>1, <1>2, <1>3, PTL DEF Spec

\* The counts in the menu of a vertex are its own, although others are awaited;
\* a link has two ends, by whatever way they were chosen; and an item is dragged
\* only while the button holds it, or after the key removed it
\* (NetworkDiagram.tsx, EdgeCreateDialog.tsx, VertexRenderer.tsx).
THEOREM ToolsAlwaysHold == Spec => []ToolsHold
<1> DEFINE Inv == page = "tools" => Tools!Inv
<1>1. Init => Inv
  BY ToolsInit DEF Init
<1>2. Inv /\ [Next]_vars => Inv'
  BY PageStays, ToolsStay, ToolsStep
  DEF Next, InDiagram, InAutosave, InTools, InTimeline, InTable, InMapping
<1>3. Inv => ToolsHold
  BY ToolsShow DEF ToolsHold
<1> QED
  BY <1>1, <1>2, <1>3, PTL DEF Spec

\* In a diagram the table has one row for each entity of its tab, whatever is
\* created in it, undone and done again; where it shows results, the check marks
\* are those of the selection, also of rows that come later
\* (TableEditor.tsx).
THEOREM TableAlwaysHolds == Spec => []TableHolds
<1> DEFINE Inv == page = "table" => Table!Inv
<1>1. Init => Inv
  BY TableInit DEF Init
<1>2. Inv /\ [Next]_vars => Inv'
  BY PageStays, TableStays, TableStep
  DEF Next, InDiagram, InAutosave, InTools, InTimeline, InTable, InMapping
<1>3. Inv => TableHolds
  BY TableShows DEF TableHolds
<1> QED
  BY <1>1, <1>2, <1>3, PTL DEF Spec

\* What an item of a mapping refers to is in the list, whatever was removed,
\* renamed, imported, loaded or answered before, unless a list was made of a
\* query that unsaved edits had changed; and no two items have the same color
\* (MappingList.js, MappingEditor.jsx).
THEOREM MappingAlwaysHolds == Spec => []MappingHolds
<1> DEFINE Inv == page = "mapping" => Mapping!Inv
<1>1. Init => Inv
  BY MappingInit DEF Init
<1>2. Inv /\ [Next]_vars => Inv'
  BY PageStays, MappingStays, MappingStep
  DEF Next, InDiagram, InAutosave, InTools, InTimeline, InTable, InMapping
<1>3. Inv => MappingHolds
  BY MappingShows DEF MappingHolds
<1> QED
  BY <1>1, <1>2, <1>3, PTL DEF Spec

\* The diagram shows the entities it holds but for those that an expansion found
\* and no entry recorded, however edits, undo, redo and answers mix; every line
\* ends in two vertices; groupings name vertices, until an expansion is drawn into
\* a layout that undo replaced; and undo and redo replay the history
\* (NetworkDiagram.tsx, GraphLayout.ts, History.ts).
THEOREM DiagramAlwaysHolds == Spec => []DiagramHolds
<1> DEFINE Inv == page = "diagram" => Diagram!Inv
<1>1. Init => Inv
  BY DiagramInit DEF Init
<1>2. Inv /\ [Next]_vars => Inv'
  BY PageStays, DiagramStays, DiagramStep
  DEF Next, InDiagram, InAutosave, InTools, InTimeline, InTable, InMapping
<1>3. Inv => DiagramHolds
  BY DiagramShows DEF DiagramHolds
<1> QED
  BY <1>1, <1>2, <1>3, PTL DEF Spec

\* Every bar of the chart lies in the chart, whatever dates the items have and
\* however the years are divided into months, and the chart has no more years than
\* its zoom level is for; the dialog's button loads only while an answer is
\* awaited, unless one was an error
\* (TimelineChart.tsx, TimelineChart/util.ts, TimelineItemCreateDialog.tsx).
THEOREM TimelineAlwaysHolds == Spec => []TimelineHolds
<1> DEFINE Inv == page = "timeline" => Timeline!Inv
<1>1. Init => Inv
  BY TimelineInit DEF Init
<1>2. Inv /\ [Next]_vars => Inv'
  BY PageStays, TimelineStays, TimelineStep
  DEF Next, InDiagram, InAutosave, InTools, InTimeline, InTable, InMapping
<1>3. Inv => TimelineHolds
  BY TimelineShows DEF TimelineHolds
<1> QED
  BY <1>1, <1>2, <1>3, PTL DEF Spec
=============================================================================
