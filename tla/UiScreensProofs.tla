--------------------------- MODULE UiScreensProofs ---------------------------
(* Proofs about UiScreens, for every value of its constants.                *)
EXTENDS UiScreens, UiLists, TLAPS, FiniteSetTheorems, SequenceTheorems
-----------------------------------------------------------------------------
(* Sequences *)

\* What is at each place of two lists that are joined.
LEMMA JoinedPosition ==
  ASSUME NEW S, NEW s \in Seq(S), NEW t \in Seq(S)
  PROVE  /\ s \o t \in Seq(S) /\ Len(s \o t) = Len(s) + Len(t)
         /\ DOMAIN (s \o t) = 1..(Len(s) + Len(t))
         /\ \A i \in DOMAIN (s \o t) :
              (s \o t)[i] = IF i <= Len(s) THEN s[i] ELSE t[i - Len(s)]
         /\ \A i \in DOMAIN s : i \in DOMAIN (s \o t) /\ (s \o t)[i] = s[i]
         /\ \A i \in DOMAIN t : /\ i + Len(s) \in DOMAIN (s \o t)
                                /\ (s \o t)[i + Len(s)] = t[i]
OBVIOUS

\* What is at each place of a list from which one element is removed.
LEMMA RemovedPosition ==
  ASSUME NEW S, NEW s \in Seq(S), NEW i \in DOMAIN s
  PROVE  LET t == SubSeq(s, 1, i - 1) \o SubSeq(s, i + 1, Len(s))
         IN /\ t \in Seq(S) /\ Len(t) = Len(s) - 1
            /\ \A j \in DOMAIN t : t[j] = IF j < i THEN s[j] ELSE s[j + 1]
<1> DEFINE a == SubSeq(s, 1, i - 1)
           b == SubSeq(s, i + 1, Len(s))
<1>1. i \in 1..Len(s) /\ Len(s) \in Nat
  OBVIOUS
<1>2. /\ a \in Seq(S) /\ Len(a) = i - 1
      /\ \A j \in 1..(i - 1) : a[j] = s[j]
  BY <1>1
<1>3. /\ b \in Seq(S) /\ Len(b) = Len(s) - i
      /\ \A j \in 1..(Len(s) - i) : b[j] = s[j + i]
  BY <1>1
<1> HIDE DEF a, b
<1> DEFINE u == a \o b
<1>4. /\ u \in Seq(S) /\ Len(u) = Len(a) + Len(b)
      /\ DOMAIN u = 1..(Len(a) + Len(b))
      /\ \A j \in DOMAIN u : u[j] = IF j <= Len(a) THEN a[j] ELSE b[j - Len(a)]
  <2>1. a \in Seq(S) /\ b \in Seq(S)
    BY <1>2, <1>3
  <2> QED
    BY <2>1, JoinedPosition
<1> HIDE DEF u
<1>5. Len(u) = Len(s) - 1 /\ DOMAIN u = 1..(Len(s) - 1)
  BY <1>1, <1>2, <1>3, <1>4
<1>6. ASSUME NEW j \in DOMAIN u PROVE u[j] = IF j < i THEN s[j] ELSE s[j + 1]
  <2>1. j \in 1..(Len(s) - 1) /\ u[j] = IF j <= i - 1 THEN a[j] ELSE b[j - (i - 1)]
    BY <1>2, <1>4, <1>5
  <2>2. CASE j <= i - 1
    BY <1>1, <1>2, <2>1, <2>2
  <2>3. CASE ~(j <= i - 1)
    <3>1. j - (i - 1) \in 1..(Len(s) - i) /\ j - (i - 1) + i = j + 1
      BY <1>1, <2>1, <2>3
    <3>2. b[j - (i - 1)] = s[j + 1]
      BY <1>3, <3>1
    <3> QED
      BY <1>1, <2>1, <2>3, <3>2
  <2> QED
    BY <2>2, <2>3
<1> QED
  BY <1>4, <1>5, <1>6 DEF a, b, u

ValuesOf(s) == {s[i] : i \in DOMAIN s}

\* Two lists that are joined hold what either of them held.
LEMMA JoinedValues ==
  ASSUME NEW S, NEW s \in Seq(S), NEW t \in Seq(S)
  PROVE  s \o t \in Seq(S) /\ ValuesOf(s \o t) = ValuesOf(s) \cup ValuesOf(t)
<1> DEFINE u == s \o t
<1>1. /\ u \in Seq(S) /\ DOMAIN u = 1..(Len(s) + Len(t))
      /\ Len(s) \in Nat /\ Len(t) \in Nat
      /\ DOMAIN s = 1..Len(s) /\ DOMAIN t = 1..Len(t)
      /\ \A i \in DOMAIN u : u[i] = IF i <= Len(s) THEN s[i] ELSE t[i - Len(s)]
      /\ \A i \in DOMAIN s : i \in DOMAIN u /\ u[i] = s[i]
      /\ \A i \in DOMAIN t : i + Len(s) \in DOMAIN u /\ u[i + Len(s)] = t[i]
  BY JoinedPosition
<1> HIDE DEF u
<1>2. \A i \in DOMAIN u : \/ i \in DOMAIN s /\ u[i] = s[i]
                          \/ i - Len(s) \in DOMAIN t /\ u[i] = t[i - Len(s)]
  BY <1>1
<1>3. ValuesOf(u) \subseteq ValuesOf(s) \cup ValuesOf(t)
  BY <1>2 DEF ValuesOf
<1>4. ValuesOf(s) \subseteq ValuesOf(u)
  BY <1>1 DEF ValuesOf
<1>5. ValuesOf(t) \subseteq ValuesOf(u)
  BY <1>1 DEF ValuesOf
<1>6. ValuesOf(u) = ValuesOf(s) \cup ValuesOf(t)
  BY <1>3, <1>4, <1>5
<1> QED
  BY <1>1, <1>6 DEF u

-----------------------------------------------------------------------------
(* What is left of a list: UiLists                                          *)

\* Ranks number the members of a finite set of numbers from 1 on.
LEMMA RankType ==
  ASSUME NEW P \in SUBSET Nat, IsFiniteSet(P)
  PROVE  /\ \A i \in P : Rank(P, i) \in 1..Cardinality(P)
         /\ \A i, j \in P : i < j => Rank(P, i) < Rank(P, j)
<1> DEFINE upto(i) == {j \in P : j <= i}
<1>1. \A i : upto(i) \in SUBSET P /\ Rank(P, i) = Cardinality(upto(i))
  BY DEF Rank
<1> HIDE DEF upto
<1>2. \A i : IsFiniteSet(upto(i)) /\ Cardinality(upto(i)) \in Nat
             /\ Cardinality(upto(i)) <= Cardinality(P)
  BY <1>1, FS_Subset, FS_CardinalityType
<1>3. Cardinality(P) \in Nat
  BY FS_CardinalityType
<1>4. ASSUME NEW i \in P PROVE Rank(P, i) \in 1..Cardinality(P)
  <2>1. upto(i) # {}
    BY <1>4 DEF upto
  <2>2. Cardinality(upto(i)) # 0
    BY <1>2, <2>1, FS_EmptySet
  <2> QED
    BY <1>1, <1>2, <1>3, <2>2
<1>5. ASSUME NEW i \in P, NEW j \in P, i < j PROVE Rank(P, i) < Rank(P, j)
  <2>1. upto(i) \in SUBSET upto(j) /\ upto(i) # upto(j)
    <3>1. i \in Nat /\ j \in Nat /\ P \subseteq Nat
      OBVIOUS
    <3>2. j \in upto(j) /\ j \notin upto(i)
      BY <1>5, <3>1 DEF upto
    <3>3. \A x \in P : x <= i => x <= j
      BY <1>5, <3>1
    <3>4. upto(i) \subseteq upto(j)
      BY <3>3 DEF upto
    <3> QED
      BY <3>2, <3>4
  <2>2. /\ Cardinality(upto(i)) <= Cardinality(upto(j))
        /\ Cardinality(upto(i)) # Cardinality(upto(j))
    BY <1>2, <2>1, FS_Subset
  <2> QED
    BY <1>1, <1>2, <2>2
<1> QED
  BY <1>4, <1>5

\* Every number up to their number is the rank of one of them.
LEMMA RankOnto ==
  ASSUME NEW P \in SUBSET Nat, IsFiniteSet(P), NEW k \in 1..Cardinality(P)
  PROVE  \E i \in P : Rank(P, i) = k
<1> DEFINE n == Cardinality(P)
           f == [i \in P |-> Rank(P, i)]
<1>1. n \in Nat /\ IsFiniteSet(1..n) /\ Cardinality(1..n) = n
  BY FS_CardinalityType, FS_Interval
<1>2. f \in [P -> 1..n] /\ \A i \in P : f[i] = Rank(P, i)
  BY RankType
<1> HIDE DEF n, f
<1>3. \A i, j \in P : f[i] = f[j] => i = j
  <2> SUFFICES ASSUME NEW i \in P, NEW j \in P, i # j PROVE f[i] # f[j]
    OBVIOUS
  <2>1. i \in Nat /\ j \in Nat
    OBVIOUS
  <2>2. Rank(P, i) \in 1..n /\ Rank(P, j) \in 1..n
    BY <1>2
  <2>3. (i < j => Rank(P, i) < Rank(P, j)) /\ (j < i => Rank(P, j) < Rank(P, i))
    BY RankType
  <2> QED
    BY <1>1, <1>2, <2>1, <2>2, <2>3
<1>4. f \in Injection(P, 1..n)
  BY <1>2, <1>3 DEF Injection, IsInjective
<1>5. f \in Surjection(P, 1..n)
  BY <1>1, <1>4, FS_Injection DEF n
<1>6. PICK i \in P : f[i] = k
  BY <1>5 DEF Surjection, n
<1> QED
  BY <1>2, <1>6

\* Each place of t, the filtered list, stands for a position of the list, no
\* two for the same one, and each position that is kept has a place.
Placed(s, P, t, n) ==
  /\ n \in Nat /\ Len(t) = n /\ DOMAIN t = 1..n
  /\ \E g \in [1..n -> P] :
       /\ \A k \in 1..n : t[k] = s[g[k]]
       /\ \A k, m \in 1..n : k < m => g[k] < g[m]
       /\ \A i \in P : \E k \in 1..n : g[k] = i

\* A filtered list holds what it should, each in its place.
LEMMA FilteredPlaces ==
  ASSUME NEW X, NEW s \in Seq(X), NEW S
  PROVE  /\ Filtered(s, S) \in Seq(X \cap S)
         /\ Placed(s, Positions(s, S), Filtered(s, S), Cardinality(Positions(s, S)))
<1> DEFINE P == Positions(s, S)
           n == Cardinality(P)
           t == Filtered(s, S)
           g == [k \in 1..n |-> CHOOSE i \in P : Rank(P, i) = k]
<1>1. P \in SUBSET Nat /\ P \in SUBSET (1..Len(s)) /\ Len(s) \in Nat
  BY DEF Positions
<1>2. IsFiniteSet(P) /\ n \in Nat
  <2>1. IsFiniteSet(1..Len(s))
    BY <1>1, FS_Interval
  <2> HIDE DEF P
  <2>2. IsFiniteSet(P)
    BY <1>1, <2>1, FS_Subset
  <2> QED
    BY <2>2, FS_CardinalityType
<1>3. t = [k \in 1..n |-> s[CHOOSE i \in P : Rank(P, i) = k]]
  BY DEF Filtered
<1>4. \A i \in P : s[i] \in X \cap S
  BY DEF Positions
<1> HIDE DEF P, n, t
<1>5. \A k \in 1..n : g[k] \in P /\ Rank(P, g[k]) = k
  BY <1>1, <1>2, RankOnto DEF n
<1>6. g \in [1..n -> P] /\ t = [k \in 1..n |-> s[g[k]]]
  BY <1>3, <1>5
<1> HIDE DEF g
<1>7. \A k \in 1..n : t[k] = s[g[k]] /\ t[k] \in X \cap S
  BY <1>4, <1>6
<1>8. DOMAIN t = 1..n /\ t \in Seq(X \cap S) /\ Len(t) = n
  BY <1>2, <1>6, <1>7
<1>9. \A k, m \in 1..n : k < m => g[k] < g[m]
  <2> SUFFICES ASSUME NEW k \in 1..n, NEW m \in 1..n, k < m PROVE g[k] < g[m]
    OBVIOUS
  <2>1. /\ g[k] \in Nat /\ g[m] \in Nat /\ g[k] \in P /\ g[m] \in P
        /\ Rank(P, g[k]) = k /\ Rank(P, g[m]) = m
    BY <1>1, <1>5
  <2>2. g[m] < g[k] => Rank(P, g[m]) < Rank(P, g[k])
    BY <1>1, <1>2, <2>1, RankType
  <2> QED
    BY <1>2, <2>1, <2>2
<1>10. \A i \in P : \E k \in 1..n : g[k] = i
  <2> SUFFICES ASSUME NEW i \in P PROVE \E k \in 1..n : g[k] = i
    OBVIOUS
  <2> DEFINE k == Rank(P, i)
  <2>1. k \in 1..n
    BY <1>1, <1>2, RankType DEF n
  <2>2. g[k] \in P /\ Rank(P, g[k]) = Rank(P, i)
    BY <1>5, <2>1
  <2>3. g[k] \in Nat /\ i \in Nat /\ Rank(P, i) \in Nat
    <3>1. Rank(P, i) \in Nat
      BY <1>2, <2>1
    <3> HIDE DEF k
    <3> QED
      BY <1>1, <2>2, <3>1
  <2>4. /\ g[k] < i => Rank(P, g[k]) < Rank(P, i)
        /\ i < g[k] => Rank(P, i) < Rank(P, g[k])
    BY <1>1, <1>2, <2>2, RankType
  <2>5. g[k] = i
    <3> HIDE DEF k
    <3> QED
      BY <2>2, <2>3, <2>4
  <2> QED
    BY <2>1, <2>5
<1>11. Placed(s, P, t, n)
  BY <1>2, <1>6, <1>7, <1>8, <1>9, <1>10 DEF Placed
<1> QED
  BY <1>8, <1>11 DEF P, n, t

LEMMA FilteredShorter ==
  ASSUME NEW X, NEW s \in Seq(X), NEW S
  PROVE  Filtered(s, S) \in Seq(X) /\ Len(Filtered(s, S)) <= Len(s)
<1> DEFINE P == Positions(s, S)
           n == Len(s)
<1>1. P \in SUBSET (1..n) /\ n \in Nat
  BY DEF Positions
<1> HIDE DEF P, n
<1>2. IsFiniteSet(1..n) /\ Cardinality(1..n) = n
  BY <1>1, FS_Interval
<1>3. Cardinality(P) <= n
  BY <1>1, <1>2, FS_Subset
<1>4. Filtered(s, S) \in Seq(X \cap S) /\ Len(Filtered(s, S)) = Cardinality(P)
  BY FilteredPlaces DEF P, Placed
<1> QED
  BY <1>3, <1>4 DEF n

\* Some places of a list, if there are any, have a first.
LEMMA FirstPlace ==
  ASSUME NEW n \in Nat, NEW P \in SUBSET (1..n), P # {}
  PROVE  \E i \in P : \A j \in P : i <= j
<1>1. IsFiniteSet(P) /\ P \in SUBSET Nat
  <2>1. IsFiniteSet(1..n)
    BY FS_Interval
  <2>2. IsFiniteSet(P)
    BY <2>1, FS_Subset
  <2> QED
    BY <2>2
<1>2. Cardinality(P) \in Nat /\ Cardinality(P) # 0
  BY <1>1, FS_CardinalityType, FS_EmptySet
<1>3. PICK i \in P : Rank(P, i) = 1
  BY <1>1, <1>2, RankOnto
<1>4. ASSUME NEW j \in P PROVE i <= j
  <2>1. i \in Nat /\ j \in Nat
    OBVIOUS
  <2>2. j < i => Rank(P, j) < Rank(P, i)
    BY <1>1, RankType
  <2>3. Rank(P, j) \in 1..Cardinality(P)
    BY <1>1, RankType
  <2> QED
    BY <1>2, <1>3, <2>1, <2>2, <2>3
<1> QED
  BY <1>4

-----------------------------------------------------------------------------
(* The property editors                                                     *)

\* The names that stand for nothing, and what the schemata say.
LEMMA PropertyNames ==
  /\ Properties!None \notin EditedEntities \cup Properties!Props
  /\ Properties!Empty \notin Texts \cup ValidTexts \cup Members \cup EditedEntities
  /\ \A e \in EditedEntities :
       /\ SchemaOf[e] \in DOMAIN PropsOf
       /\ Featured[SchemaOf[e]] \subseteq PropsOf[SchemaOf[e]]
       /\ PropsOf[SchemaOf[e]] \subseteq Properties!Props
BY PropertiesAssumption DEF Properties!None, Properties!Empty, Properties!Props

\* A property of a schema has values, which fit it or could not be edited.
ValuesFit(e, p, values) ==
  /\ values \in Seq(Properties!Values)
  /\ Properties!Editable(e, p, values)

\* What the entities hold is of the right type and valid.
EntitiesHold(es) ==
  /\ es \in [EditedEntities -> [Properties!Props -> Seq(Properties!Values)]]
  /\ \A e \in EditedEntities : \A p \in PropsOf[SchemaOf[e]] : Properties!Valid(e, p, es[e][p])

LEMMA EntitiesHoldParts ==
  /\ (Properties!TypesKept /\ Properties!EntitiesStayValid) => EntitiesHold(s1)
  /\ EntitiesHold(s1)
       => /\ s1 \in [EditedEntities -> [Properties!Props -> Seq(Properties!Values)]]
          /\ Properties!EntitiesStayValid
BY DEF EntitiesHold, Properties!TypesKept, Properties!EntitiesStayValid, Properties!Schema

\* What is valid could have been edited.
LEMMA ValidIsEditable ==
  ASSUME NEW e, NEW p, NEW values \in Seq(Properties!Values),
         Properties!Valid(e, p, values)
  PROVE  Properties!Editable(e, p, values)
BY PropertyNames DEF Properties!Valid, Properties!Editable, Properties!Schema

\* What can be edited is valid once it is accepted.
LEMMA AcceptedIsValid ==
  ASSUME NEW e, NEW p, NEW values \in Seq(Properties!Values),
         Properties!Editable(e, p, values),
         Properties!Validate(Properties!Schema(e), p, values)
  PROVE  Properties!Valid(e, p, values)
<1>1. CASE Properties!IsEmpty(values)
  <2>1. p \notin Required[SchemaOf[e]]
    BY <1>1 DEF Properties!Validate, Properties!Schema
  <2>2. values = << >> \/ values = <<Properties!Empty>>
    BY <1>1 DEF Properties!IsEmpty
  <2>3. values = <<Properties!Empty>> => Properties!Empty \in Properties!ToSet(values)
    BY DEF Properties!ToSet
  <2>4. values = << >> => Properties!ToSet(values) = {}
    BY DEF Properties!ToSet
  <2> QED
    BY <2>1, <2>2, <2>3, <2>4 DEF Properties!Valid, Properties!Editable, Properties!Schema
<1>2. CASE ~Properties!IsEmpty(values)
  BY <1>2 DEF Properties!Validate, Properties!Valid, Properties!Editable, Properties!Schema
<1> QED
  BY <1>1, <1>2

\* Saving valid values of the property that is edited keeps all entities valid.
LEMMA SavedHold ==
  ASSUME EntitiesHold(s1), s3 \in EditedEntities, s5 \in PropsOf[SchemaOf[s3]],
         NEW values \in Seq(Properties!Values), Properties!Valid(s3, s5, values)
  PROVE  EntitiesHold(Properties!Saved(values))
<1> DEFINE es == Properties!Saved(values)
<1>1. s5 \in Properties!Props
  BY PropertyNames
<1>2. /\ es \in [EditedEntities -> [Properties!Props -> Seq(Properties!Values)]]
      /\ \A e \in EditedEntities : \A p \in Properties!Props :
           es[e][p] = IF e = s3 /\ p = s5 THEN values ELSE s1[e][p]
  BY <1>1 DEF EntitiesHold, Properties!Saved
<1> HIDE DEF es
<1>3. ASSUME NEW e \in EditedEntities, NEW p \in PropsOf[SchemaOf[e]]
      PROVE  Properties!Valid(e, p, es[e][p])
  BY <1>2, PropertyNames DEF EntitiesHold
<1> QED
  BY <1>2, <1>3 DEF EntitiesHold, es

\* The values of a list that grows, or of which one or some are removed.
LEMMA PropertyLists ==
  ASSUME NEW V, NEW s \in Seq(V)
  PROVE  /\ \A x \in V : /\ Append(s, x) \in Seq(V) /\ Len(Append(s, x)) = Len(s) + 1
                         /\ Properties!ToSet(Append(s, x)) = Properties!ToSet(s) \cup {x}
         /\ \A i \in DOMAIN s : /\ Properties!RemoveAt(s, i) \in Seq(V)
                                /\ Properties!ToSet(Properties!RemoveAt(s, i))
                                     \subseteq Properties!ToSet(s)
         /\ \A S : /\ Properties!Filtered(s, S) \in Seq(V)
                   /\ Properties!ToSet(Properties!Filtered(s, S)) \subseteq Properties!ToSet(s)
<1>1. ASSUME NEW x \in V
      PROVE  /\ Append(s, x) \in Seq(V) /\ Len(Append(s, x)) = Len(s) + 1
             /\ Properties!ToSet(Append(s, x)) = Properties!ToSet(s) \cup {x}
  <2> DEFINE t == Append(s, x)
  <2>1. /\ t \in Seq(V) /\ Len(t) = Len(s) + 1 /\ DOMAIN t = 1..(Len(s) + 1)
        /\ \A i \in 1..Len(s) : t[i] = s[i]
        /\ t[Len(s) + 1] = x /\ DOMAIN s = 1..Len(s) /\ Len(s) \in Nat
    OBVIOUS
  <2> HIDE DEF t
  <2>2. Properties!ToSet(t) \subseteq Properties!ToSet(s) \cup {x}
    BY <2>1 DEF Properties!ToSet
  <2>3. Properties!ToSet(s) \cup {x} \subseteq Properties!ToSet(t)
    BY <2>1 DEF Properties!ToSet
  <2> QED
    BY <2>1, <2>2, <2>3 DEF t
<1>2. ASSUME NEW i \in DOMAIN s
      PROVE  /\ Properties!RemoveAt(s, i) \in Seq(V)
             /\ Properties!ToSet(Properties!RemoveAt(s, i)) \subseteq Properties!ToSet(s)
  <2> DEFINE t == Properties!RemoveAt(s, i)
  <2>1. /\ t \in Seq(V) /\ Len(t) = Len(s) - 1
        /\ \A j \in DOMAIN t : t[j] = IF j < i THEN s[j] ELSE s[j + 1]
    BY RemovedPosition DEF Properties!RemoveAt
  <2> HIDE DEF t
  <2>2. DOMAIN t = 1..(Len(s) - 1) /\ DOMAIN s = 1..Len(s) /\ Len(s) \in Nat
    BY <2>1
  <2>3. \A j \in DOMAIN t : \E k \in DOMAIN s : t[j] = s[k]
    BY <2>1, <2>2
  <2> QED
    BY <2>1, <2>3 DEF Properties!ToSet, t
<1>3. ASSUME NEW S
      PROVE  /\ Properties!Filtered(s, S) \in Seq(V)
             /\ Properties!ToSet(Properties!Filtered(s, S)) \subseteq Properties!ToSet(s)
  <2>1. Properties!Filtered(s, S) = Filtered(s, S)
    BY DEF Properties!Filtered, Filtered, Properties!Positions, Positions,
           Properties!Rank, Rank, Properties!Cardinality, Cardinality,
           Properties!IsFiniteSet, IsFiniteSet
  <2>2. s \in Seq(Properties!ToSet(s))
    BY DEF Properties!ToSet
  <2>3. Filtered(s, S) \in Seq(V \cap S) /\ Filtered(s, S) \in Seq(Properties!ToSet(s) \cap S)
    BY <2>2, FilteredPlaces
  <2> HIDE DEF Properties!ToSet
  <2>4. \A t \in Seq(Properties!ToSet(s) \cap S) : Properties!ToSet(t) \subseteq Properties!ToSet(s)
    <3> SUFFICES ASSUME NEW A, NEW t \in Seq(A \cap S) PROVE Properties!ToSet(t) \subseteq A
      OBVIOUS
    <3> QED
      BY DEF Properties!ToSet
  <2>5. \A t \in Seq(V \cap S) : t \in Seq(V)
    OBVIOUS
  <2> QED
    BY <2>1, <2>3, <2>4, <2>5
<1> QED
  BY <1>1, <1>2, <1>3

\* The parts of the invariant.
PropertiesAll ==
  /\ Properties!TypesKept /\ EntitiesHold(s1)
  /\ Properties!OfItsSchema /\ Properties!EditorFits

LEMMA PropertiesParts == Properties!Inv <=> PropertiesAll
BY EntitiesHoldParts DEF Properties!Inv, PropertiesAll, Properties!TypesKept

LEMMA PropertiesPartsNext == Properties!Inv' <=> PropertiesAll'
BY PropertiesParts, PTL

\* Nothing is open.
LEMMA ClosedFits ==
  ASSUME Properties!Close
  PROVE  /\ s5' = Properties!None
         /\ s6' \in [values : Seq(Properties!Values), error : BOOLEAN,
                     multi : BOOLEAN, typed : Texts \cup {Properties!Empty}]
         /\ s7' \in [pending : BOOLEAN, results : SUBSET EditedEntities]
         /\ s8' \subseteq Queries \cup {Properties!Empty}
BY DEF Properties!Close, Properties!NoEditor, Properties!NoSuggestions

\* Only what the schema of an entity has is shown of it.
LEMMA ShownOfSchema ==
  ASSUME NEW e \in EditedEntities, NEW es
  PROVE  /\ Properties!VisibleProperties(es, e) \subseteq PropsOf[SchemaOf[e]]
         /\ PropsOf[SchemaOf[e]] \subseteq Properties!Props
BY PropertyNames DEF Properties!VisibleProperties, Properties!Schema

\* What is edited is a property of the entity that is selected.
LEMMA EditedOfSchema ==
  ASSUME PropertiesAll, s5 # Properties!None
  PROVE  s3 \in EditedEntities /\ s5 \in PropsOf[SchemaOf[s3]]
BY DEF PropertiesAll, Properties!TypesKept, Properties!OfItsSchema, Properties!Schema

LEMMA EditingOne ==
  ASSUME PropertiesAll, Properties!Editing
  PROVE  /\ s5 # Properties!None /\ s3 \in EditedEntities /\ s5 \in PropsOf[SchemaOf[s3]]
         /\ s6.values \in Seq(Properties!Values)
         /\ Properties!Editable(s3, s5, s6.values)
<1>1. s5 # Properties!None
  BY PropertyNames DEF PropertiesAll, Properties!OfItsSchema, Properties!Editing
<1> QED
  BY <1>1, EditedOfSchema DEF PropertiesAll, Properties!TypesKept, Properties!EditorFits

\* Values that are submitted are saved, or stay in the editor.
LEMMA SubmitKeeps ==
  ASSUME PropertiesAll, NEW values \in Seq(Properties!Values),
         Properties!Editing => Properties!Editable(s3, s5, values),
         Properties!OnSubmit(values)
  PROVE  PropertiesAll'
<1>1. /\ s5 # Properties!None /\ s3 \in EditedEntities /\ s5 \in PropsOf[SchemaOf[s3]]
      /\ Properties!Editable(s3, s5, values)
  BY EditingOne DEF Properties!OnSubmit
<1>2. CASE Properties!Accepted(values)
  <2>1. EntitiesHold(Properties!Saved(values))
    BY <1>1, <1>2, AcceptedIsValid, SavedHold DEF PropertiesAll, Properties!Accepted
  <2>2. /\ s1' = Properties!Saved(values) /\ s2' = s2 /\ s3' = s3
        /\ s4' = Properties!VisibleProperties(s1', s3) /\ Properties!Close
    BY <1>2 DEF Properties!OnSubmit
  <2>3. EntitiesHold(s1')
    BY <2>1, <2>2
  <2>4. Properties!TypesKept'
    BY <2>2, <2>3, ClosedFits DEF EntitiesHold, PropertiesAll, Properties!TypesKept
  <2>5. Properties!OfItsSchema' /\ Properties!EditorFits'
    BY <1>1, <2>2, ClosedFits, ShownOfSchema
    DEF Properties!OfItsSchema, Properties!EditorFits, Properties!Schema
  <2> QED
    BY <2>2, <2>3, <2>4, <2>5 DEF PropertiesAll
<1>3. CASE ~Properties!Accepted(values)
  <2>1. /\ s6' = [s6 EXCEPT !.values = values, !.error = TRUE]
        /\ UNCHANGED <<s1, s2, s3, s4, s5, s7, s8, s9>>
    BY <1>3 DEF Properties!OnSubmit
  <2> QED
    BY <1>1, <2>1
    DEF PropertiesAll, Properties!TypesKept, Properties!OfItsSchema, Properties!EditorFits,
        Properties!Editable, EntitiesHold, Properties!Schema
<1> QED
  BY <1>2, <1>3

\* What a press of the mouse adds to the values could have been edited, too.
LEMMA PressedFits ==
  ASSUME PropertiesAll, Properties!Editing
  PROVE  /\ Properties!Pressed \in Seq(Properties!Values)
         /\ Properties!Editable(s3, s5, Properties!Pressed)
<1>1. /\ s6.values \in Seq(Properties!Values) /\ Properties!Editable(s3, s5, s6.values)
      /\ s6.typed \in Texts \cup {Properties!Empty}
  BY EditingOne DEF PropertiesAll, Properties!TypesKept
<1>2. CASE TypeOf[s5] \in {"text", "checked"} /\ s6.typed # Properties!Empty
  <2>1. Properties!Pressed = Append(s6.values, s6.typed)
    BY <1>2 DEF Properties!Pressed
  <2>2. s6.typed \in Properties!Values
    BY <1>1 DEF Properties!Values
  <2> QED
    BY <1>1, <1>2, <2>1, <2>2, PropertyLists DEF Properties!Editable
<1>3. CASE ~(TypeOf[s5] \in {"text", "checked"} /\ s6.typed # Properties!Empty)
  BY <1>1, <1>3 DEF Properties!Pressed
<1> QED
  BY <1>2, <1>3

LEMMA PressedHold ==
  ASSUME PropertiesAll
  PROVE  EntitiesHold(Properties!PressedEntities)
<1>1. CASE Properties!Editing /\ Properties!Accepted(Properties!Pressed)
  <2>1. /\ s3 \in EditedEntities /\ s5 \in PropsOf[SchemaOf[s3]] /\ EntitiesHold(s1)
        /\ Properties!Pressed \in Seq(Properties!Values)
        /\ Properties!Editable(s3, s5, Properties!Pressed)
    BY <1>1, EditingOne, PressedFits DEF PropertiesAll
  <2>2. EntitiesHold(Properties!Saved(Properties!Pressed))
    BY <1>1, <2>1, AcceptedIsValid, SavedHold DEF Properties!Accepted
  <2> QED
    BY <1>1, <2>2 DEF Properties!PressedEntities
<1>2. CASE ~(Properties!Editing /\ Properties!Accepted(Properties!Pressed))
  BY <1>2 DEF Properties!PressedEntities, PropertiesAll
<1> QED
  BY <1>1, <1>2

\* An editor that stays open for another entity fits it: of an entity's values
\* only the empty ones are not accepted.
LEMMA StaysFits ==
  ASSUME PropertiesAll, Properties!StaysOpen, NEW e
  PROVE  /\ Properties!Pressed \in Seq(Properties!Values)
         /\ Properties!Editable(e, s5, Properties!Pressed)
<1>1. /\ Properties!Pressed \in Seq(Properties!Values)
      /\ Properties!Editable(s3, s5, Properties!Pressed)
      /\ ~Properties!Accepted(Properties!Pressed)
  BY PressedFits DEF Properties!StaysOpen
<1>2. TypeOf[s5] = "entity" => Properties!IsEmpty(Properties!Pressed)
  BY <1>1 DEF Properties!Accepted, Properties!Validate
<1>3. \A list : Properties!IsEmpty(list) => Len(list) <= 1
  <2>1. Len(<< >>) <= 1 /\ Len(<<Properties!Empty>>) <= 1
    OBVIOUS
  <2> QED
    BY <2>1, Zenon DEF Properties!IsEmpty
<1> QED
  BY <1>1, <1>2, <1>3 DEF Properties!Editable

LEMMA SelectKeeps ==
  ASSUME PropertiesAll, NEW e \in EditedEntities \cup {Properties!None},
         Properties!Select(e)
  PROVE  PropertiesAll'
<1>1. /\ EntitiesHold(s1') /\ s3' = e /\ s2' = s2 /\ e \in s2 \cup {Properties!None}
      /\ s2 \subseteq EditedEntities
  BY PressedHold DEF Properties!Select, PropertiesAll, Properties!TypesKept
<1>2. CASE e = Properties!None
  <2>1. s4' = {} /\ Properties!Close
    BY <1>2 DEF Properties!Select
  <2> QED
    BY <1>1, <1>2, <2>1, ClosedFits
    DEF PropertiesAll, Properties!TypesKept, Properties!OfItsSchema,
        Properties!EditorFits, EntitiesHold
<1>3. CASE e # Properties!None
  <2>1. e \in EditedEntities /\ s4' = Properties!VisibleProperties(s1', e)
    BY <1>3 DEF Properties!Select
  <2>2. s4' \subseteq PropsOf[SchemaOf[e]] /\ s4' \subseteq Properties!Props
    BY <2>1, ShownOfSchema
  <2>3. CASE Properties!StaysOpen /\ s5 \in s4'
    <3>1. /\ s6' = [s6 EXCEPT !.values = Properties!Pressed, !.error = TRUE]
          /\ UNCHANGED <<s5, s7, s8, s9>>
      BY <1>3, <2>3 DEF Properties!Select
    <3>2. /\ Properties!Pressed \in Seq(Properties!Values)
          /\ Properties!Editable(e, s5, Properties!Pressed)
      BY <2>3, StaysFits
    <3>3. Properties!TypesKept'
      BY <1>1, <3>1, <3>2 DEF PropertiesAll, Properties!TypesKept, EntitiesHold
    <3>4. s6'.values = Properties!Pressed
      BY <3>1 DEF PropertiesAll, Properties!TypesKept
    <3> QED
      BY <1>1, <1>3, <2>2, <2>3, <3>1, <3>2, <3>3, <3>4
      DEF PropertiesAll, Properties!OfItsSchema, Properties!EditorFits,
          Properties!Schema, Properties!Editable
  <2>4. CASE ~(Properties!StaysOpen /\ s5 \in s4')
    <3>1. Properties!Close
      BY <1>3, <2>4 DEF Properties!Select
    <3> QED
      BY <1>1, <1>3, <2>1, <2>2, <3>1, ClosedFits
      DEF PropertiesAll, Properties!TypesKept, Properties!OfItsSchema,
          Properties!EditorFits, EntitiesHold, Properties!Schema
  <2> QED
    BY <2>3, <2>4
<1> QED
  BY <1>2, <1>3

\* The values an editor is opened with.
LEMMA FreshFits ==
  ASSUME NEW es, EntitiesHold(es), NEW e \in EditedEntities, NEW p \in PropsOf[SchemaOf[e]]
  PROVE  /\ Properties!FreshEditor(es, e, p)
              \in [values : Seq(Properties!Values), error : BOOLEAN, multi : BOOLEAN,
                   typed : Texts \cup {Properties!Empty}]
         /\ Properties!Editable(e, p, Properties!FreshEditor(es, e, p).values)
<1> DEFINE held == es[e][p]
           values == Properties!Resolved(es, p, held)
<1>1. p \in Properties!Props
  BY PropertyNames
<1>2. held \in Seq(Properties!Values) /\ Properties!Editable(e, p, held)
  BY <1>1, ValidIsEditable DEF EntitiesHold
<1> HIDE DEF held
<1>3. values \in Seq(Properties!Values) /\ Len(values) = Len(held)
  <2>1. CASE TypeOf[p] = "entity"
    <3>1. values = [i \in 1..Len(held) |-> IF held[i] \in s2 THEN held[i]
                                           ELSE Properties!Empty]
      BY <1>2, <2>1 DEF Properties!Resolved
    <3>2. Properties!Empty \in Properties!Values /\ Len(held) \in Nat
          /\ \A i \in 1..Len(held) : held[i] \in Properties!Values
      BY <1>2 DEF Properties!Values
    <3> QED
      BY <3>1, <3>2
  <2>2. CASE TypeOf[p] # "entity"
    BY <1>2, <2>2 DEF Properties!Resolved
  <2> QED
    BY <2>1, <2>2
<1>4. Properties!Editable(e, p, values)
  <2>1. TypeOf[p] # "entity" => values = held
    BY DEF Properties!Resolved
  <2> HIDE DEF values
  <2> QED
    BY <1>2, <1>3, <2>1 DEF Properties!Editable
<1> DEFINE Editors == [values : Seq(Properties!Values), error : BOOLEAN,
                       multi : BOOLEAN, typed : Texts \cup {Properties!Empty}]
<1>5. Properties!NoEditor \in Editors
  BY DEF Properties!NoEditor
<1>6. \A list \in Seq(Properties!Values) :
        /\ [Properties!NoEditor EXCEPT !.values = list] \in Editors
        /\ [Properties!NoEditor EXCEPT !.values = list].values = list
  BY <1>5
<1>7. Properties!FreshEditor(es, e, p) = [Properties!NoEditor EXCEPT !.values = values]
  BY DEF Properties!FreshEditor, held
<1> HIDE DEF values
<1> QED
  BY <1>3, <1>4, <1>6, <1>7

LEMMA ToggleKeeps ==
  ASSUME PropertiesAll, NEW p, Properties!ToggleEditing(p)
  PROVE  PropertiesAll'
<1>1. /\ EntitiesHold(s1') /\ s3 \in EditedEntities /\ s3' = s3 /\ s2' = s2
      /\ p \in s4 /\ s4 \subseteq PropsOf[SchemaOf[s3]]
      /\ s4' = Properties!VisibleProperties(s1', s3) \cup s4
  BY PressedHold
  DEF Properties!ToggleEditing, PropertiesAll, Properties!TypesKept,
      Properties!OfItsSchema, Properties!Schema
<1>2. /\ s4' \subseteq PropsOf[SchemaOf[s3]] /\ s4' \subseteq Properties!Props
      /\ p \in PropsOf[SchemaOf[s3]]
  BY <1>1, ShownOfSchema
<1>3. /\ s5' = p /\ s6' = Properties!FreshEditor(s1', s3, p)
      /\ s7' \in [pending : BOOLEAN, results : SUBSET EditedEntities]
      /\ s8' \subseteq Queries \cup {Properties!Empty}
  <2>1. Properties!NoSuggestions \in [pending : BOOLEAN, results : SUBSET EditedEntities]
    BY DEF Properties!NoSuggestions
  <2> QED
    BY <1>1, <2>1 DEF Properties!ToggleEditing, Properties!Open
<1>4. /\ s6' \in [values : Seq(Properties!Values), error : BOOLEAN, multi : BOOLEAN,
                  typed : Texts \cup {Properties!Empty}]
      /\ Properties!Editable(s3, p, s6'.values)
  BY <1>1, <1>2, <1>3, FreshFits
<1> QED
  BY <1>1, <1>2, <1>3, <1>4, PropertyNames
  DEF PropertiesAll, Properties!TypesKept, Properties!OfItsSchema,
      Properties!EditorFits, EntitiesHold, Properties!Schema, Properties!Editable

LEMMA NewPropertyKeeps ==
  ASSUME PropertiesAll, NEW p, Properties!OnNewPropertySelected(p)
  PROVE  PropertiesAll'
<1>1. /\ EntitiesHold(s1') /\ s3' = s3 /\ s2' = s2 /\ Properties!Close
      /\ s3 # Properties!None /\ p \in PropsOf[SchemaOf[s3]]
      /\ s4' = Properties!VisibleProperties(s1', s3) \cup s4 \cup {p}
  BY PressedHold
  DEF Properties!OnNewPropertySelected, Properties!AvailableProperties, Properties!Schema
<1>2. s3 \in EditedEntities
  BY <1>1 DEF PropertiesAll, Properties!TypesKept
<1>3. s4' \subseteq PropsOf[SchemaOf[s3]] /\ s4' \subseteq Properties!Props
  BY <1>1, <1>2, ShownOfSchema DEF PropertiesAll, Properties!OfItsSchema, Properties!Schema
<1> QED
  BY <1>1, <1>2, <1>3, ClosedFits
  DEF PropertiesAll, Properties!TypesKept, Properties!OfItsSchema,
      Properties!EditorFits, EntitiesHold, Properties!Schema

\* Another state of the editor, with the same property.
LEMMA EditorKeeps ==
  ASSUME PropertiesAll, UNCHANGED <<s1, s2, s3, s4, s5, s7, s8>>,
         s6' \in [values : Seq(Properties!Values), error : BOOLEAN, multi : BOOLEAN,
                  typed : Texts \cup {Properties!Empty}],
         s5 # Properties!None => Properties!Editable(s3, s5, s6'.values)
  PROVE  PropertiesAll'
BY DEF PropertiesAll, Properties!TypesKept, Properties!OfItsSchema,
       Properties!EditorFits, EntitiesHold, Properties!Schema, Properties!Editable

\* Values that are typed, for a property that has text.
LEMMA ChangeKeeps ==
  ASSUME PropertiesAll, Properties!IsText, NEW values \in Seq(Properties!Values),
         Properties!Editable(s3, s5, values), Properties!Change(values)
  PROVE  PropertiesAll'
<1>1. /\ s6' = [s6 EXCEPT !.values = values, !.multi = @ /\ Len(values) > 1]
      /\ UNCHANGED <<s1, s2, s3, s4, s5, s7, s8>>
  BY DEF Properties!Change
<1>2. s6 \in [values : Seq(Properties!Values), error : BOOLEAN, multi : BOOLEAN,
              typed : Texts \cup {Properties!Empty}]
  BY DEF PropertiesAll, Properties!TypesKept
<1>3. /\ s6' \in [values : Seq(Properties!Values), error : BOOLEAN, multi : BOOLEAN,
                  typed : Texts \cup {Properties!Empty}]
      /\ s6'.values = values
  <2>1. (s6.multi /\ Len(values) > 1) \in BOOLEAN
    BY <1>2
  <2> QED
    BY <1>1, <1>2, <2>1
<1> QED
  BY <1>1, <1>3, EditorKeeps

LEMMA TextKeeps ==
  ASSUME PropertiesAll,
         \/ \E text \in Texts \cup {Properties!Empty} :
              Properties!Type(text) \/ Properties!TypeTag(text)
         \/ Properties!TriggerMultiEdit \/ Properties!AddTag
         \/ \E i \in 1..MaxValues : Properties!RemoveTag(i)
  PROVE  PropertiesAll'
<1>1. /\ s6 \in [values : Seq(Properties!Values), error : BOOLEAN, multi : BOOLEAN,
                 typed : Texts \cup {Properties!Empty}]
      /\ s6.values \in Seq(Properties!Values)
      /\ s5 # Properties!None => Properties!Editable(s3, s5, s6.values)
  BY DEF PropertiesAll, Properties!TypesKept, Properties!EditorFits
<1>2. /\ Properties!IsText => s5 # Properties!None /\ TypeOf[s5] \in {"text", "checked"}
      /\ Texts \subseteq Properties!Values /\ Properties!Empty \in Properties!Values
  BY EditingOne DEF Properties!IsText, Properties!Values
<1>3. ASSUME NEW text \in Texts \cup {Properties!Empty}, Properties!Type(text)
      PROVE  PropertiesAll'
  <2> DEFINE values == IF text = Properties!Empty THEN << >> ELSE <<text>>
  <2>1. values \in Seq(Properties!Values)
    BY <1>2
  <2>2. Properties!Empty \notin Properties!ToSet(values)
    BY DEF Properties!ToSet
  <2>3. Properties!IsText /\ Properties!Change(values)
    BY <1>3 DEF Properties!Type
  <2> HIDE DEF values
  <2>4. Properties!Editable(s3, s5, values)
    BY <1>2, <2>2, <2>3 DEF Properties!Editable
  <2> QED
    BY <2>1, <2>3, <2>4, ChangeKeeps
<1>4. ASSUME NEW text \in Texts \cup {Properties!Empty}, Properties!TypeTag(text)
      PROVE  PropertiesAll'
  <2>1. /\ s6' = [s6 EXCEPT !.typed = text]
        /\ UNCHANGED <<s1, s2, s3, s4, s5, s7, s8>>
    BY <1>4 DEF Properties!TypeTag
  <2> QED
    BY <1>1, <2>1, EditorKeeps
<1>5. CASE Properties!TriggerMultiEdit
  <2>1. /\ s6' = [s6 EXCEPT !.multi = TRUE]
        /\ UNCHANGED <<s1, s2, s3, s4, s5, s7, s8>>
    BY <1>5 DEF Properties!TriggerMultiEdit
  <2> QED
    BY <1>1, <2>1, EditorKeeps
<1>6. CASE Properties!AddTag
  <2>1. s6.typed \in Texts /\ s6.typed \in Properties!Values
    BY <1>1, <1>2, <1>6 DEF Properties!AddTag
  <2> DEFINE values == IF s6.typed \in Properties!ToSet(s6.values) THEN s6.values
                       ELSE Append(s6.values, s6.typed)
  <2>2. values \in Seq(Properties!Values)
    BY <1>1, <2>1
  <2>3. Properties!IsText /\ Properties!Change(values)
    BY <1>6 DEF Properties!AddTag
  <2>4. Properties!Editable(s3, s5, values)
    BY <1>1, <1>2, <2>1, <2>3, PropertyLists, PropertyNames DEF Properties!Editable
  <2> HIDE DEF values
  <2> QED
    BY <2>2, <2>3, <2>4, ChangeKeeps
<1>7. ASSUME NEW i \in 1..MaxValues, Properties!RemoveTag(i) PROVE PropertiesAll'
  <2> DEFINE values == Properties!RemoveAt(s6.values, i)
  <2>1. Properties!IsText /\ Properties!Change(values) /\ i \in DOMAIN s6.values
    BY <1>7 DEF Properties!RemoveTag
  <2>2. /\ values \in Seq(Properties!Values)
        /\ Properties!ToSet(values) \subseteq Properties!ToSet(s6.values)
    BY <1>1, <2>1, PropertyLists
  <2> HIDE DEF values
  <2>3. Properties!Editable(s3, s5, values)
    BY <1>1, <1>2, <2>1, <2>2 DEF Properties!Editable
  <2> QED
    BY <2>1, <2>2, <2>3, ChangeKeeps
<1> QED
  BY <1>3, <1>4, <1>5, <1>6, <1>7

\* Only the suggestions, or the dialog over the editor, change.
LEMMA SuggestionsKeep ==
  ASSUME PropertiesAll, UNCHANGED <<s1, s2, s3, s4, s5, s6>>,
         s7' \in [pending : BOOLEAN, results : SUBSET EditedEntities],
         s8' \subseteq Queries \cup {Properties!Empty}
  PROVE  PropertiesAll'
BY DEF PropertiesAll, Properties!TypesKept, Properties!OfItsSchema,
       Properties!EditorFits, EntitiesHold, Properties!Schema, Properties!Editable

LEMMA MembersKeep ==
  ASSUME PropertiesAll, NEW m \in Members, Properties!AddMember(m) \/ Properties!RemoveMember(m)
  PROVE  PropertiesAll'
<1>1. /\ s6.values \in Seq(Properties!Values) /\ Properties!Editable(s3, s5, s6.values)
      /\ TypeOf[s5] = "enum" /\ m \in Properties!Values /\ m # Properties!Empty
  BY EditingOne, PropertyNames
  DEF Properties!AddMember, Properties!RemoveMember, Properties!Values
<1>2. CASE Properties!AddMember(m)
  <2>1. Properties!OnSubmit(Append(s6.values, m))
    BY <1>2 DEF Properties!AddMember
  <2>2. /\ Append(s6.values, m) \in Seq(Properties!Values)
        /\ Properties!ToSet(Append(s6.values, m)) = Properties!ToSet(s6.values) \cup {m}
    BY <1>1, PropertyLists
  <2>3. Properties!Editable(s3, s5, Append(s6.values, m))
    BY <1>1, <2>2 DEF Properties!Editable
  <2> QED
    BY <2>1, <2>2, <2>3, SubmitKeeps
<1>3. CASE Properties!RemoveMember(m)
  <2> DEFINE values == Properties!Filtered(s6.values, Properties!Values \ {m})
  <2>1. Properties!OnSubmit(values)
    BY <1>3 DEF Properties!RemoveMember
  <2>2. /\ values \in Seq(Properties!Values)
        /\ Properties!ToSet(values) \subseteq Properties!ToSet(s6.values)
    BY <1>1, PropertyLists
  <2> HIDE DEF values
  <2>3. Properties!Editable(s3, s5, values)
    BY <1>1, <2>2 DEF Properties!Editable
  <2> QED
    BY <2>1, <2>2, <2>3, SubmitKeeps
<1> QED
  BY <1>2, <1>3

\* An edge is given one end only, any other entity another value.
LEMMA WithEntityFits ==
  ASSUME PropertiesAll, Properties!IsEntity, NEW e \in EditedEntities
  PROVE  /\ Properties!WithEntity(e) \in Seq(Properties!Values)
         /\ Properties!Editable(s3, s5, Properties!WithEntity(e))
         /\ Properties!WithEntity(e) # << >>
         /\ ~Properties!IsEmpty(Properties!WithEntity(e))
<1>1. /\ s6.values \in Seq(Properties!Values) /\ TypeOf[s5] = "entity"
      /\ e \in Properties!Values /\ e # Properties!Empty
  BY EditingOne, PropertyNames DEF Properties!IsEntity, Properties!Values
<1>2. CASE Properties!AllowMultiple
  <2> DEFINE t == Append(s6.values, e)
  <2>1. Properties!WithEntity(e) = t
    BY <1>2 DEF Properties!WithEntity
  <2>2. t \in Seq(Properties!Values) /\ Len(t) = Len(s6.values) + 1 /\ t[Len(t)] = e
        /\ Len(s6.values) \in Nat
    BY <1>1
  <2>3. t # << >> /\ t # <<Properties!Empty>>
    <3>1. Len(<< >>) = 0 /\ Len(<<Properties!Empty>>) = 1
          /\ <<Properties!Empty>>[1] = Properties!Empty
      OBVIOUS
    <3> HIDE DEF t
    <3>2. CASE t = << >>
      BY <2>2, <3>1, <3>2
    <3>3. CASE t = <<Properties!Empty>>
      <4>1. Len(t) = 1 /\ t[1] = Properties!Empty
        BY <3>1, <3>3
      <4> QED
        BY <1>1, <2>2, <4>1
    <3> QED
      BY <3>2, <3>3
  <2> HIDE DEF t
  <2> QED
    BY <1>1, <1>2, <2>1, <2>2, <2>3
    DEF Properties!Editable, Properties!AllowMultiple, Properties!IsEmpty
<1>3. CASE ~Properties!AllowMultiple
  <2>1. Properties!WithEntity(e) = <<e>>
    BY <1>3 DEF Properties!WithEntity
  <2>2. <<e>> \in Seq(Properties!Values) /\ Len(<<e>>) = 1
    BY <1>1
  <2>3. <<e>> # << >> /\ <<e>> # <<Properties!Empty>>
    BY <1>1
  <2> QED
    BY <1>1, <2>1, <2>2, <2>3 DEF Properties!Editable, Properties!IsEmpty
<1> QED
  BY <1>2, <1>3

LEMMA SelectEntityKeeps ==
  ASSUME PropertiesAll, NEW e \in EditedEntities,
         Properties!SelectEntity(e) \/ Properties!RemoveEntity(e)
  PROVE  PropertiesAll'
<1>1. CASE Properties!SelectEntity(e)
  <2>1. Properties!IsEntity /\ Properties!OnSubmit(Properties!WithEntity(e))
    BY <1>1 DEF Properties!SelectEntity
  <2> QED
    BY <2>1, WithEntityFits, SubmitKeeps
<1>2. CASE Properties!RemoveEntity(e)
  <2> DEFINE values == Properties!Filtered(s6.values, Properties!Values \ {e})
  <2>1. /\ Properties!IsEntity /\ Properties!AllowMultiple /\ Properties!OnSubmit(values)
    BY <1>2 DEF Properties!RemoveEntity
  <2>2. s6.values \in Seq(Properties!Values) /\ TypeOf[s5] = "entity"
    BY <2>1, EditingOne DEF Properties!IsEntity
  <2>3. values \in Seq(Properties!Values)
    BY <2>2, PropertyLists
  <2> HIDE DEF values
  <2>4. Properties!Editable(s3, s5, values)
    BY <2>1, <2>2 DEF Properties!Editable, Properties!AllowMultiple
  <2> QED
    BY <2>1, <2>3, <2>4, SubmitKeeps
<1> QED
  BY <1>1, <1>2

\* The new entity is a value that no one has looked at.
LEMMA CreateNewKeeps ==
  ASSUME PropertiesAll, NEW e \in EditedEntities, Properties!OnCreateNewEntity(e)
  PROVE  PropertiesAll'
<1> DEFINE values == Properties!WithEntity(e)
<1>1. /\ Properties!IsEntity /\ Properties!Close /\ s3' = s3
      /\ s2' = s2 \cup {e} /\ s1' = Properties!Saved(values)
      /\ s4' = Properties!VisibleProperties(s1', s3)
  BY DEF Properties!OnCreateNewEntity
<1>2. /\ s3 \in EditedEntities /\ s5 \in PropsOf[SchemaOf[s3]] /\ TypeOf[s5] = "entity"
  BY <1>1, EditingOne DEF Properties!IsEntity
<1>3. /\ values \in Seq(Properties!Values) /\ Properties!Editable(s3, s5, values)
      /\ ~Properties!IsEmpty(values)
  BY <1>1, WithEntityFits
<1> HIDE DEF values
<1>4. Properties!Valid(s3, s5, values)
  BY <1>2, <1>3 DEF Properties!Valid, Properties!Editable
<1>5. EntitiesHold(s1')
  BY <1>1, <1>2, <1>3, <1>4, SavedHold DEF PropertiesAll
<1>6. s4' \subseteq PropsOf[SchemaOf[s3]] /\ s4' \subseteq Properties!Props
  BY <1>1, <1>2, ShownOfSchema
<1> QED
  BY <1>1, <1>2, <1>5, <1>6, ClosedFits
  DEF PropertiesAll, Properties!TypesKept, Properties!OfItsSchema,
      Properties!EditorFits, EntitiesHold, Properties!Schema

LEMMA SuggestKeeps ==
  ASSUME PropertiesAll,
         \/ \E query \in Queries : Properties!OnQueryChange(query)
         \/ \E query \in s8 : Properties!Suggest(query)
         \/ Properties!OpenCreate \/ Properties!CloseCreate
  PROVE  PropertiesAll'
<1>1. /\ s7 \in [pending : BOOLEAN, results : SUBSET EditedEntities]
      /\ s8 \subseteq Queries \cup {Properties!Empty} /\ s2 \subseteq EditedEntities
  BY DEF PropertiesAll, Properties!TypesKept
<1>2. ASSUME NEW query \in Queries, Properties!OnQueryChange(query) PROVE PropertiesAll'
  BY <1>1, <1>2, SuggestionsKeep DEF Properties!OnQueryChange
<1>3. ASSUME NEW query \in s8, Properties!Suggest(query) PROVE PropertiesAll'
  <2>1. Properties!Matches(query) \subseteq EditedEntities
    BY <1>1 DEF Properties!Matches
  <2> QED
    BY <1>1, <1>3, <2>1, SuggestionsKeep DEF Properties!Suggest
<1>4. CASE Properties!OpenCreate \/ Properties!CloseCreate
  BY <1>1, <1>4, SuggestionsKeep DEF Properties!OpenCreate, Properties!CloseCreate
<1> QED
  BY <1>2, <1>3, <1>4

LEMMA DeleteKeeps ==
  ASSUME PropertiesAll, NEW e \in EditedEntities, Properties!Delete(e)
  PROVE  PropertiesAll'
BY DEF Properties!Delete, PropertiesAll, Properties!TypesKept, Properties!OfItsSchema,
       Properties!EditorFits, EntitiesHold, Properties!Schema, Properties!Editable

LEMMA PropertiesStep == Properties!Inv /\ Properties!Next => Properties!Inv'
<1> SUFFICES ASSUME PropertiesAll, Properties!Steps PROVE PropertiesAll'
  BY PropertiesParts, PropertiesPartsNext DEF Properties!Next
<1>1. ASSUME NEW e \in EditedEntities \cup {Properties!None}, Properties!Select(e)
      PROVE  PropertiesAll'
  BY <1>1, SelectKeeps
<1>2. ASSUME NEW p, Properties!ToggleEditing(p) \/ Properties!OnNewPropertySelected(p)
      PROVE  PropertiesAll'
  BY <1>2, ToggleKeeps, NewPropertyKeeps
<1>3. CASE Properties!SubmitShown
  <2>1. s6.values \in Seq(Properties!Values) /\ Properties!OnSubmit(s6.values)
    BY <1>3 DEF Properties!SubmitShown, PropertiesAll, Properties!TypesKept
  <2> QED
    BY <2>1, EditingOne, SubmitKeeps
<1>4. CASE Properties!PressOutside
  BY <1>4, PressedFits, SubmitKeeps DEF Properties!PressOutside
<1>5. CASE \/ \E text \in Texts \cup {Properties!Empty} :
                Properties!Type(text) \/ Properties!TypeTag(text)
           \/ Properties!TriggerMultiEdit \/ Properties!AddTag
           \/ \E i \in 1..MaxValues : Properties!RemoveTag(i)
  BY <1>5, TextKeeps
<1>6. ASSUME NEW m \in Members, Properties!AddMember(m) \/ Properties!RemoveMember(m)
      PROVE  PropertiesAll'
  BY <1>6, MembersKeep
<1>7. ASSUME NEW e \in EditedEntities,
             \/ Properties!SelectEntity(e) \/ Properties!RemoveEntity(e)
             \/ Properties!OnCreateNewEntity(e) \/ Properties!Delete(e)
      PROVE  PropertiesAll'
  BY <1>7, SelectEntityKeeps, CreateNewKeeps, DeleteKeeps
<1>8. CASE \/ \E query \in Queries : Properties!OnQueryChange(query)
           \/ \E query \in s8 : Properties!Suggest(query)
           \/ Properties!OpenCreate \/ Properties!CloseCreate
  BY <1>8, SuggestKeeps
<1> QED
  BY <1>1, <1>2, <1>3, <1>4, <1>5, <1>6, <1>7, <1>8 DEF Properties!Steps

LEMMA PropertiesStay ==
  ASSUME Properties!Inv, UNCHANGED vars
  PROVE  Properties!Inv'
<1>1. UNCHANGED <<s1, s2, s3, s4, s5, s6, s7, s8>>
  BY DEF vars
<1> QED
  BY <1>1, PropertiesParts, PropertiesPartsNext
  DEF PropertiesAll, Properties!TypesKept, Properties!OfItsSchema,
      Properties!EditorFits, EntitiesHold, Properties!Schema, Properties!Editable

LEMMA PropertiesInit == Properties!Init => Properties!Inv
<1> SUFFICES ASSUME Properties!Init PROVE PropertiesAll
  BY PropertiesParts
<1>1. EntitiesHold(s1)
  <2>1. s1 = FirstValues
    BY DEF Properties!Init
  <2>2. FirstValues \in [EditedEntities -> [Properties!Props -> Seq(Properties!Values)]]
    BY PropertiesAssumption DEF Properties!Props, Properties!Values, Properties!Empty
  <2>3. ASSUME NEW e \in EditedEntities, NEW p \in PropsOf[SchemaOf[e]]
        PROVE  Properties!Valid(e, p, FirstValues[e][p])
    BY PropertiesAssumption DEF Properties!Valid, Properties!Schema, Properties!ToSet
  <2> QED
    BY <2>1, <2>2, <2>3 DEF EntitiesHold
<1>2. Properties!TypesKept
  <2>1. /\ Properties!NoEditor \in [values : Seq(Properties!Values), error : BOOLEAN,
                                    multi : BOOLEAN, typed : Texts \cup {Properties!Empty}]
        /\ Properties!NoSuggestions \in [pending : BOOLEAN, results : SUBSET EditedEntities]
    BY DEF Properties!NoEditor, Properties!NoSuggestions
  <2> QED
    BY <1>1, <2>1 DEF Properties!Init, Properties!TypesKept, EntitiesHold
<1>3. Properties!OfItsSchema /\ Properties!EditorFits
  BY DEF Properties!Init, Properties!OfItsSchema, Properties!EditorFits
<1> QED
  BY <1>1, <1>2, <1>3 DEF PropertiesAll

\* The invariant implies what is promised, and the types.
LEMMA PropertiesShow ==
  Properties!Inv => Properties!EntitiesStayValid /\ Properties!TypeOK
<1> SUFFICES ASSUME Properties!Inv
             PROVE  Properties!EntitiesStayValid /\ Properties!TypeOK
  OBVIOUS
<1>1. Properties!TypesKept /\ Properties!EntitiesStayValid /\ Properties!OfItsSchema
  BY DEF Properties!Inv
<1>2. \A list \in Seq(Properties!Values) : Properties!ToSet(list) \subseteq Properties!Values
  BY DEF Properties!ToSet
<1>3. Texts \cup {Properties!Empty} \subseteq Properties!Values
  BY DEF Properties!Values
<1>4. s5 \in Properties!Props \cup {Properties!None}
  BY <1>1, PropertyNames
  DEF Properties!TypesKept, Properties!OfItsSchema, Properties!Schema
<1> QED
  BY <1>1, <1>2, <1>3, <1>4
  DEF Properties!TypesKept, Properties!OfItsSchema, Properties!TypeOK

-----------------------------------------------------------------------------
(* The dialogs                                                              *)

DialogsAll ==
  /\ Dialogs!TypesKept /\ Dialogs!BlockedWhileWaiting
  /\ Dialogs!WaitsForRights /\ Dialogs!Remembered

LEMMA DialogsParts == Dialogs!Inv <=> DialogsAll
BY DEF Dialogs!Inv, DialogsAll

LEMMA DialogsPartsNext == Dialogs!Inv' <=> DialogsAll'
BY DialogsParts, PTL

\* What each dialog keeps of its own state.
EditFits ==
  /\ s2 \in Labels /\ s3 \in Labels
  /\ s6 \in [open : BOOLEAN, form : Labels, changed : BOOLEAN, blocking : BOOLEAN,
             sent : Labels \cup {Dialogs!None}]
  /\ s6.blocking = (s6.sent # Dialogs!None)

SetEditFits ==
  /\ s7 \in [open : BOOLEAN, form : Labels \cup {""}, processing : BOOLEAN,
             sent : Labels \cup {Dialogs!None}]
  /\ s7.processing = (s7.sent # Dialogs!None)

CreateFits ==
  /\ s8 \in [open : BOOLEAN, label : Labels, roles : Seq(Dialogs!Rights),
             suggested : SUBSET DialogRoles, blocking : BOOLEAN,
             step : {Dialogs!None, "create", "share"}]
  /\ Len(s8.roles) <= MaxRoles /\ s9 \in 0..MaxMade
  /\ s8.blocking = (s8.step # Dialogs!None)
  /\ s10 \in [label : Labels \cup ImportedLabels \cup {""}, collection : 0..s9,
              layout : BOOLEAN, processing : BOOLEAN, stored : BOOLEAN]

RightsOfSome == UNION {[D -> [read : BOOLEAN, write : BOOLEAN]] : D \in SUBSET DialogRoles}

AccessFits ==
  /\ s4 \in RightsOfSome /\ s5 \in Seq(Dialogs!Rights)
  /\ s11 \in [open : BOOLEAN, permissions : Seq(Dialogs!Rights), blocking : BOOLEAN,
              fetching : BOOLEAN, sent : Seq(Dialogs!Rights)]
  /\ s11.sent # <<>> => s11.blocking
  /\ s11.blocking => s11.sent # <<>> \/ s11.permissions = <<>>
  /\ s11.permissions = <<>> => s11.blocking /\ s11.sent = <<>>

DeleteFits ==
  /\ s12 \in [open : BOOLEAN, field : Labels \cup {""}, typed : Labels \cup {""},
              loading : BOOLEAN, gone : BOOLEAN]
  /\ s12.field \in {"", s12.typed}

XrefFits ==
  s13 \in [open : BOOLEAN, blocking : BOOLEAN, asked : BOOLEAN] /\ s13.blocking = s13.asked

LEMMA DialogsFit ==
  DialogsAll <=> /\ EditFits /\ SetEditFits /\ CreateFits
                 /\ AccessFits /\ DeleteFits /\ XrefFits
BY DEF DialogsAll, EditFits, SetEditFits, CreateFits, AccessFits, DeleteFits, XrefFits,
       Dialogs!TypesKept, Dialogs!BlockedWhileWaiting, Dialogs!WaitsForRights,
       Dialogs!Remembered, RightsOfSome

LEMMA DialogsFitNext ==
  DialogsAll' <=> (/\ EditFits /\ SetEditFits /\ CreateFits
                   /\ AccessFits /\ DeleteFits /\ XrefFits)'
BY DialogsFit, PTL

LEMMA DialogNames ==
  /\ Dialogs!None \notin Labels /\ FirstLabel \in Labels
  /\ MaxRoles \in Nat /\ MaxMade \in Nat /\ IsFiniteSet(DialogRoles)
  /\ FirstRights \in RightsOfSome
BY DialogsAssumption DEF Dialogs!None, RightsOfSome

LEMMA DialogsFiltered == \A s, S : Dialogs!Filtered(s, S) = Filtered(s, S)
BY DEF Dialogs!Filtered, Filtered, Dialogs!Positions, Positions, Dialogs!Rank, Rank,
       Dialogs!Cardinality, Cardinality, Dialogs!IsFiniteSet, IsFiniteSet

LEMMA EditKeeps == ASSUME EditFits, Dialogs!Edit PROVE EditFits'
<1>1. CASE Dialogs!OpenEdit \/ Dialogs!CloseEdit
  BY <1>1 DEF EditFits, Dialogs!OpenEdit, Dialogs!CloseEdit, Dialogs!ToggleDialog
<1>2. CASE Dialogs!OnFieldChange
  BY <1>2 DEF EditFits, Dialogs!OnFieldChange
<1>3. CASE Dialogs!SubmitEdit
  BY <1>3, DialogNames DEF EditFits, Dialogs!SubmitEdit, Dialogs!Form
<1>4. CASE Dialogs!EditAnswered
  BY <1>4 DEF EditFits, Dialogs!EditAnswered, Dialogs!Saved, Dialogs!ToggleDialog
<1> QED
  BY <1>1, <1>2, <1>3, <1>4 DEF Dialogs!Edit

LEMMA SetEditKeeps ==
  ASSUME EditFits, SetEditFits, Dialogs!SetEdit PROVE SetEditFits' /\ EditFits'
<1>1. CASE Dialogs!ToggleSetEdit
  BY <1>1 DEF EditFits, SetEditFits, Dialogs!SetEdit, Dialogs!ToggleSetEdit, Dialogs!ToggleDialog
<1>2. CASE Dialogs!OnChangeLabel
  BY <1>2 DEF EditFits, SetEditFits, Dialogs!SetEdit, Dialogs!OnChangeLabel
<1>3. CASE Dialogs!SubmitSetEdit
  BY <1>3, DialogNames DEF EditFits, SetEditFits, Dialogs!SetEdit, Dialogs!SubmitSetEdit
<1>4. CASE Dialogs!SetEditAnswered
  BY <1>4
  DEF EditFits, SetEditFits, Dialogs!SetEdit, Dialogs!SetEditAnswered, Dialogs!ToggleDialog
<1> QED
  BY <1>1, <1>2, <1>3, <1>4 DEF Dialogs!SetEdit

LEMMA CreateFacts ==
  CreateFits => /\ s8.roles \in Seq(Dialogs!Rights) /\ Len(s8.roles) \in Nat
                /\ s8.suggested \subseteq DialogRoles
                /\ s9 \in Nat /\ s9 <= MaxMade /\ s10.collection \in 0..s9
<1> SUFFICES ASSUME CreateFits
             PROVE  /\ s8.roles \in Seq(Dialogs!Rights) /\ Len(s8.roles) \in Nat
                    /\ s8.suggested \subseteq DialogRoles
                    /\ s9 \in Nat /\ s9 <= MaxMade /\ s10.collection \in 0..s9
  OBVIOUS
<1>1. s8.roles \in Seq(Dialogs!Rights) /\ s8.suggested \subseteq DialogRoles
  BY DEF CreateFits
<1>2. s9 \in 0..MaxMade /\ s10.collection \in 0..s9
  BY DEF CreateFits
<1>3. s9 \in Nat /\ s9 <= MaxMade
  BY <1>2, DialogNames
<1> QED
  BY <1>1, <1>2, <1>3

\* A collection more to choose from.
LEMMA MoreMade ==
  ASSUME CreateFits, NEW m \in Nat, s9 <= m
  PROVE  s10 \in [label : Labels \cup ImportedLabels \cup {""}, collection : 0..m,
                 layout : BOOLEAN, processing : BOOLEAN, stored : BOOLEAN]
<1>1. s10.collection \in 0..m
  BY CreateFacts
<1> QED
  BY <1>1 DEF CreateFits

LEMMA InvestigationKeeps ==
  ASSUME CreateFits, Dialogs!Investigation PROVE CreateFits'
<1>1. CASE Dialogs!OnSuggest
  BY <1>1 DEF CreateFits, Dialogs!OnSuggest
<1>2. CASE Dialogs!OnAddRole
  <2>1. PICK r \in s8.suggested :
          s8' = [s8 EXCEPT !.roles = Append(@, [role |-> r, read |-> TRUE, write |-> TRUE])]
    BY <1>2 DEF Dialogs!OnAddRole
  <2> DEFINE entry == [role |-> r, read |-> TRUE, write |-> TRUE]
             longer == Append(s8.roles, entry)
  <2>2. entry \in Dialogs!Rights
    BY <2>1, CreateFacts DEF Dialogs!Rights
  <2>3. longer \in Seq(Dialogs!Rights) /\ Len(longer) = Len(s8.roles) + 1
    <3> HIDE DEF entry
    <3> QED
      BY <2>2, CreateFacts
  <2>4. Len(longer) <= MaxRoles
    BY <1>2, <2>3, CreateFacts, DialogNames DEF Dialogs!OnAddRole
  <2>5. s8' = [s8 EXCEPT !.roles = longer]
    BY <2>1
  <2> HIDE DEF longer
  <2> QED
    BY <1>2, <2>3, <2>4, <2>5 DEF CreateFits, Dialogs!OnAddRole
<1>3. CASE Dialogs!OnDeleteRole
  <2> DEFINE kept(r) == Filtered(s8.roles, {p \in Dialogs!Rights : p.role # r})
  <2>1. \A r : kept(r) \in Seq(Dialogs!Rights) /\ Len(kept(r)) <= Len(s8.roles)
    BY FilteredShorter DEF CreateFits
  <2>2. PICK r : s8' = [s8 EXCEPT !.roles = kept(r)]
    BY <1>3, DialogsFiltered DEF Dialogs!OnDeleteRole
  <2> HIDE DEF kept
  <2>3. Len(kept(r)) <= MaxRoles
    <3>1. Len(s8.roles) <= MaxRoles
      BY DEF CreateFits
    <3>2. Len(kept(r)) \in Nat /\ Len(kept(r)) <= Len(s8.roles)
      BY <2>1
    <3> QED
      BY <3>1, <3>2, CreateFacts, DialogNames
  <2> QED
    BY <1>3, <2>1, <2>2, <2>3 DEF CreateFits, Dialogs!OnDeleteRole
<1>4. CASE Dialogs!OnChangeTitle
  BY <1>4 DEF CreateFits, Dialogs!OnChangeTitle
<1>5. CASE Dialogs!SubmitCreate
  BY <1>5 DEF CreateFits, Dialogs!SubmitCreate, Dialogs!None
<1>6. CASE Dialogs!CreateAnswered
  <2>1. CASE s9 < MaxMade /\ s9' = s9 + 1 /\ s8' = [s8 EXCEPT !.step = "share"]
    <3>1. s9' \in 0..MaxMade /\ s9' \in Nat /\ s9 <= s9'
      BY <2>1, CreateFacts, DialogNames
    <3>2. s10' = s10
      BY <1>6 DEF Dialogs!CreateAnswered
    <3>3. s8.blocking
      BY <1>6 DEF Dialogs!CreateAnswered, CreateFits, Dialogs!None
    <3> QED
      BY <2>1, <3>1, <3>2, <3>3, MoreMade DEF CreateFits, Dialogs!None
  <2>2. CASE s8' = [s8 EXCEPT !.step = Dialogs!None, !.blocking = FALSE] /\ UNCHANGED <<s9, s10>>
    BY <2>2 DEF CreateFits
  <2> QED
    BY <1>6, <2>1, <2>2 DEF Dialogs!CreateAnswered
<1>7. CASE Dialogs!ShareAnswered
  <2>1. CASE /\ s8' = [Dialogs!ToggleDialog(s8) EXCEPT !.step = Dialogs!None, !.blocking = FALSE]
             /\ s10' = [s10 EXCEPT !.collection = s9] /\ s9' = s9
    <3>1. s9 \in 0..s9
      BY CreateFacts
    <3> QED
      BY <2>1, <3>1 DEF CreateFits, Dialogs!ToggleDialog
  <2>2. CASE s8' = [s8 EXCEPT !.step = Dialogs!None, !.blocking = FALSE] /\ UNCHANGED <<s9, s10>>
    BY <2>2 DEF CreateFits
  <2> QED
    BY <1>7, <2>1, <2>2 DEF Dialogs!ShareAnswered
<1>8. CASE Dialogs!ToggleCreate
  BY <1>8 DEF CreateFits, Dialogs!ToggleCreate, Dialogs!ToggleDialog
<1> QED
  BY <1>1, <1>2, <1>3, <1>4, <1>5, <1>6, <1>7, <1>8 DEF Dialogs!Investigation

\* The dialog for the set itself.
LEMMA CreateKeeps == ASSUME CreateFits, Dialogs!Create PROVE CreateFits'
<1>1. CASE Dialogs!Investigation
  BY <1>1, InvestigationKeeps
<1>2. CASE Dialogs!ChooseCollection
  <2>1. PICK c \in 1..s9 : s10' = [s10 EXCEPT !.collection = c]
    BY <1>2 DEF Dialogs!ChooseCollection
  <2>2. c \in 0..s9
    BY CreateFacts
  <2> QED
    BY <1>2, <2>1, <2>2 DEF CreateFits, Dialogs!ChooseCollection
<1>3. CASE Dialogs!TypeSet
  BY <1>3 DEF CreateFits, Dialogs!TypeSet
<1>4. CASE Dialogs!ImportFile
  BY <1>4 DEF CreateFits, Dialogs!ImportFile, Dialogs!OnImport
<1>5. CASE Dialogs!SubmitSet
  BY <1>5 DEF CreateFits, Dialogs!SubmitSet
<1>6. CASE Dialogs!SetAnswered
  BY <1>6 DEF CreateFits, Dialogs!SetAnswered
<1> QED
  BY <1>1, <1>2, <1>3, <1>4, <1>5, <1>6 DEF Dialogs!Create

\* The sequence made from a finite set holds its elements.
LEMMA DialogsSetToSeq ==
  ASSUME NEW S, IsFiniteSet(S)
  PROVE  Dialogs!SetToSeq(S) \in Seq(S)
<1> DEFINE n == Cardinality(S)
           seq == Dialogs!SetToSeq(S)
<1>1. n \in Nat /\ ExistsBijection(1..n, S)
  BY FS_CardinalityType
<1>2. PICK f \in [1..n -> S] : \A i, j \in 1..n : f[i] = f[j] => i = j
  BY <1>1 DEF ExistsBijection, Bijection, Injection, IsInjective
<1>3. \A i, j \in DOMAIN f : f[i] = f[j] => i = j
  BY <1>2
<1>4. seq = CHOOSE g \in [1..n -> S] : \A i, j \in DOMAIN g : g[i] = g[j] => i = j
  BY DEF Dialogs!SetToSeq, Dialogs!Cardinality, Cardinality, Dialogs!IsFiniteSet, IsFiniteSet
<1> HIDE DEF n, seq
<1>5. seq \in [1..n -> S]
  BY <1>2, <1>3, <1>4
<1> QED
  BY <1>1, <1>5 DEF seq

\* Rights as a list, and a list as rights.
LEMMA ListOfRights ==
  ASSUME NEW r \in RightsOfSome
  PROVE  Dialogs!AsList(r) \in Seq(Dialogs!Rights)
<1> DEFINE D == DOMAIN r
           list == Dialogs!SetToSeq(D)
<1>1. D \in SUBSET DialogRoles /\ r \in [D -> [read : BOOLEAN, write : BOOLEAN]]
  BY DEF RightsOfSome
<1>2. IsFiniteSet(D)
  BY <1>1, DialogNames, FS_Subset
<1>3. list \in Seq(D)
  BY <1>2, DialogsSetToSeq
<1> HIDE DEF D, list
<1>4. \A i \in DOMAIN list : list[i] \in D
  BY <1>3
<1>5. Dialogs!AsList(r) = [i \in DOMAIN list |->
        [role |-> list[i], read |-> r[list[i]].read, write |-> r[list[i]].write]]
  BY DEF Dialogs!AsList, list, D
<1>6. \A i \in DOMAIN list :
        [role |-> list[i], read |-> r[list[i]].read, write |-> r[list[i]].write]
          \in Dialogs!Rights
  BY <1>1, <1>4 DEF Dialogs!Rights
<1>7. Len(list) \in Nat /\ DOMAIN list = 1..Len(list)
  BY <1>3
<1> QED
  BY <1>5, <1>6, <1>7

LEMMA RightsOfList ==
  ASSUME NEW list \in Seq(Dialogs!Rights)
  PROVE  Dialogs!Given(list) \in RightsOfSome
<1> DEFINE D == Dialogs!RolesOf(list)
           entry(r) == CHOOSE q \in Dialogs!ToSet(list) : q.role = r
<1>1. D \in SUBSET DialogRoles
  <2>1. \A i \in DOMAIN list : list[i] \in Dialogs!Rights
    OBVIOUS
  <2> QED
    BY <2>1 DEF Dialogs!RolesOf, Dialogs!Rights
<1>2. \A r \in D : entry(r) \in Dialogs!Rights
  BY DEF Dialogs!RolesOf, Dialogs!ToSet
<1>3. Dialogs!Given(list) = [r \in D |-> [read |-> entry(r).read, write |-> entry(r).write]]
  BY DEF Dialogs!Given
<1> HIDE DEF D, entry
<1>4. \A r \in D : [read |-> entry(r).read, write |-> entry(r).write]
                    \in [read : BOOLEAN, write : BOOLEAN]
  BY <1>2 DEF Dialogs!Rights
<1>5. Dialogs!Given(list) \in [D -> [read : BOOLEAN, write : BOOLEAN]]
  BY <1>3, <1>4
<1> QED
  BY <1>1, <1>5 DEF RightsOfSome

\* A list that arrives ends the wait for one.
LEMMA TakenOverFits ==
  ASSUME NEW d \in [open : BOOLEAN, permissions : Seq(Dialogs!Rights), blocking : BOOLEAN,
                    fetching : BOOLEAN, sent : Seq(Dialogs!Rights)],
         d.sent # <<>> => d.blocking,
         d.blocking => d.sent # <<>> \/ d.permissions = <<>>,
         d.permissions = <<>> => d.blocking /\ d.sent = <<>>,
         NEW store \in Seq(Dialogs!Rights), s4 \in RightsOfSome
  PROVE  s4' = s4 /\ s5' = store /\ s11' = Dialogs!DidUpdate(d, store) => AccessFits'
BY DEF Dialogs!DidUpdate, AccessFits, Dialogs!NoList

LEMMA ToggledRights ==
  ASSUME NEW list \in Seq(Dialogs!Rights), NEW role, NEW flag \in {"read", "write"}
  PROVE  /\ Dialogs!Toggled(list, role, flag) \in Seq(Dialogs!Rights)
         /\ Dialogs!Toggled(list, role, flag) = <<>> => list = <<>>
<1> DEFINE entry(i) == IF list[i].role = role THEN [list[i] EXCEPT ![flag] = ~@] ELSE list[i]
<1>1. Len(list) \in Nat /\ DOMAIN list = 1..Len(list)
  OBVIOUS
<1>2. \A i \in DOMAIN list : list[i] \in Dialogs!Rights
  OBVIOUS
<1>3. \A q \in Dialogs!Rights : [q EXCEPT ![flag] = ~@] \in Dialogs!Rights
  BY DEF Dialogs!Rights
<1>4. \A i \in DOMAIN list : entry(i) \in Dialogs!Rights
  BY <1>2, <1>3
<1>5. Dialogs!Toggled(list, role, flag) = [i \in DOMAIN list |-> entry(i)]
  BY DEF Dialogs!Toggled
<1> HIDE DEF entry
<1>6. Dialogs!Toggled(list, role, flag) \in Seq(Dialogs!Rights)
  BY <1>1, <1>4, <1>5
<1>7. Len(Dialogs!Toggled(list, role, flag)) = Len(list)
  BY <1>1, <1>5
<1> QED
  BY <1>6, <1>7

LEMMA AccessKeeps == ASSUME AccessFits, Dialogs!Access PROVE AccessFits'
<1>1. CASE Dialogs!OpenAccess \/ Dialogs!CloseAccess
  BY <1>1 DEF AccessFits, Dialogs!OpenAccess, Dialogs!CloseAccess, Dialogs!ToggleDialog
<1>2. CASE Dialogs!PermissionsFetched
  <2>1. s5' \in Seq(Dialogs!Rights) /\ s4' = s4 /\ s4 \in RightsOfSome
    BY <1>2, ListOfRights DEF AccessFits, Dialogs!PermissionsFetched
  <2>2. s11' = Dialogs!DidUpdate([s11 EXCEPT !.fetching = FALSE], s5')
    BY <1>2 DEF Dialogs!PermissionsFetched
  <2> DEFINE d == [s11 EXCEPT !.fetching = FALSE]
  <2>3. /\ d \in [open : BOOLEAN, permissions : Seq(Dialogs!Rights), blocking : BOOLEAN,
                  fetching : BOOLEAN, sent : Seq(Dialogs!Rights)]
        /\ d.sent = s11.sent /\ d.blocking = s11.blocking /\ d.permissions = s11.permissions
    BY DEF AccessFits
  <2> HIDE DEF d
  <2>4. s11' = Dialogs!DidUpdate(d, s5')
    BY <2>2 DEF d
  <2> QED
    BY <2>1, <2>3, <2>4, TakenOverFits DEF AccessFits
<1>3. CASE Dialogs!OnToggle
  <2>1. PICK p \in Dialogs!ToSet(s11.permissions), flag \in {"read", "write"} :
          s11' = [s11 EXCEPT !.permissions = Dialogs!Toggled(@, p.role, flag)]
    BY <1>3 DEF Dialogs!OnToggle
  <2> DEFINE toggled == Dialogs!Toggled(s11.permissions, p.role, flag)
  <2>2. /\ toggled \in Seq(Dialogs!Rights)
        /\ toggled = <<>> => s11.permissions = <<>>
    BY ToggledRights DEF AccessFits
  <2>3. s11' = [s11 EXCEPT !.permissions = toggled]
    BY <2>1
  <2> HIDE DEF toggled
  <2> QED
    BY <1>3, <2>2, <2>3 DEF AccessFits, Dialogs!OnToggle
<1>4. CASE Dialogs!AddPermission
  <2>1. PICK r \in DialogRoles :
          s11' = [s11 EXCEPT !.permissions =
                    Append(@, [role |-> r, read |-> TRUE, write |-> FALSE])]
    BY <1>4 DEF Dialogs!AddPermission
  <2> DEFINE longer == Append(s11.permissions, [role |-> r, read |-> TRUE, write |-> FALSE])
  <2>2. [role |-> r, read |-> TRUE, write |-> FALSE] \in Dialogs!Rights
    BY DEF Dialogs!Rights
  <2>3. longer \in Seq(Dialogs!Rights) /\ longer # <<>>
    BY <2>2 DEF AccessFits
  <2>4. s11' = [s11 EXCEPT !.permissions = longer]
    BY <2>1
  <2> HIDE DEF longer
  <2> QED
    BY <1>4, <2>3, <2>4 DEF AccessFits, Dialogs!AddPermission
<1>5. CASE Dialogs!SubmitAccess
  BY <1>5 DEF AccessFits, Dialogs!SubmitAccess
<1>6. CASE Dialogs!AccessAnswered
  <2>1. /\ s4' \in RightsOfSome /\ s5' \in Seq(Dialogs!Rights)
    BY <1>6, RightsOfList DEF AccessFits, Dialogs!AccessAnswered
  <2>2. PICK ok \in BOOLEAN :
          s11' = [(IF ok THEN Dialogs!ToggleDialog(s11) ELSE s11) EXCEPT
                    !.blocking = FALSE, !.sent = <<>>]
    BY <1>6 DEF Dialogs!AccessAnswered
  <2>3. /\ s11' \in [open : BOOLEAN, permissions : Seq(Dialogs!Rights), blocking : BOOLEAN,
                     fetching : BOOLEAN, sent : Seq(Dialogs!Rights)]
        /\ s11'.permissions = s11.permissions /\ ~s11'.blocking /\ s11'.sent = <<>>
    <3> DEFINE d == IF ok THEN Dialogs!ToggleDialog(s11) ELSE s11
    <3>1. /\ d \in [open : BOOLEAN, permissions : Seq(Dialogs!Rights), blocking : BOOLEAN,
                    fetching : BOOLEAN, sent : Seq(Dialogs!Rights)]
          /\ d.permissions = s11.permissions
      BY DEF AccessFits, Dialogs!ToggleDialog
    <3>2. <<>> \in Seq(Dialogs!Rights)
      OBVIOUS
    <3> HIDE DEF d
    <3>3. s11' = [d EXCEPT !.blocking = FALSE, !.sent = <<>>]
      BY <2>2 DEF d
    <3> QED
      BY <3>1, <3>2, <3>3
  <2>4. s11.permissions # <<>>
    BY <1>6 DEF AccessFits, Dialogs!AccessAnswered
  <2> QED
    BY <2>1, <2>3, <2>4 DEF AccessFits
<1> QED
  BY <1>1, <1>2, <1>3, <1>4, <1>5, <1>6 DEF Dialogs!Access

LEMMA DeletionKeeps == ASSUME DeleteFits, Dialogs!Delete PROVE DeleteFits'
BY DEF DeleteFits, Dialogs!Delete, Dialogs!ToggleDelete, Dialogs!ToggleDialog,
       Dialogs!TypeConfirmation, Dialogs!SubmitDelete, Dialogs!DeleteAnswered

LEMMA XrefKeeps == ASSUME XrefFits, Dialogs!Xref PROVE XrefFits'
BY DEF XrefFits, Dialogs!Xref, Dialogs!ToggleXref, Dialogs!ConfirmXref,
       Dialogs!XrefAnswered, Dialogs!ToggleDialog

LEMMA OutsideKeeps ==
  ASSUME EditFits, AccessFits, Dialogs!Outside
  PROVE  EditFits' /\ AccessFits'
<1>1. s2' \in Labels /\ s3' \in Labels /\ UNCHANGED <<s5, s6, s11>>
  BY DEF EditFits, Dialogs!Outside
<1>2. s4' \in RightsOfSome
  <2>1. PICK D \in SUBSET DialogRoles : s4 \in [D -> [read : BOOLEAN, write : BOOLEAN]]
    BY DEF AccessFits, RightsOfSome
  <2>2. s4' = s4 \/ \E r \in D : s4' = [s4 EXCEPT ![r].write = ~@]
    BY <2>1 DEF Dialogs!Outside
  <2>3. s4' \in [D -> [read : BOOLEAN, write : BOOLEAN]]
    BY <2>1, <2>2
  <2> QED
    BY <2>3 DEF RightsOfSome
<1> QED
  BY <1>1, <1>2 DEF EditFits, AccessFits

\* A step at another dialog.
LEMMA OthersStay ==
  /\ EditFits /\ s2' = s2 /\ s3' = s3 /\ s6' = s6 => EditFits'
  /\ SetEditFits /\ s7' = s7 => SetEditFits'
  /\ CreateFits /\ s8' = s8 /\ s9' = s9 /\ s10' = s10 => CreateFits'
  /\ AccessFits /\ s4' = s4 /\ s5' = s5 /\ s11' = s11 => AccessFits'
  /\ DeleteFits /\ s12' = s12 => DeleteFits'
  /\ XrefFits /\ s13' = s13 => XrefFits'
<1>1. EditFits /\ s2' = s2 /\ s3' = s3 /\ s6' = s6 => EditFits'
  BY DEF EditFits
<1>2. SetEditFits /\ s7' = s7 => SetEditFits'
  BY DEF SetEditFits
<1>3. CreateFits /\ s8' = s8 /\ s9' = s9 /\ s10' = s10 => CreateFits'
  BY DEF CreateFits
<1>4. AccessFits /\ s4' = s4 /\ s5' = s5 /\ s11' = s11 => AccessFits'
  BY DEF AccessFits
<1>5. DeleteFits /\ s12' = s12 => DeleteFits'
  BY DEF DeleteFits
<1>6. XrefFits /\ s13' = s13 => XrefFits'
  BY DEF XrefFits
<1> QED
  BY <1>1, <1>2, <1>3, <1>4, <1>5, <1>6

LEMMA DialogsStep == Dialogs!Inv /\ Dialogs!Next => Dialogs!Inv'
<1> SUFFICES ASSUME EditFits, SetEditFits, CreateFits, AccessFits, DeleteFits, XrefFits,
                    Dialogs!Steps
             PROVE  (/\ EditFits /\ SetEditFits /\ CreateFits
                     /\ AccessFits /\ DeleteFits /\ XrefFits)'
  BY DialogsParts, DialogsPartsNext, DialogsFit, DialogsFitNext DEF Dialogs!Next
<1>1. CASE Dialogs!Edit
  BY <1>1, EditKeeps, OthersStay DEF Dialogs!Edit
<1>2. CASE Dialogs!SetEdit
  BY <1>2, SetEditKeeps, OthersStay DEF Dialogs!SetEdit
<1>3. CASE Dialogs!Create
  BY <1>3, CreateKeeps, OthersStay DEF Dialogs!Create
<1>4. CASE Dialogs!Access
  BY <1>4, AccessKeeps, OthersStay DEF Dialogs!Access
<1>5. CASE Dialogs!Delete
  BY <1>5, DeletionKeeps, OthersStay DEF Dialogs!Delete
<1>6. CASE Dialogs!Xref
  BY <1>6, XrefKeeps, OthersStay DEF Dialogs!Xref
<1>7. CASE Dialogs!Outside
  BY <1>7, OutsideKeeps, OthersStay DEF Dialogs!Outside
<1> QED
  BY <1>1, <1>2, <1>3, <1>4, <1>5, <1>6, <1>7 DEF Dialogs!Steps

LEMMA DialogsStay ==
  ASSUME Dialogs!Inv, UNCHANGED vars
  PROVE  Dialogs!Inv'
<1>1. UNCHANGED <<s2, s3, s4, s5, s6, s7, s8, s9, s10, s11, s12, s13>>
  BY DEF vars
<1> QED
  BY <1>1, OthersStay, DialogsParts, DialogsPartsNext, DialogsFit, DialogsFitNext

LEMMA DialogsInit == Dialogs!Init => Dialogs!Inv
<1> SUFFICES ASSUME Dialogs!Init
             PROVE  /\ EditFits /\ SetEditFits /\ CreateFits
                    /\ AccessFits /\ DeleteFits /\ XrefFits
  BY DialogsParts, DialogsFit
<1>1. EditFits /\ SetEditFits
  BY DialogNames
  DEF Dialogs!Init, Dialogs!EditDialog, Dialogs!SetEditDialog, EditFits, SetEditFits
<1>2. CreateFits
  <2>1. /\ <<>> \in Seq(Dialogs!Rights) /\ Len(<<>>) = 0
    OBVIOUS
  <2>2. /\ s9 = 0 /\ s10 = Dialogs!SetCreateDialog
        /\ s8 = Dialogs!InvestigationDialog
    BY DEF Dialogs!Init
  <2>3. /\ s8 \in [open : BOOLEAN, label : Labels, roles : Seq(Dialogs!Rights),
                   suggested : SUBSET DialogRoles, blocking : BOOLEAN,
                   step : {Dialogs!None, "create", "share"}]
        /\ s8.roles = <<>> /\ s8.blocking = FALSE /\ s8.step = Dialogs!None
    BY <2>1, <2>2, DialogNames DEF Dialogs!InvestigationDialog
  <2>4. s10 \in [label : Labels \cup ImportedLabels \cup {""}, collection : 0..s9,
                 layout : BOOLEAN, processing : BOOLEAN, stored : BOOLEAN]
    <3>1. 0 \in 0..s9
      BY <2>2
    <3> QED
      BY <2>2, <3>1 DEF Dialogs!SetCreateDialog
  <2>5. Len(s8.roles) <= MaxRoles /\ s9 \in 0..MaxMade
    BY <2>1, <2>2, <2>3, DialogNames
  <2> QED
    BY <2>3, <2>4, <2>5 DEF CreateFits
<1>3. AccessFits
  <2>1. s5 \in Seq(Dialogs!Rights)
    <3>1. s5 \in {Dialogs!NoList, Dialogs!AsList(FirstRights)}
      BY DEF Dialogs!Init
    <3>2. Dialogs!AsList(FirstRights) \in Seq(Dialogs!Rights)
      BY ListOfRights, DialogNames
    <3>3. Dialogs!NoList \in Seq(Dialogs!Rights)
      BY DEF Dialogs!NoList
    <3> QED
      BY <3>1, <3>2, <3>3
  <2>2. Dialogs!AccessDialog \in
          [open : BOOLEAN, permissions : Seq(Dialogs!Rights), blocking : BOOLEAN,
           fetching : BOOLEAN, sent : Seq(Dialogs!Rights)]
    BY DEF Dialogs!AccessDialog
  <2>3. /\ Dialogs!AccessDialog.permissions = <<>> /\ Dialogs!AccessDialog.sent = <<>>
        /\ Dialogs!AccessDialog.blocking
    BY DEF Dialogs!AccessDialog
  <2>4. s11 = Dialogs!DidUpdate(Dialogs!AccessDialog, s5) /\ s4 = FirstRights
    BY DEF Dialogs!Init
  <2> QED
    BY <2>1, <2>2, <2>3, <2>4, DialogNames DEF AccessFits, Dialogs!DidUpdate, Dialogs!NoList
<1>4. DeleteFits /\ XrefFits
  BY DEF Dialogs!Init, Dialogs!DeleteDialog, Dialogs!XrefDialog, DeleteFits, XrefFits
<1> QED
  BY <1>1, <1>2, <1>3, <1>4

LEMMA DialogsShow == Dialogs!Inv => Dialogs!BlockedWhileWaiting /\ Dialogs!TypeOK
<1> SUFFICES ASSUME DialogsAll PROVE Dialogs!BlockedWhileWaiting /\ Dialogs!TypeOK
  BY DialogsParts
<1>1. \A list \in Seq(Dialogs!Rights) : Dialogs!ToSet(list) \subseteq Dialogs!Rights
  BY DEF Dialogs!ToSet
<1>2. Dialogs!TypesKept /\ Dialogs!BlockedWhileWaiting
  BY DEF DialogsAll
<1> QED
  <2>1. /\ s2 \in Labels /\ s3 \in Labels /\ s5 \in Seq(Dialogs!Rights)
        /\ s11.permissions \in Seq(Dialogs!Rights)
        /\ Len(s8.roles) <= MaxRoles /\ s10.collection \in 0..s9
    BY <1>2 DEF Dialogs!TypesKept
  <2>2. Dialogs!Form \in Labels
    BY <1>2 DEF Dialogs!TypesKept, Dialogs!Form
  <2>3. s9 <= MaxMade
    <3>1. s9 \in 0..MaxMade
      BY <1>2 DEF Dialogs!TypesKept
    <3> QED
      BY <3>1, DialogNames
  <2>4. Dialogs!ToSet(s5) \cup Dialogs!ToSet(s11.permissions) \subseteq Dialogs!Rights
    BY <1>1, <2>1
  <2> QED
    BY <1>2, <2>1, <2>2, <2>3, <2>4 DEF Dialogs!TypeOK

\* What is typed and is the present name was typed where it is shown.
LEMMA DialogsConfirm == Dialogs!Inv /\ Dialogs!Next => Dialogs!Confirms
<1> SUFFICES ASSUME DeleteFits, Dialogs!Steps, s12'.loading, ~s12.loading
             PROVE  s12.open /\ s12.field = s3
  BY DialogsParts, DialogsFit DEF Dialogs!Next, Dialogs!Confirms
<1>1. Dialogs!Delete
  BY DEF Dialogs!Steps, Dialogs!Edit, Dialogs!SetEdit, Dialogs!Create, Dialogs!Access,
         Dialogs!Xref, Dialogs!Outside
<1>2. Dialogs!SubmitDelete
  BY <1>1 DEF Dialogs!Delete, Dialogs!ToggleDelete, Dialogs!ToggleDialog,
              Dialogs!TypeConfirmation, Dialogs!DeleteAnswered, DeleteFits
<1> QED
  BY <1>2 DEF Dialogs!SubmitDelete, Dialogs!Enabled, DeleteFits

-----------------------------------------------------------------------------
(* Uploads                                                                  *)

UploadsAll ==
  Uploads!TypesKept /\ Uploads!LimitKept /\ Uploads!FoldersFirst /\ Uploads!Traced

LEMMA UploadsParts == Uploads!Inv <=> UploadsAll
BY DEF Uploads!Inv, UploadsAll

LEMMA UploadsPartsNext == Uploads!Inv' <=> UploadsAll'
BY UploadsParts, PTL

LEMMA UploadsCardinality == \A S : Uploads!Cardinality(S) = Cardinality(S)
BY DEF Uploads!Cardinality, Cardinality, Uploads!IsFiniteSet, IsFiniteSet

UploadNodes == Folders \cup UploadFiles

LEMMA UploadTypes ==
  /\ Uploads!Nodes = UploadNodes /\ IsFiniteSet(UploadNodes)
  /\ Root \notin UploadNodes /\ ParentOf \in [UploadNodes -> Folders \cup {Root}]
  /\ UploadConcurrencyLimit \in Nat /\ UploadConcurrencyLimit > 0
<1>1. IsFiniteSet(UploadNodes)
  BY UploadsAssumption, FS_Union DEF UploadNodes
<1> QED
  BY <1>1, UploadsAssumption DEF Uploads!Nodes, UploadNodes

States == {"none", "pending", "error", "success"}

\* The types of the upload and of the list.
UploadTyped ==
  /\ s2 \in BOOLEAN /\ s4 \subseteq s3 /\ s3 \subseteq UploadFiles
  /\ s5 \in [status : States, total : Nat]
  /\ s6 \in [UploadNodes -> States]
  /\ s7 \subseteq UploadNodes /\ s8 \subseteq UploadNodes /\ s9 \subseteq UploadNodes

ManagerTyped ==
  /\ s10 \subseteq Documents
  /\ s11 \in Seq(Documents) /\ s14 \in Seq(Documents)
  /\ s12 \in BOOLEAN /\ s13 \in BOOLEAN
  /\ s16 \in [open : BOOLEAN, blocking : BOOLEAN]

\* What is in flight or waits is pending, and nothing else is; the limit is
\* kept, and used while something waits.
FlowFits(trace, busy, ready) ==
  /\ Cardinality(busy) <= UploadConcurrencyLimit
  /\ ready # {} => Cardinality(busy) = UploadConcurrencyLimit
  /\ \A n \in UploadNodes : trace[n] = "pending" <=> n \in busy \cup ready

FlowHolds == FlowFits(s6, s7, s8)

\* Folders go first.
TreeFits(trace, stored) ==
  \A n \in UploadNodes :
    /\ trace[n] = "success" => n \in stored
    /\ n \in stored /\ ParentOf[n] # Root => ParentOf[n] \in stored
    /\ trace[n] # "none" /\ ParentOf[n] # Root => trace[ParentOf[n]] = "success"

TreeHolds == TreeFits(s6, s9)

\* Before it starts nothing is known, and when it is done nothing is in flight.
StatusHolds ==
  /\ s5.status = "none" => s5 = Uploads!NoMeta /\ s6 = Uploads!NoTrace
  /\ s5.status \in {"success", "error"} => s7 = {}

\* Of each folder that was made the content was sent.
SentFits(trace, tree) ==
  \A n \in tree : ParentOf[n] = Root \/ trace[ParentOf[n]] = "success" => trace[n] # "none"

SentHolds == s5 # Uploads!NoMeta => SentFits(s6, Uploads!Tree)

Apart == s7 \cap s8 = {}

UploadHolds == UploadTyped /\ Apart /\ FlowHolds /\ TreeHolds /\ StatusHolds /\ SentHolds

LEMMA UploadsFit == UploadsAll <=> UploadHolds /\ ManagerTyped
<1>1. Uploads!TypesKept <=> UploadTyped /\ ManagerTyped
  BY UploadTypes DEF Uploads!TypesKept, UploadTyped, ManagerTyped, States
<1>2. Uploads!LimitKept <=> FlowHolds
  BY UploadTypes, UploadsCardinality DEF Uploads!LimitKept, FlowHolds, FlowFits
<1>3. Uploads!FoldersFirst /\ Uploads!Traced <=> Apart /\ TreeHolds /\ StatusHolds /\ SentHolds
  BY UploadTypes
  DEF Uploads!FoldersFirst, Uploads!Traced, Apart, TreeHolds, TreeFits, StatusHolds, SentHolds, SentFits
<1> QED
  BY <1>1, <1>2, <1>3 DEF UploadsAll, UploadHolds

LEMMA UploadsFitNext == UploadsAll' <=> UploadHolds' /\ ManagerTyped'
BY UploadsFit, PTL

\* Of what can start as much starts as the limit allows.
LEMMA StartsFit ==
  ASSUME NEW busy \in SUBSET UploadNodes, NEW ready \in SUBSET UploadNodes,
         Cardinality(busy) < UploadConcurrencyLimit,
         busy \cap ready = {}, Uploads!StartWaiting(busy, ready)
  PROVE  /\ s7' \cup s8' = busy \cup ready /\ s7' \cap s8' = {}
         /\ Cardinality(s7') <= UploadConcurrencyLimit
         /\ s8' # {} => Cardinality(s7') = UploadConcurrencyLimit
<1> DEFINE limit == UploadConcurrencyLimit
           b == Cardinality(busy)
           r == Cardinality(ready)
           n == IF r < limit - b THEN r ELSE limit - b
<1>1. IsFiniteSet(busy) /\ IsFiniteSet(ready)
  BY UploadTypes, FS_Subset
<1>2. b \in Nat /\ r \in Nat /\ limit \in Nat /\ b < limit
  BY <1>1, UploadTypes, FS_CardinalityType
<1>3. PICK started \in SUBSET ready :
        Cardinality(started) = n /\ s7' = busy \cup started /\ s8' = ready \ started
  BY UploadsCardinality DEF Uploads!StartWaiting
<1>4. IsFiniteSet(started) /\ busy \cap started = {}
  BY <1>1, FS_Subset
<1>5. Cardinality(s7') = b + Cardinality(started)
  <2>1. Cardinality(busy \cup started)
          = Cardinality(busy) + Cardinality(started) - Cardinality(busy \cap started)
    BY <1>1, <1>4, FS_Union
  <2>2. Cardinality(busy \cap started) = 0
    BY <1>4, FS_EmptySet
  <2>3. Cardinality(started) \in Nat
    BY <1>4, FS_CardinalityType
  <2> QED
    BY <1>2, <1>3, <2>1, <2>2, <2>3
<1>6. s8' # {} => Cardinality(started) < r
  <2>1. started # ready => Cardinality(started) # Cardinality(ready)
    BY <1>1, FS_Subset
  <2>2. Cardinality(started) <= Cardinality(ready) /\ Cardinality(started) \in Nat
    BY <1>1, <1>4, FS_Subset, FS_CardinalityType
  <2> QED
    BY <1>2, <1>3, <2>1, <2>2
<1> HIDE DEF b, r, limit
<1>7. b + Cardinality(started) <= limit /\ (s8' # {} => b + Cardinality(started) = limit)
  BY <1>2, <1>3, <1>6
<1> QED
  BY <1>3, <1>5, <1>7 DEF limit

LEMMA IngestFits ==
  ASSUME NEW busy \in SUBSET UploadNodes, NEW ready \in SUBSET UploadNodes,
         Cardinality(busy) <= UploadConcurrencyLimit,
         busy \cap ready = {}, Uploads!DoTracedIngest(busy, ready)
  PROVE  /\ s7' \cup s8' = busy \cup ready /\ s7' \cap s8' = {}
         /\ Cardinality(s7') <= UploadConcurrencyLimit
         /\ s8' # {} => Cardinality(s7') = UploadConcurrencyLimit
<1>1. Cardinality(busy) \in Nat /\ UploadConcurrencyLimit \in Nat
  BY UploadTypes, FS_Subset, FS_CardinalityType
<1>2. CASE Cardinality(busy) < UploadConcurrencyLimit
  BY <1>2, StartsFit, UploadsCardinality DEF Uploads!DoTracedIngest
<1>3. CASE ~(Cardinality(busy) < UploadConcurrencyLimit)
  <2>1. s7' = busy /\ s8' = ready
    BY <1>3, UploadsCardinality DEF Uploads!DoTracedIngest
  <2> QED
    BY <1>1, <1>3, <2>1
<1> QED
  BY <1>2, <1>3

\* While something waits something is in flight.
LEMMA NoneInFlight ==
  ASSUME UploadTyped, FlowHolds, s7 = {}
  PROVE  s8 = {} /\ \A n \in UploadNodes : s6[n] # "pending"
<1>1. Cardinality(s7) = 0
  BY FS_EmptySet
<1>2. s8 = {}
  BY <1>1, UploadTypes DEF FlowHolds, FlowFits
<1> QED
  BY <1>2 DEF FlowHolds, FlowFits

LEMMA NothingCardinality == Cardinality({}) = 0 /\ IsFiniteSet({})
BY FS_EmptySet

-----------------------------------------------------------------------------
(* The steps of an upload *)

\* Before it starts there is nothing in flight.
LEMMA NotStarted ==
  ASSUME UploadHolds, s5 = Uploads!NoMeta
  PROVE  s6 = Uploads!NoTrace /\ s7 = {} /\ s8 = {}
<1>1. s6 = Uploads!NoTrace
  BY DEF UploadHolds, StatusHolds, Uploads!NoMeta
<1>2. \A n \in UploadNodes : s6[n] = "none"
  BY <1>1, UploadTypes DEF Uploads!NoTrace
<1>3. s7 = {} /\ s8 = {}
  BY <1>2 DEF UploadHolds, UploadTyped, FlowHolds, FlowFits
<1> QED
  BY <1>1, <1>3

LEMMA ChooseKeeps ==
  ASSUME UploadHolds, Uploads!OnFilesChange \/ Uploads!ToggleFile
  PROVE  UploadHolds'
<1>1. /\ s5 = Uploads!NoMeta /\ UNCHANGED <<s2, s5, s6, s7, s8, s9>>
      /\ s4' \subseteq s3' /\ s3' \subseteq UploadFiles
  BY DEF Uploads!OnFilesChange, Uploads!ToggleFile, Uploads!ViewShown, UploadHolds, UploadTyped
<1> QED
  BY <1>1 DEF UploadHolds, UploadTyped, Apart, FlowHolds, TreeHolds, StatusHolds, SentHolds

LEMMA TreeOfNodes ==
  ASSUME UploadTyped
  PROVE  Uploads!Tree \subseteq UploadNodes
BY DEF UploadTyped, Uploads!Tree, Uploads!Ancestors, UploadNodes

LEMMA SubmitFilesKeeps ==
  ASSUME UploadHolds, Uploads!OnFormSubmit
  PROVE  UploadHolds'
<1> DEFINE kids == Uploads!Children(Root)
<1>1. /\ s6 = Uploads!NoTrace /\ s7 = {} /\ s8 = {}
  BY NotStarted DEF Uploads!OnFormSubmit, Uploads!ViewShown
<1>2. kids \subseteq UploadNodes /\ \A n \in kids : ParentOf[n] = Root
  BY TreeOfNodes DEF UploadHolds, Uploads!Children
<1>3. Uploads!Tree' = Uploads!Tree /\ UNCHANGED <<s2, s3, s4, s9>>
  BY DEF Uploads!OnFormSubmit, Uploads!Tree
<1>4. \A n \in UploadNodes : s6'[n] = IF n \in kids THEN "pending" ELSE "none"
  BY <1>1, UploadTypes DEF Uploads!OnFormSubmit, Uploads!SetTraces, Uploads!NoTrace
<1>5. s6' \in [UploadNodes -> States]
  BY <1>1, UploadTypes DEF Uploads!OnFormSubmit, Uploads!SetTraces, Uploads!NoTrace, States
<1> HIDE DEF kids
<1>6. /\ s7' \cup s8' = kids /\ s7' \cap s8' = {}
      /\ Cardinality(s7') <= UploadConcurrencyLimit
      /\ s8' # {} => Cardinality(s7') = UploadConcurrencyLimit
  <2>1. Uploads!DoTracedIngest({}, kids)
    BY DEF Uploads!OnFormSubmit, kids
  <2> QED
    BY <1>2, <2>1, IngestFits, NothingCardinality, UploadTypes
<1>7. s5' \in [status : States, total : Nat] /\ s5'.status \in {"pending", "error"}
  <2>1. s5' = [status |-> IF s4 = {} THEN "error" ELSE "pending", total |-> Cardinality(s4)]
    BY UploadsCardinality DEF Uploads!OnFormSubmit
  <2>2. Cardinality(s4) \in Nat
    <3>1. s4 \subseteq UploadNodes
      BY DEF UploadHolds, UploadTyped, UploadNodes
    <3> QED
      BY <3>1, UploadTypes, FS_Subset, FS_CardinalityType
  <2> QED
    BY <2>1, <2>2 DEF States
<1>8. s5'.status = "error" => s7' = {}
  <2> SUFFICES ASSUME s4 = {} PROVE kids = {}
    BY <1>6 DEF Uploads!OnFormSubmit
  <2> QED
    BY DEF kids, Uploads!Children, Uploads!Tree
<1>9. UploadTyped'
  BY <1>2, <1>3, <1>5, <1>6, <1>7 DEF UploadHolds, UploadTyped
<1>10. FlowHolds'
  BY <1>4, <1>6 DEF FlowHolds, FlowFits
<1>11. TreeHolds'
  <2>1. \A n \in UploadNodes : /\ n \in s9 /\ ParentOf[n] # Root => ParentOf[n] \in s9
                               /\ s6'[n] # "success"
                               /\ s6'[n] # "none" => ParentOf[n] = Root
    BY <1>2, <1>4 DEF UploadHolds, TreeHolds, TreeFits
  <2> QED
    BY <1>3, <2>1 DEF TreeHolds, TreeFits
<1>12. StatusHolds'
  BY <1>7, <1>8 DEF StatusHolds
<1>13. SentHolds'
  <2>1. SentFits(s6', Uploads!Tree)
    <3> SUFFICES ASSUME NEW n \in Uploads!Tree,
                        ParentOf[n] = Root \/ s6'[ParentOf[n]] = "success"
                 PROVE  s6'[n] # "none"
      BY DEF SentFits
    <3>1. n \in UploadNodes /\ ParentOf[n] \in UploadNodes \cup {Root}
      BY TreeOfNodes, UploadTypes DEF UploadHolds, UploadNodes
    <3>2. ParentOf[n] = Root
      BY <1>4, <3>1
    <3>3. n \in kids
      BY <3>2 DEF kids, Uploads!Children
    <3> QED
      BY <1>4, <3>1, <3>3
  <2> QED
    BY <1>3, <2>1 DEF SentHolds
<1> QED
  BY <1>6, <1>9, <1>10, <1>11, <1>12, <1>13 DEF UploadHolds, Apart

LEMMA RetryKeeps ==
  ASSUME UploadHolds, Uploads!OnRetry
  PROVE  UploadHolds'
<1> DEFINE failed == {n \in UploadNodes : s6[n] = "error"}
<1>1. /\ s7 = {} /\ s8 = {} /\ \A n \in UploadNodes : s6[n] # "pending"
  BY NoneInFlight DEF Uploads!OnRetry, Uploads!RetryOffered, UploadHolds, StatusHolds
<1>2. failed \subseteq UploadNodes
  OBVIOUS
<1>3. Uploads!Tree' = Uploads!Tree /\ UNCHANGED <<s2, s3, s4, s9>>
  BY DEF Uploads!OnRetry, Uploads!Tree
<1>4. \A n \in UploadNodes : s6'[n] = IF n \in failed THEN "pending" ELSE s6[n]
  BY UploadTypes DEF Uploads!OnRetry, Uploads!SetTraces
<1>5. s6' \in [UploadNodes -> States]
  <2>1. s6 \in [UploadNodes -> States]
    BY DEF UploadHolds, UploadTyped
  <2> QED
    BY <2>1, UploadTypes DEF Uploads!OnRetry, Uploads!SetTraces, States
<1>6. /\ s7' \cup s8' = failed /\ s7' \cap s8' = {}
      /\ Cardinality(s7') <= UploadConcurrencyLimit
      /\ s8' # {} => Cardinality(s7') = UploadConcurrencyLimit
  <2>1. Uploads!DoTracedIngest({}, failed)
    BY UploadTypes DEF Uploads!OnRetry
  <2> HIDE DEF failed
  <2> QED
    BY <1>2, <2>1, IngestFits, NothingCardinality, UploadTypes
<1>7. s5' \in [status : States, total : Nat] /\ s5'.status = "pending"
  BY DEF Uploads!OnRetry, UploadHolds, UploadTyped, States
<1>8. \A n \in failed : s6[n] = "error"
  OBVIOUS
<1> HIDE DEF failed
<1>9. UploadTyped'
  BY <1>2, <1>3, <1>5, <1>6, <1>7 DEF UploadHolds, UploadTyped
<1>10. FlowHolds'
  BY <1>1, <1>4, <1>6 DEF FlowHolds, FlowFits
<1>11. \A n \in UploadNodes : /\ s6'[n] = "success" <=> s6[n] = "success"
                              /\ s6'[n] = "none" <=> s6[n] = "none"
  BY <1>4, <1>8
<1>12. \A n \in UploadNodes : ParentOf[n] = Root \/ ParentOf[n] \in UploadNodes
  BY UploadTypes DEF UploadNodes
<1>13. TreeHolds'
  BY <1>3, <1>11, <1>12 DEF UploadHolds, TreeHolds, TreeFits
<1>14. StatusHolds'
  BY <1>7 DEF StatusHolds
<1>15. SentHolds'
  <2>1. s5 # Uploads!NoMeta
    BY DEF Uploads!OnRetry, Uploads!RetryOffered, Uploads!NoMeta
  <2>2. SentFits(s6, Uploads!Tree) /\ Uploads!Tree \subseteq UploadNodes
    BY <2>1, TreeOfNodes DEF UploadHolds, SentHolds
  <2>3. SentFits(s6', Uploads!Tree)
    BY <1>11, <1>12, <2>2 DEF SentFits
  <2> QED
    BY <1>3, <2>3 DEF SentHolds
<1> QED
  BY <1>6, <1>9, <1>10, <1>13, <1>14, <1>15 DEF UploadHolds, Apart

LEMMA CloseKeeps ==
  ASSUME UploadHolds, Uploads!OnClose
  PROVE  UploadHolds'
<1>1. /\ s3' = {} /\ s4' = {} /\ s5' = Uploads!NoMeta /\ s6' = Uploads!NoTrace
      /\ s7' = {} /\ s8' = {} /\ s2' \in BOOLEAN
  BY DEF Uploads!OnClose, Uploads!Reopened
<1>2. PICK arrived \in SUBSET s7 : s9' = s9 \cup arrived
  <2>1. CASE s5.status = "pending"
    BY <2>1 DEF Uploads!OnClose
  <2>2. CASE s5.status # "pending"
    BY <2>2 DEF Uploads!OnClose
  <2> QED
    BY <2>1, <2>2
<1>3. \A n \in UploadNodes : s6'[n] = "none"
  BY <1>1, UploadTypes DEF Uploads!NoTrace
<1>4. UploadTyped'
  <2>1. Uploads!NoTrace \in [UploadNodes -> States]
    BY UploadTypes DEF Uploads!NoTrace, States
  <2>2. Uploads!NoMeta \in [status : States, total : Nat]
    BY DEF Uploads!NoMeta, States
  <2>3. s9' \subseteq UploadNodes
    BY <1>2 DEF UploadHolds, UploadTyped
  <2> QED
    BY <1>1, <2>1, <2>2, <2>3 DEF UploadTyped
<1>5. FlowHolds'
  BY <1>1, <1>3, NothingCardinality, UploadTypes DEF FlowHolds, FlowFits
<1>6. TreeHolds'
  <2> SUFFICES ASSUME NEW n \in UploadNodes, n \in s9', ParentOf[n] # Root
               PROVE  ParentOf[n] \in s9'
    BY <1>3 DEF TreeHolds, TreeFits
  <2>1. ParentOf[n] \in UploadNodes
    BY UploadTypes DEF UploadNodes
  <2>2. n \in s9 \/ s6[n] = "pending"
    BY <1>2 DEF UploadHolds, FlowHolds, FlowFits
  <2>3. ParentOf[n] \in s9
    BY <2>1, <2>2 DEF UploadHolds, TreeHolds, TreeFits
  <2> QED
    BY <1>2, <2>3
<1>7. StatusHolds' /\ SentHolds'
  BY <1>1 DEF StatusHolds, SentHolds, Uploads!NoMeta
<1> QED
  BY <1>1, <1>4, <1>5, <1>6, <1>7 DEF UploadHolds, Apart

\* Nothing of what follows an answer is in flight or was sent before.
LEMMA ContentNew ==
  ASSUME UploadHolds, NEW n \in s7, NEW ok \in BOOLEAN
  PROVE  LET more == Uploads!Content(n, ok)
         IN /\ more \subseteq UploadNodes /\ n \notin more
            /\ \A c \in more : s6[c] = "none" /\ ok /\ ParentOf[c] = n /\ c \in Uploads!Tree
            /\ more \cap (s7 \cup s8) = {}
<1> DEFINE more == Uploads!Content(n, ok)
<1>1. n \in UploadNodes /\ s6[n] = "pending"
  BY DEF UploadHolds, UploadTyped, FlowHolds, FlowFits
<1>2. \A c \in more : ok /\ c \in UploadNodes /\ ParentOf[c] = n /\ c \in Uploads!Tree
  BY TreeOfNodes DEF Uploads!Content, Uploads!Children, UploadHolds
<1>3. n # Root
  BY <1>1, UploadTypes
<1>4. \A c \in more : s6[c] = "none"
  BY <1>1, <1>2, <1>3 DEF UploadHolds, TreeHolds, TreeFits
<1>5. more \cap (s7 \cup s8) = {}
  BY <1>2, <1>4 DEF UploadHolds, FlowHolds, FlowFits
<1> QED
  BY <1>1, <1>2, <1>4, <1>5

LEMMA AnswerKeeps ==
  ASSUME UploadHolds, NEW n \in s7, NEW ok \in BOOLEAN, NEW more \in SUBSET UploadNodes,
         more = Uploads!Content(n, ok),
         s6' = [t \in UploadNodes |-> IF t = n THEN (IF ok THEN "success" ELSE "error")
                                      ELSE IF t \in more THEN "pending" ELSE s6[t]],
         Uploads!DoTracedIngest(s7 \ {n}, s8 \cup more),
         Uploads!OnUploadDone,
         s9' = s9 \cup {n} \/ (~ok /\ s9' = s9),
         UNCHANGED <<s2, s3, s4>>
  PROVE  UploadHolds'
<1>1. /\ n \notin more /\ more \cap (s7 \cup s8) = {}
      /\ \A c \in more : s6[c] = "none" /\ ok /\ ParentOf[c] = n /\ c \in Uploads!Tree
  BY ContentNew
<1>2. /\ n \in UploadNodes /\ s6[n] = "pending" /\ IsFiniteSet(s7)
      /\ s7 \subseteq UploadNodes /\ s8 \subseteq UploadNodes /\ s7 \cap s8 = {}
  <2>1. /\ n \in UploadNodes /\ s6[n] = "pending"
        /\ s7 \subseteq UploadNodes /\ s8 \subseteq UploadNodes
    BY DEF UploadHolds, UploadTyped, FlowHolds, FlowFits
  <2>2. IsFiniteSet(s7)
    BY <2>1, UploadTypes, FS_Subset
  <2> QED
    BY <2>1, <2>2 DEF UploadHolds, Apart
<1>3. s5.status = "pending"
  <2>1. s5.status \in States
    BY DEF UploadHolds, UploadTyped
  <2>2. s5.status # "none"
    BY <1>2, UploadTypes DEF UploadHolds, StatusHolds, Uploads!NoTrace
  <2>3. s5.status \notin {"success", "error"}
    BY DEF UploadHolds, StatusHolds
  <2> QED
    BY <2>1, <2>2, <2>3 DEF States
<1>4. /\ s7' \cup s8' = (s7 \ {n}) \cup s8 \cup more /\ s7' \cap s8' = {}
      /\ Cardinality(s7') <= UploadConcurrencyLimit
      /\ s8' # {} => Cardinality(s7') = UploadConcurrencyLimit
  <2> DEFINE busy == s7 \ {n}
             ready == s8 \cup more
  <2>1. Cardinality(busy) <= Cardinality(s7) /\ Cardinality(busy) \in Nat /\ Cardinality(s7) \in Nat
    BY <1>2, FS_Subset, FS_CardinalityType
  <2>2. Cardinality(busy) <= UploadConcurrencyLimit
    BY <2>1, UploadTypes DEF UploadHolds, FlowHolds, FlowFits
  <2>3. busy \in SUBSET UploadNodes /\ ready \in SUBSET UploadNodes /\ busy \cap ready = {}
    BY <1>1, <1>2
  <2>4. Uploads!DoTracedIngest(busy, ready)
    OBVIOUS
  <2> HIDE DEF busy, ready
  <2>5. /\ s7' \cup s8' = busy \cup ready /\ s7' \cap s8' = {}
        /\ Cardinality(s7') <= UploadConcurrencyLimit
        /\ s8' # {} => Cardinality(s7') = UploadConcurrencyLimit
    BY <2>2, <2>3, <2>4, IngestFits
  <2> QED
    BY <2>5 DEF busy, ready
<1>5. s5' \in [status : States, total : Nat] /\ s5'.status \in {"pending", "success", "error"}
      /\ (s5'.status \in {"success", "error"} => s7' = {})
  <2>1. CASE s7' # {}
    BY <1>3, <2>1 DEF Uploads!OnUploadDone, UploadHolds, UploadTyped
  <2>2. CASE s7' = {}
    <3>1. PICK status \in {"success", "error"} : s5' = [s5 EXCEPT !.status = status]
      BY <2>2 DEF Uploads!OnUploadDone
    <3> QED
      BY <2>2, <3>1 DEF UploadHolds, UploadTyped, States
  <2> QED
    BY <2>1, <2>2
<1>6. Uploads!Tree' = Uploads!Tree
  BY DEF Uploads!Tree
<1>7. \A t \in UploadNodes :
        s6'[t] = IF t = n THEN (IF ok THEN "success" ELSE "error")
                 ELSE IF t \in more THEN "pending" ELSE s6[t]
  OBVIOUS
<1>8. s6' \in [UploadNodes -> States]
  BY DEF UploadHolds, UploadTyped, States
<1>9. UploadTyped'
  <2>1. s7' \subseteq UploadNodes /\ s8' \subseteq UploadNodes
    BY <1>2, <1>4
  <2>2. s9' \subseteq UploadNodes
    BY <1>2 DEF UploadHolds, UploadTyped
  <2> QED
    BY <1>5, <1>8, <2>1, <2>2 DEF UploadHolds, UploadTyped
<1>10. FlowHolds'
  <2>1. \A t \in UploadNodes : s6'[t] = "pending" <=> t \in s7' \cup s8'
    BY <1>1, <1>2, <1>4, <1>7 DEF UploadHolds, FlowHolds, FlowFits
  <2> QED
    BY <1>4, <2>1 DEF FlowHolds, FlowFits
<1>11. \A t \in UploadNodes : s6[t] = "success" => t # n /\ t \notin more /\ s6'[t] = "success"
  BY <1>1, <1>2, <1>7
<1>12. \A t \in UploadNodes : ParentOf[t] = Root \/ ParentOf[t] \in UploadNodes
  BY UploadTypes DEF UploadNodes
<1>13. TreeHolds'
  <2>1. ASSUME NEW t \in UploadNodes, s6'[t] = "success" PROVE t \in s9'
    BY <1>7, <2>1 DEF UploadHolds, TreeHolds, TreeFits
  <2>2. ASSUME NEW t \in UploadNodes, t \in s9', ParentOf[t] # Root
        PROVE  ParentOf[t] \in s9'
    <3>1. t \in s9 \/ s6[t] = "pending"
      BY <1>2, <2>2
    <3>2. ParentOf[t] \in s9
      BY <1>12, <2>2, <3>1 DEF UploadHolds, TreeHolds, TreeFits
    <3> QED
      BY <3>2
  <2>3. ASSUME NEW t \in UploadNodes, s6'[t] # "none", ParentOf[t] # Root
        PROVE  s6'[ParentOf[t]] = "success"
    <3>1. CASE t \in more
      BY <1>1, <1>2, <1>7, <3>1
    <3>2. CASE t \notin more
      <4>1. s6[t] # "none"
        BY <1>2, <1>7, <2>3, <3>2
      <4>2. s6[ParentOf[t]] = "success" /\ ParentOf[t] \in UploadNodes
        BY <1>12, <2>3, <4>1 DEF UploadHolds, TreeHolds, TreeFits
      <4> QED
        BY <1>11, <4>2
    <3> QED
      BY <3>1, <3>2
  <2> QED
    BY <2>1, <2>2, <2>3 DEF TreeHolds, TreeFits
<1>14. SentFits(s6', Uploads!Tree)
  <2> SUFFICES ASSUME NEW t \in Uploads!Tree,
                      ParentOf[t] = Root \/ s6'[ParentOf[t]] = "success"
               PROVE  s6'[t] # "none"
    BY DEF SentFits
  <2>1. t \in UploadNodes
    BY TreeOfNodes DEF UploadHolds
  <2>2. SentFits(s6, Uploads!Tree)
    BY <1>3 DEF UploadHolds, SentHolds, Uploads!NoMeta
  <2>3. CASE ParentOf[t] = n
    <3>1. n # Root /\ n \in Folders
      BY <1>2, <2>1, <2>3, UploadTypes
    <3>2. ok
      BY <1>2, <1>7, <2>3, <3>1
    <3>3. t \in more
      BY <2>3, <3>1, <3>2 DEF Uploads!Content, Uploads!Children
    <3> QED
      BY <1>7, <2>1, <3>3
  <2>4. CASE ParentOf[t] # n
    <3>1. ParentOf[t] = Root \/ s6[ParentOf[t]] = "success"
      BY <1>7, <1>12, <2>1, <2>4
    <3>2. s6[t] # "none"
      BY <2>2, <3>1 DEF SentFits
    <3> QED
      BY <1>7, <2>1, <3>2
  <2> QED
    BY <2>3, <2>4
<1>15. StatusHolds' /\ SentHolds'
  BY <1>5, <1>6, <1>14 DEF StatusHolds, SentHolds
<1> QED
  BY <1>4, <1>9, <1>10, <1>13, <1>15 DEF UploadHolds, Apart

LEMMA UploadKeeps ==
  ASSUME UploadHolds, Uploads!Upload
  PROVE  UploadHolds'
<1>1. ASSUME Uploads!Answered PROVE UploadHolds'
  <2>1. PICK n \in s7, ok \in BOOLEAN :
          /\ s6' = [t \in Uploads!Nodes |->
                      IF t = n THEN (IF ok THEN "success" ELSE "error")
                      ELSE IF t \in Uploads!Content(n, ok) THEN "pending" ELSE s6[t]]
          /\ Uploads!DoTracedIngest(s7 \ {n}, s8 \cup Uploads!Content(n, ok))
          /\ Uploads!OnUploadDone
          /\ s9' = s9 \cup {n} \/ (~ok /\ s9' = s9)
          /\ UNCHANGED <<s2, s3, s4>>
    BY <1>1 DEF Uploads!Answered
  <2> DEFINE more == Uploads!Content(n, ok)
  <2>2. more \in SUBSET UploadNodes
    BY ContentNew
  <2>3. /\ s6' = [t \in UploadNodes |->
                    IF t = n THEN (IF ok THEN "success" ELSE "error")
                    ELSE IF t \in more THEN "pending" ELSE s6[t]]
        /\ Uploads!DoTracedIngest(s7 \ {n}, s8 \cup more)
    BY <2>1, UploadTypes
  <2>4. more = Uploads!Content(n, ok)
    OBVIOUS
  <2> HIDE DEF more
  <2> QED
    BY <2>1, <2>2, <2>3, <2>4, AnswerKeeps
<1> QED
  BY <1>1, ChooseKeeps, SubmitFilesKeeps, RetryKeeps, CloseKeeps DEF Uploads!Upload

-----------------------------------------------------------------------------
(* The list of documents *)

LEMMA UploadsFiltered == \A s, S : Uploads!Filtered(s, S) = Filtered(s, S)
BY DEF Uploads!Filtered, Filtered, Uploads!Positions, Positions, Uploads!Rank, Rank,
       Uploads!Cardinality, Cardinality, Uploads!IsFiniteSet, IsFiniteSet

LEMMA SelectionKeeps ==
  ASSUME ManagerTyped, Uploads!UpdateSelection
  PROVE  ManagerTyped'
<1>1. PICK d \in s10 : s11' = IF d \in Uploads!ToSet(s11) THEN Uploads!Filtered(s11, Documents \ {d})
                             ELSE Append(s11, d)
  BY DEF Uploads!UpdateSelection
<1>2. s11 \in Seq(Documents) /\ d \in Documents
  BY DEF ManagerTyped
<1>3. Uploads!Filtered(s11, Documents \ {d}) \in Seq(Documents)
  BY <1>2, FilteredShorter, UploadsFiltered
<1>4. Append(s11, d) \in Seq(Documents)
  BY <1>2
<1>5. s11' \in Seq(Documents)
  BY <1>1, <1>3, <1>4
<1> QED
  BY <1>5 DEF ManagerTyped, Uploads!UpdateSelection

LEMMA DeletingKeeps ==
  ASSUME ManagerTyped,
         Uploads!OpenDelete \/ Uploads!CancelDelete \/ Uploads!OnDelete \/ Uploads!DeleteAnswered
  PROVE  ManagerTyped'
<1>1. <<>> \in Seq(Documents)
  OBVIOUS
<1>2. CASE Uploads!OpenDelete \/ Uploads!CancelDelete
  <2>1. s11' \in Seq(Documents) /\ s12' \in BOOLEAN /\ UNCHANGED <<s10, s13, s14, s16>>
    BY <1>1, <1>2
    DEF Uploads!OpenDelete, Uploads!CancelDelete, Uploads!Toggle, ManagerTyped
  <2> QED
    BY <2>1 DEF ManagerTyped
<1>3. CASE Uploads!OnDelete
  <2>1. /\ s11' \in Seq(Documents) /\ s12' \in BOOLEAN /\ s13' \in BOOLEAN
        /\ s14' \in Seq(Documents) /\ UNCHANGED <<s10, s16>>
    BY <1>1, <1>3 DEF Uploads!OnDelete, Uploads!Toggle, ManagerTyped
  <2> QED
    BY <2>1 DEF ManagerTyped
<1>4. CASE Uploads!DeleteAnswered
  <2>1. PICK ok \in BOOLEAN : /\ s10' = IF ok THEN s10 \ {Head(s14)} ELSE s10
                              /\ Uploads!Continue(ok)
    BY <1>4 DEF Uploads!DeleteAnswered
  <2>2. s14' \in Seq(Documents)
    <3>1. s14' = <<>> \/ (Len(s14) > 1 /\ s14' = Tail(s14))
      BY <2>1 DEF Uploads!Continue
    <3>2. s14 \in Seq(Documents)
      BY DEF ManagerTyped
    <3>3. Len(s14) > 1 => Tail(s14) \in Seq(Documents)
      BY <3>2
    <3> QED
      BY <1>1, <3>1, <3>3
  <2>3. s11' \in Seq(Documents) /\ s12' \in BOOLEAN /\ s13' \in BOOLEAN
    BY <1>1, <2>1 DEF Uploads!Continue, Uploads!Toggle, ManagerTyped
  <2>4. s10' \subseteq Documents /\ s16' = s16
    BY <1>4, <2>1 DEF Uploads!DeleteAnswered, ManagerTyped
  <2> QED
    BY <2>2, <2>3, <2>4 DEF ManagerTyped
<1> QED
  BY <1>2, <1>3, <1>4

LEMMA FolderKeeps ==
  ASSUME ManagerTyped,
         \/ Uploads!OpenFolder \/ Uploads!SubmitFolder
         \/ Uploads!CloseFolder \/ Uploads!FolderAnswered
  PROVE  ManagerTyped'
<1>1. <<>> \in Seq(Documents)
  OBVIOUS
<1>2. /\ s16' \in [open : BOOLEAN, blocking : BOOLEAN] /\ s10' \subseteq Documents
      /\ s11' \in Seq(Documents) /\ s14' \in Seq(Documents)
      /\ s12' \in BOOLEAN /\ s13' \in BOOLEAN
  <2>1. CASE Uploads!OpenFolder \/ Uploads!SubmitFolder \/ Uploads!CloseFolder
    BY <2>1 DEF Uploads!OpenFolder, Uploads!SubmitFolder, Uploads!CloseFolder, ManagerTyped
  <2>2. CASE Uploads!FolderAnswered
    <3>1. CASE s16' = [s16 EXCEPT !.blocking = FALSE] /\ UNCHANGED <<s10, s11, s12, s13, s14>>
      BY <3>1 DEF ManagerTyped
    <3>2. CASE /\ s16' = Uploads!FolderDialog /\ s10' = {} /\ s11' = <<>>
               /\ s12' = FALSE /\ s13' = FALSE /\ s14' = <<>>
      BY <1>1, <3>2 DEF Uploads!FolderDialog
    <3> QED
      BY <2>2, <3>1, <3>2 DEF Uploads!FolderAnswered
  <2> QED
    BY <2>1, <2>2
<1> QED
  BY <1>2 DEF ManagerTyped

LEMMA UploadStays ==
  ASSUME UploadHolds, UNCHANGED <<s2, s3, s4, s5, s6, s7, s8, s9>>
  PROVE  UploadHolds'
BY DEF UploadHolds, UploadTyped, Apart, FlowHolds, TreeHolds, StatusHolds, SentHolds,
       Uploads!Tree

LEMMA UploadsStep == Uploads!Inv /\ Uploads!Next => Uploads!Inv'
<1> SUFFICES ASSUME UploadHolds, ManagerTyped, Uploads!Steps
             PROVE  UploadHolds' /\ ManagerTyped'
  BY UploadsParts, UploadsPartsNext, UploadsFit, UploadsFitNext DEF Uploads!Next
<1>1. CASE Uploads!Upload
  <2>1. ManagerTyped'
    BY <1>1 DEF Uploads!Upload, Uploads!manager, ManagerTyped
  <2> QED
    BY <1>1, <2>1, UploadKeeps
<1>2. CASE Uploads!Manager
  <2>1. UNCHANGED <<s2, s3, s4, s5, s6, s7, s8, s9>>
    BY <1>2 DEF Uploads!Manager, Uploads!upload
  <2>2. UploadHolds'
    BY <2>1, UploadStays
  <2>3. ManagerTyped'
    BY <1>2, SelectionKeeps, DeletingKeeps, FolderKeeps DEF Uploads!Manager
  <2> QED
    BY <2>2, <2>3
<1> QED
  BY <1>1, <1>2 DEF Uploads!Steps

LEMMA UploadsStay ==
  ASSUME Uploads!Inv, UNCHANGED vars
  PROVE  Uploads!Inv'
<1>1. UNCHANGED <<s2, s3, s4, s5, s6, s7, s8, s9, s10, s11, s12, s13, s14, s16>>
  BY DEF vars
<1>2. ManagerTyped => ManagerTyped'
  BY <1>1 DEF ManagerTyped
<1> QED
  BY <1>1, <1>2, UploadStays, UploadsParts, UploadsPartsNext, UploadsFit, UploadsFitNext

LEMMA UploadsInit == Uploads!Init => Uploads!Inv
<1> SUFFICES ASSUME Uploads!Init PROVE UploadHolds /\ ManagerTyped
  BY UploadsParts, UploadsFit
<1>1. /\ s2 = FALSE /\ s3 = {} /\ s4 = {} /\ s5 = Uploads!NoMeta /\ s6 = Uploads!NoTrace
      /\ s7 = {} /\ s8 = {} /\ s9 = {}
  BY DEF Uploads!Init
<1>2. \A n \in UploadNodes : s6[n] = "none"
  BY <1>1, UploadTypes DEF Uploads!NoTrace
<1>3. UploadTyped
  <2>1. Uploads!NoTrace \in [UploadNodes -> States]
    BY UploadTypes DEF Uploads!NoTrace, States
  <2>2. Uploads!NoMeta \in [status : States, total : Nat]
    BY DEF Uploads!NoMeta, States
  <2> QED
    BY <1>1, <2>1, <2>2 DEF UploadTyped
<1>4. FlowHolds /\ Apart
  BY <1>1, <1>2, NothingCardinality, UploadTypes DEF FlowHolds, FlowFits, Apart
<1>5. TreeHolds /\ StatusHolds /\ SentHolds
  BY <1>1, <1>2 DEF TreeHolds, TreeFits, StatusHolds, SentHolds, Uploads!NoMeta
<1>6. ManagerTyped
  <2>1. <<>> \in Seq(Documents)
    OBVIOUS
  <2> QED
    BY <2>1 DEF Uploads!Init, Uploads!NewManager, Uploads!NewDeletion,
                Uploads!FolderDialog, ManagerTyped
<1> QED
  BY <1>3, <1>4, <1>5, <1>6 DEF UploadHolds

-----------------------------------------------------------------------------
(* What follows for uploads and deletions *)

\* The folder around a node, and the one around each of its ancestors, are ancestors.
LEMMA AncestorsClosed ==
  ASSUME NEW f \in UploadNodes, NEW d \in {f} \cup Uploads!Ancestors(f), ParentOf[d] # Root
  PROVE  ParentOf[d] \in Uploads!Ancestors(f)
<1>1. ParentOf[d] \in Folders
  BY UploadTypes DEF Uploads!Ancestors, UploadNodes
<1>2. ASSUME NEW S \in SUBSET Folders, Uploads!ClosedAround(f, S) PROVE ParentOf[d] \in S
  <2>1. d \in {f} \cup S
    BY <1>2 DEF Uploads!Ancestors
  <2> QED
    BY <1>2, <2>1 DEF Uploads!ClosedAround
<1> QED
  BY <1>1, <1>2 DEF Uploads!Ancestors

\* A file that was not sent is in a folder that could not be made: else each of the
\* folders around it that was not made is in another.
LEMMA NotSent ==
  ASSUME UploadHolds, s7 = {}, s5 # Uploads!NoMeta, NEW f \in s4
  PROVE  \/ s6[f] = "success" /\ f \in s9
         \/ \E n \in {f} \cup Uploads!Ancestors(f) : s6[n] = "error"
<1> SUFFICES ASSUME s6[f] # "success", \A n \in {f} \cup Uploads!Ancestors(f) : s6[n] # "error"
             PROVE  FALSE
  <2>1. f \in UploadNodes
    BY DEF UploadHolds, UploadTyped, UploadNodes
  <2> QED
    BY <2>1 DEF UploadHolds, TreeHolds, TreeFits
<1>1. f \in UploadNodes /\ \A n \in UploadNodes : s6[n] \in {"none", "error", "success"}
  <2>1. f \in UploadFiles /\ s6 \in [UploadNodes -> States]
    BY DEF UploadHolds, UploadTyped
  <2> QED
    BY <2>1, NoneInFlight DEF States, UploadHolds, UploadNodes
<1>2. SentFits(s6, Uploads!Tree)
  BY DEF UploadHolds, SentHolds
<1>3. f \in Uploads!Tree /\ Uploads!Ancestors(f) \subseteq Uploads!Tree
  BY DEF Uploads!Tree
<1>4. Uploads!Ancestors(f) \subseteq Folders /\ Folders \subseteq UploadNodes
  BY DEF Uploads!Ancestors, UploadNodes
<1>5. ASSUME NEW d \in {f} \cup Uploads!Ancestors(f), s6[d] = "none"
      PROVE  ParentOf[d] \in Uploads!Ancestors(f) /\ s6[ParentOf[d]] = "none"
  <2>1. ParentOf[d] # Root /\ s6[ParentOf[d]] # "success"
    BY <1>2, <1>3, <1>5 DEF SentFits
  <2>2. ParentOf[d] \in Uploads!Ancestors(f)
    BY <1>1, <2>1, AncestorsClosed
  <2>3. s6[ParentOf[d]] \in {"none", "error", "success"}
    BY <1>1, <1>4, <2>2
  <2> QED
    BY <2>1, <2>2, <2>3
<1>6. PICK S \in SUBSET Folders : S = {d \in Uploads!Ancestors(f) : s6[d] = "none"}
  BY <1>4
<1>7. ParentOf[f] \in S
  BY <1>1, <1>5, <1>6
<1>8. PICK d \in S : ParentOf[d] \notin S
  BY <1>7, UploadsAssumption
<1> QED
  BY <1>5, <1>6, <1>8

LEMMA UploadsShow == Uploads!Inv => Uploads!UploadsArrive /\ Uploads!TypeOK
<1> SUFFICES ASSUME Uploads!Inv PROVE Uploads!UploadsArrive /\ Uploads!TypeOK
  OBVIOUS
<1>1. UploadHolds /\ ManagerTyped
  BY UploadsParts, UploadsFit
<1>2. Uploads!LimitKept /\ Uploads!FoldersFirst /\ Uploads!TypesKept
  BY DEF Uploads!Inv
<1>3. Uploads!NothingLost
  <2> SUFFICES ASSUME s5.status \in {"success", "error"}, NEW f \in s4
               PROVE  \/ s6[f] = "success" /\ f \in s9
                      \/ \E n \in {f} \cup Uploads!Ancestors(f) : s6[n] = "error"
    BY DEF Uploads!NothingLost
  <2>1. s7 = {} /\ s5 # Uploads!NoMeta
    BY <1>1 DEF UploadHolds, StatusHolds, Uploads!NoMeta
  <2> QED
    BY <1>1, <2>1, NotSent
<1>4. Uploads!TypeOK
  <2>1. \A list \in Seq(Documents) : Uploads!ToSet(list) \subseteq Documents
    BY DEF Uploads!ToSet
  <2> QED
    BY <1>2, <2>1 DEF Uploads!TypeOK, Uploads!TypesKept
<1> QED
  BY <1>2, <1>3, <1>4 DEF Uploads!UploadsArrive

\* After an error nothing else is asked for.
LEMMA UploadsStop == Uploads!Next => Uploads!StopsAtError
<1> SUFFICES ASSUME Uploads!Steps, s13, s10' = s10, s14' # s14 PROVE ~s13'
  BY DEF Uploads!Next, Uploads!StopsAtError
<1>1. Uploads!Manager
  <2>1. CASE Uploads!Upload
    <3>1. UNCHANGED Uploads!manager
      BY <2>1 DEF Uploads!Upload
    <3>2. s14' = s14
      BY <3>1 DEF Uploads!manager
    <3> QED
      BY <3>2
  <2> QED
    BY <2>1 DEF Uploads!Steps
<1>2. Uploads!DeleteAnswered \/ Uploads!FolderAnswered
  BY <1>1
  DEF Uploads!Manager, Uploads!UpdateSelection, Uploads!OpenDelete, Uploads!CancelDelete,
      Uploads!OnDelete, Uploads!OpenFolder, Uploads!SubmitFolder, Uploads!CloseFolder
<1>3. CASE Uploads!DeleteAnswered
  <2>1. PICK ok \in BOOLEAN :
          /\ ok => Head(s14) \in s10
          /\ s10' = IF ok THEN s10 \ {Head(s14)} ELSE s10
          /\ Uploads!Continue(ok)
    BY <1>3 DEF Uploads!DeleteAnswered
  <2>2. ~ok
    BY <2>1
  <2> QED
    BY <2>1, <2>2 DEF Uploads!Continue
<1>4. CASE Uploads!FolderAnswered
  BY <1>4 DEF Uploads!FolderAnswered
<1> QED
  BY <1>2, <1>3, <1>4

-----------------------------------------------------------------------------
(* The session: requests                                                    *)

LEMMA SessionNames ==
  /\ Session!None \notin SessionTokens /\ Session!None \notin SessionRoles
  /\ Session!None \notin Locales
  /\ RoleOf \in [SessionTokens -> SessionRoles] /\ DefaultLocale \in Locales
  /\ \A site \in Sites : site.languages \subseteq Locales
  /\ IsFiniteSet(SessionMessages) /\ DismissedLimit \in Nat /\ DismissedLimit > 0
  /\ MaxVisits \in Nat
<1>1. \A site \in Sites : site.languages \subseteq Locales
  <2>1. Sites \subseteq [single : BOOLEAN, forced : BOOLEAN, url : BOOLEAN,
                         banner : BOOLEAN, languages : SUBSET Locales]
    BY SessionAssumption
  <2> QED
    BY <2>1
<1> QED
  BY <1>1, SessionAssumption DEF Session!None

TokensOrNone == SessionTokens \cup {Session!None}

\* What is asked for by each kind of request.
LEMMA DataOfKinds ==
  /\ Session!DataOf("metadata") = Locales
  /\ Session!DataOf("role") = SessionRoles
  /\ Session!DataOf("code") = {"dialog", Session!None}
  /\ Session!DataOf("update") =
       [id : SessionRoles, name : {"long"}, locale : Locales \cup {Session!None},
        password : Session!Typed, confirm : Session!Typed]
  /\ Session!DataOf("status") = Session!Visits
  /\ Session!DataOf("cancel") = Session!Visits
  /\ \A k \in {"messages", "logout", "login", "activate"} : Session!DataOf(k) = {Session!None}
BY DEF Session!DataOf

LEMMA RequestParts ==
  ASSUME NEW r \in Session!Requests
  PROVE  /\ r.kind \in Session!Kinds /\ r.token \in TokensOrNone
         /\ r.data \in Session!DataOf(r.kind)
         /\ r = [kind |-> r.kind, token |-> r.token, data |-> r.data]
<1>1. PICK k \in Session!Kinds :
        r \in [kind : {k}, token : SessionTokens \cup {Session!None}, data : Session!DataOf(k)]
  BY DEF Session!Requests
<1> QED
  BY <1>1 DEF TokensOrNone

LEMMA RequestMade ==
  ASSUME NEW k \in Session!Kinds, NEW t \in TokensOrNone, NEW d \in Session!DataOf(k)
  PROVE  [kind |-> k, token |-> t, data |-> d] \in Session!Requests
<1>1. [kind |-> k, token |-> t, data |-> d]
        \in [kind : {k}, token : SessionTokens \cup {Session!None}, data : Session!DataOf(k)]
  BY DEF TokensOrNone
<1> QED
  BY <1>1 DEF Session!Requests

\* An update that may be sent, and is sent with the token of its user.
UpdateFits(f, token) ==
  /\ f.password # Session!None => f.password = f.confirm
  /\ f.id = RoleOf[token]

\* A request carries a token that was issued and is in use.
RequestFits(r, issued, unused) ==
  /\ r.token \in issued \cup {Session!None}
  /\ unused # Session!None => r.token # unused
  /\ r.kind = "update" => UpdateFits(r.data, r.token)

RequestsFit(rs, issued, unused) ==
  /\ rs \in Seq(Session!Requests)
  /\ \A i \in DOMAIN rs : RequestFits(rs[i], issued, unused)

Has(rs, kind) == \E i \in DOMAIN rs : rs[i].kind = kind
HasFor(rs, kind, data) == \E i \in DOMAIN rs : rs[i].kind = kind /\ rs[i].data = data

\* What is awaited in rs is awaited in qs, except for codes.
Keeps(rs, qs) ==
  \A k : k # "code" => /\ Has(rs, k) => Has(qs, k)
                       /\ \A d : HasFor(rs, k, d) => HasFor(qs, k, d)

\* The same, except for one request.
KeepsBut(rs, qs, kind, data) ==
  \A k : k # "code" =>
    /\ k # kind /\ Has(rs, k) => Has(qs, k)
    /\ \A d : (k # kind \/ d # data) /\ HasFor(rs, k, d) => HasFor(qs, k, d)

LEMMA KeepsTwice ==
  ASSUME NEW rs, NEW qs, NEW ps, NEW kind, NEW data
  PROVE  /\ Keeps(rs, rs)
         /\ Keeps(rs, qs) /\ Keeps(qs, ps) => Keeps(rs, ps)
         /\ KeepsBut(rs, qs, kind, data) /\ Keeps(qs, ps) => KeepsBut(rs, ps, kind, data)
<1>1. Keeps(rs, rs)
  BY DEF Keeps
<1>2. ASSUME Keeps(rs, qs), Keeps(qs, ps) PROVE Keeps(rs, ps)
  BY <1>2 DEF Keeps
<1>3. ASSUME KeepsBut(rs, qs, kind, data), Keeps(qs, ps) PROVE KeepsBut(rs, ps, kind, data)
  BY <1>3 DEF Keeps, KeepsBut
<1> QED
  BY <1>1, <1>2, <1>3

LEMMA NoRequests == \A issued, unused : RequestsFit(<<>>, issued, unused)
<1>1. <<>> \in Seq(Session!Requests) /\ DOMAIN <<>> = {}
  OBVIOUS
<1> QED
  BY <1>1 DEF RequestsFit

\* More tokens may be issued.
LEMMA MoreIssued ==
  ASSUME NEW rs, NEW issued, NEW more, NEW unused, RequestsFit(rs, issued, unused)
  PROVE  RequestsFit(rs, issued \cup more, unused)
BY DEF RequestsFit, RequestFits

LEMMA AppendFits ==
  ASSUME NEW rs, NEW issued, NEW unused, RequestsFit(rs, issued, unused),
         NEW r \in Session!Requests, RequestFits(r, issued, unused)
  PROVE  /\ RequestsFit(Append(rs, r), issued, unused)
         /\ Keeps(rs, Append(rs, r))
         /\ Has(Append(rs, r), r.kind) /\ HasFor(Append(rs, r), r.kind, r.data)
<1> DEFINE t == Append(rs, r)
<1>1. rs \in Seq(Session!Requests)
  BY DEF RequestsFit
<1>2. /\ t \in Seq(Session!Requests) /\ Len(rs) \in Nat /\ DOMAIN t = 1..(Len(rs) + 1)
      /\ t[Len(rs) + 1] = r /\ DOMAIN rs = 1..Len(rs)
      /\ \A i \in DOMAIN rs : i \in DOMAIN t /\ t[i] = rs[i]
  BY <1>1
<1> HIDE DEF t
<1>3. Len(rs) + 1 \in DOMAIN t /\ \A i \in DOMAIN t : i \in DOMAIN rs \/ i = Len(rs) + 1
  BY <1>2
<1>4. RequestsFit(t, issued, unused)
  BY <1>2, <1>3 DEF RequestsFit
<1>5. Keeps(rs, t)
  BY <1>2 DEF Keeps, Has, HasFor
<1>6. Has(t, r.kind) /\ HasFor(t, r.kind, r.data)
  BY <1>2, <1>3 DEF Has, HasFor
<1> QED
  BY <1>4, <1>5, <1>6 DEF t

LEMMA AnsweredFits ==
  ASSUME NEW issued, NEW unused, RequestsFit(s11, issued, unused), NEW i \in DOMAIN s11
  PROVE  /\ RequestsFit(Session!Answered(i), issued, unused)
         /\ KeepsBut(s11, Session!Answered(i), s11[i].kind, s11[i].data)
<1> DEFINE t == Session!Answered(i)
<1>1. s11 \in Seq(Session!Requests) /\ Len(s11) \in Nat /\ DOMAIN s11 = 1..Len(s11)
  BY DEF RequestsFit
<1>2. /\ t \in Seq(Session!Requests) /\ Len(t) = Len(s11) - 1
      /\ \A j \in DOMAIN t : t[j] = IF j < i THEN s11[j] ELSE s11[j + 1]
  BY <1>1, RemovedPosition DEF Session!Answered, Session!RemoveAt
<1>3. DOMAIN t = 1..(Len(s11) - 1)
  BY <1>1, <1>2
<1> HIDE DEF t
<1>4. \A j \in DOMAIN t : \E m \in DOMAIN s11 : t[j] = s11[m]
  <2> SUFFICES ASSUME NEW j \in DOMAIN t PROVE \E m \in DOMAIN s11 : t[j] = s11[m]
    OBVIOUS
  <2>1. j \in DOMAIN s11 /\ j + 1 \in DOMAIN s11
    BY <1>1, <1>3
  <2> QED
    BY <1>2, <2>1
<1>5. \A m \in DOMAIN s11 : m # i => \E j \in DOMAIN t : t[j] = s11[m]
  <2> SUFFICES ASSUME NEW m \in DOMAIN s11, m # i PROVE \E j \in DOMAIN t : t[j] = s11[m]
    OBVIOUS
  <2>1. CASE m < i
    <3>1. m \in DOMAIN t /\ t[m] = s11[m]
      BY <1>1, <1>2, <1>3, <2>1
    <3> QED
      BY <3>1
  <2>2. CASE m > i
    <3>1. m - 1 \in DOMAIN t
      BY <1>1, <1>3, <2>2
    <3>2. t[m - 1] = s11[m]
      BY <1>1, <1>2, <2>2, <3>1
    <3> QED
      BY <3>1, <3>2
  <2> QED
    BY <1>1, <2>1, <2>2
<1>6. RequestsFit(t, issued, unused)
  BY <1>2, <1>4 DEF RequestsFit
<1>7. KeepsBut(s11, t, s11[i].kind, s11[i].data)
  BY <1>5 DEF KeepsBut, Has, HasFor
<1> QED
  BY <1>6, <1>7 DEF t

\* The dialog that asked for a code is replaced.
LEMMA DetachedFits ==
  ASSUME NEW rs, NEW issued, NEW unused, RequestsFit(rs, issued, unused)
  PROVE  RequestsFit(Session!Detached(rs), issued, unused) /\ Keeps(rs, Session!Detached(rs))
<1> DEFINE t == Session!Detached(rs)
           entry(i) == [rs[i] EXCEPT !.data = IF rs[i].kind = "code" THEN Session!None ELSE @]
<1>1. rs \in Seq(Session!Requests) /\ Len(rs) \in Nat /\ DOMAIN rs = 1..Len(rs)
  BY DEF RequestsFit
<1>2. ASSUME NEW i \in DOMAIN rs
      PROVE  /\ entry(i) \in Session!Requests
             /\ entry(i).kind = rs[i].kind /\ entry(i).token = rs[i].token
             /\ rs[i].kind # "code" => entry(i) = rs[i]
  <2> DEFINE r == rs[i]
             d == IF r.kind = "code" THEN Session!None ELSE r.data
  <2>1. r \in Session!Requests
    BY <1>1
  <2>2. /\ r.kind \in Session!Kinds /\ r.token \in TokensOrNone
        /\ r.data \in Session!DataOf(r.kind)
        /\ r = [kind |-> r.kind, token |-> r.token, data |-> r.data]
    BY <2>1, RequestParts
  <2>3. d \in Session!DataOf(r.kind)
    BY <2>2, DataOfKinds
  <2>4. entry(i) = [kind |-> r.kind, token |-> r.token, data |-> d]
    BY <2>2
  <2> HIDE DEF d, r, entry
  <2>5. [kind |-> r.kind, token |-> r.token, data |-> d] \in Session!Requests
    BY <2>2, <2>3, RequestMade
  <2>6. r.kind # "code" => entry(i) = r
    BY <2>2, <2>4 DEF d
  <2> QED
    BY <2>4, <2>5, <2>6 DEF r
<1>3. t = [i \in DOMAIN rs |-> entry(i)]
  BY DEF Session!Detached
<1> HIDE DEF t, entry
<1>4. t \in Seq(Session!Requests) /\ DOMAIN t = DOMAIN rs /\ \A i \in DOMAIN rs : t[i] = entry(i)
  BY <1>1, <1>2, <1>3
<1>5. \A i \in DOMAIN rs : RequestFits(entry(i), issued, unused)
  <2> SUFFICES ASSUME NEW i \in DOMAIN rs PROVE RequestFits(entry(i), issued, unused)
    OBVIOUS
  <2>1. RequestFits(rs[i], issued, unused)
    BY DEF RequestsFit
  <2> QED
    BY <1>2, <2>1 DEF RequestFits
<1>6. RequestsFit(t, issued, unused)
  BY <1>4, <1>5 DEF RequestsFit
<1>7. Keeps(rs, t)
  <2>1. \A i \in DOMAIN rs : rs[i].kind # "code" => t[i] = rs[i]
    BY <1>2, <1>4
  <2> QED
    BY <1>4, <2>1 DEF Keeps, Has, HasFor
<1> QED
  BY <1>6, <1>7 DEF t

-----------------------------------------------------------------------------
(* The session: its invariant                                               *)

\* Only tokens that were issued are around, and whoever is signed in has one.
Signed ==
  /\ s2 \in Sites
  /\ s3 \in [token : TokensOrNone, loggedIn : BOOLEAN]
  /\ s3.loggedIn <=> s3.token # Session!None
  /\ s9 \in [live : SUBSET SessionTokens, issued : SUBSET SessionTokens]
  /\ s9.live \subseteq s9.issued
  /\ s3.token \in s9.issued \cup {Session!None}
  /\ s7 \in s9.issued \cup {Session!None} /\ s10 \subseteq s9.issued
  /\ s7 # Session!None => s7 \notin s10 /\ s7 # s3.token

LocalesOrNone == Locales \cup {Session!None}

Loaded ==
  /\ s4 \in [status : Session!Statuses, locale : LocalesOrNone]
  /\ s5 \in [SessionRoles -> [status : Session!Statuses, known : BOOLEAN, locale : LocalesOrNone]]
  /\ s6 \in [status : Session!Statuses, shown : Seq(SessionMessages),
             dismissed : Seq(SessionMessages)]
  /\ Len(s6.dismissed) <= DismissedLimit
  /\ s13 \in [status : Session!Statuses, rows : {Session!None, "idle", "active"}]

FormFits == s12 \in Session!Forms /\ (s12 # Session!NoForm => s3.loggedIn)

Pollings ==
  [visit : 0..MaxVisits, mounted : BOOLEAN, held : SUBSET Session!Visits,
   loose : Seq(Session!Visits)]

PollingFits(p) == p \in Pollings /\ (p.mounted => p.visit # 0)

\* While the page of the tasks is open it is being loaded, or a timer runs.
Polled(p, rs) ==
  p.mounted => HasFor(rs, "status", p.visit) \/ p.visit \in p.held \cup ValuesOf(p.loose)

\* What is awaited in rs is what the store waits for.
AwaitedBy(rs, session, refused, metadata, tasks, roles) ==
  /\ session.token \in refused => Has(rs, "logout")
  /\ metadata.status = "pending" => Has(rs, "metadata")
  /\ tasks.status = "pending" => Has(rs, "status")
  /\ \A r \in SessionRoles : roles[r].status = "pending" => HasFor(rs, "role", r)

SessionAll ==
  /\ Signed /\ Loaded /\ FormFits /\ PollingFits(s14)
  /\ RequestsFit(s11, s9.issued, s7)
  /\ AwaitedBy(s11, s3, s10, s4, s13, s5) /\ Polled(s14, s11)

LEMMA SessionRequestsParts ==
  ASSUME s11 \in Seq(Session!Requests)
  PROVE  /\ (/\ {s11[i].token : i \in DOMAIN s11} \subseteq s9.issued \cup {Session!None}
             /\ s7 # Session!None => s7 \notin {s11[i].token : i \in DOMAIN s11}
             /\ Session!UpdatesValid)
            <=> RequestsFit(s11, s9.issued, s7)
<1>1. ASSUME NEW i \in DOMAIN s11, s11[i].kind = "update"
      PROVE  Session!ValidName(s11[i].data)
  <2>1. s11[i] \in Session!Requests
    OBVIOUS
  <2>2. s11[i].data \in Session!DataOf("update")
    BY <1>1, <2>1, RequestParts
  <2>3. s11[i].data \in [id : SessionRoles, name : {"long"}, locale : Locales \cup {Session!None},
                         password : Session!Typed, confirm : Session!Typed]
    BY <2>2, DataOfKinds
  <2> QED
    BY <2>3 DEF Session!ValidName
<1> QED
  BY <1>1 DEF RequestsFit, RequestFits, UpdateFits, Session!UpdatesValid

LEMMA SessionFit == Session!Inv <=> SessionAll
<1>1. Session!StatusPolled <=> Polled(s14, s11)
  BY DEF Session!StatusPolled, Session!AwaitedFor, HasFor, Polled, Session!ToSet, ValuesOf
<1>2. Session!RefusedEnds /\ Session!LoadsAnswered <=> AwaitedBy(s11, s3, s10, s4, s13, s5)
  BY DEF Session!RefusedEnds, Session!LoadsAnswered, Session!Awaited, Session!AwaitedFor,
         Has, HasFor, AwaitedBy
<1>3. Session!FormOfUser /\ s12 \in Session!Forms <=> FormFits
  BY DEF Session!FormOfUser, FormFits
<1>4. Session!TypesKept <=>
        /\ s2 \in Sites /\ Loaded /\ s12 \in Session!Forms /\ PollingFits(s14)
        /\ s3 \in [token : TokensOrNone, loggedIn : BOOLEAN]
        /\ s9 \in [live : SUBSET SessionTokens, issued : SUBSET SessionTokens]
        /\ s9.live \subseteq s9.issued
        /\ s11 \in Seq(Session!Requests)
  BY DEF Session!TypesKept, Loaded, PollingFits, Pollings, TokensOrNone, LocalesOrNone
<1>5. Session!TokensIssued <=>
        /\ s3.token \in s9.issued \cup {Session!None} /\ s7 \in s9.issued \cup {Session!None}
        /\ {s11[i].token : i \in DOMAIN s11} \subseteq s9.issued \cup {Session!None}
        /\ s10 \subseteq s9.issued
        /\ s7 # Session!None => /\ s7 \notin s10 /\ s7 # s3.token
                                /\ s7 \notin {s11[i].token : i \in DOMAIN s11}
  BY DEF Session!TokensIssued
<1>6. Session!LoggedInHasToken <=> (s3.loggedIn <=> s3.token # Session!None)
  BY DEF Session!LoggedInHasToken
<1>7. RequestsFit(s11, s9.issued, s7) => s11 \in Seq(Session!Requests)
  BY DEF RequestsFit
<1>8. Session!Inv => SessionAll
  <2> SUFFICES ASSUME Session!Inv PROVE SessionAll
    OBVIOUS
  <2>1. /\ Session!TypesKept /\ Session!TokensIssued /\ Session!FormOfUser
        /\ Session!LoggedInHasToken /\ Session!RefusedEnds /\ Session!LoadsAnswered
        /\ Session!UpdatesValid /\ Session!StatusPolled
    BY DEF Session!Inv, Session!SessionHolds
  <2>2. RequestsFit(s11, s9.issued, s7)
    BY <1>4, <1>5, <2>1, SessionRequestsParts
  <2>3. Signed
    BY <1>4, <1>5, <1>6, <2>1 DEF Signed
  <2> QED
    BY <1>1, <1>2, <1>3, <1>4, <2>1, <2>2, <2>3 DEF SessionAll
<1>9. SessionAll => Session!Inv
  <2> SUFFICES ASSUME SessionAll PROVE Session!Inv
    OBVIOUS
  <2>1. /\ Signed /\ Loaded /\ FormFits /\ PollingFits(s14)
        /\ RequestsFit(s11, s9.issued, s7)
        /\ AwaitedBy(s11, s3, s10, s4, s13, s5) /\ Polled(s14, s11)
    BY DEF SessionAll
  <2>2. /\ {s11[i].token : i \in DOMAIN s11} \subseteq s9.issued \cup {Session!None}
        /\ s7 # Session!None => s7 \notin {s11[i].token : i \in DOMAIN s11}
        /\ Session!UpdatesValid
    BY <1>7, <2>1, SessionRequestsParts
  <2>3. Session!TypesKept
    BY <1>3, <1>4, <1>7, <2>1 DEF Signed
  <2>4. Session!TokensIssued /\ Session!LoggedInHasToken
    BY <1>5, <1>6, <2>1, <2>2 DEF Signed
  <2> QED
    BY <1>1, <1>2, <1>3, <2>1, <2>2, <2>3, <2>4 DEF Session!Inv, Session!SessionHolds
<1> QED
  BY <1>8, <1>9

LEMMA SessionFitNext == Session!Inv' <=> SessionAll'
BY SessionFit, PTL

LEMMA CurrentRoleType == Signed => Session!CurrentRole \in SessionRoles \cup {Session!None}
BY SessionNames DEF Signed, TokensOrNone, Session!CurrentRole

LEMMA LocaleType == Signed /\ Loaded => Session!Locale \in Locales
<1> SUFFICES ASSUME Signed, Loaded PROVE Session!Locale \in Locales
  OBVIOUS
<1>1. Session!CurrentRoleKnown => s5[Session!CurrentRole].locale \in LocalesOrNone
  BY CurrentRoleType DEF Loaded, Session!CurrentRoleKnown
<1>2. s4.locale \in LocalesOrNone
  BY DEF Loaded
<1> QED
  BY <1>1, <1>2, SessionNames DEF Session!Locale, LocalesOrNone

\* The form is made of a user who is signed in.
LEMMA FormNew ==
  Signed /\ Loaded => /\ Session!NewForm \in Session!Forms
                      /\ Session!NewForm # Session!NoForm => s3.loggedIn
<1> SUFFICES ASSUME Signed, Loaded
             PROVE  /\ Session!NewForm \in Session!Forms
                    /\ Session!NewForm # Session!NoForm => s3.loggedIn
  OBVIOUS
<1>1. Session!NoForm \in Session!Forms
  BY DEF Session!NoForm, Session!Forms, Session!Typed
<1>2. [Session!NoForm EXCEPT !.name = "long", !.locale = Session!Locale] \in Session!Forms
  BY <1>1, LocaleType DEF Session!Forms
<1> QED
  BY <1>1, <1>2 DEF Session!NewForm, Session!SettingsShown

LEMMA FormNewNext ==
  (Signed /\ Loaded)' => /\ Session!NewForm' \in Session!Forms
                         /\ Session!NewForm' # Session!NoForm => s3'.loggedIn
<1>1. (Signed /\ Loaded => /\ Session!NewForm \in Session!Forms
                           /\ Session!NewForm # Session!NoForm => s3.loggedIn)'
  BY FormNew, PTL
<1> QED
  BY <1>1 DEF Session!Forms, Session!NoForm, Session!Typed

\* A change of the store, with the requests and timers there are then.
LEMMA RenderedFits ==
  ASSUME NEW rs, NEW p, Session!Rendered(rs, p),
         Signed', Loaded', RequestsFit(rs, s9'.issued, s7'),
         PollingFits(p), Polled(p, rs),
         AwaitedBy(rs, s3', s10', s4', s13', s5')
  PROVE  SessionAll'
<1>1. RequestsFit(s11', s9'.issued, s7') /\ Keeps(rs, s11')
  <2>1. s11' = rs \/ s11' = Session!Detached(rs)
    BY DEF Session!Rendered
  <2> QED
    BY <2>1, DetachedFits, KeepsTwice
<1>2. s14' = p \/ s14' = Session!Left(p)
  BY DEF Session!Rendered
<1>3. PollingFits(s14') /\ Polled(s14', s11')
  <2>1. CASE s14' = p
    BY <1>1, <2>1 DEF Polled, Keeps
  <2>2. CASE s14' = Session!Left(p)
    <3>1. s14' \in Pollings /\ ~s14'.mounted
      BY <2>2 DEF PollingFits, Pollings, Session!Left
    <3> QED
      BY <3>1 DEF PollingFits, Polled
  <2> QED
    BY <1>2, <2>1, <2>2
<1>4. FormFits'
  <2>1. s12' = Session!NewForm'
    BY DEF Session!Rendered
  <2>2. /\ Session!NewForm' \in Session!Forms
        /\ Session!NewForm' # Session!NoForm => s3'.loggedIn
    BY FormNewNext
  <2> QED
    BY <2>1, <2>2 DEF FormFits, Session!Forms, Session!NoForm, Session!Typed
<1>5. AwaitedBy(s11', s3', s10', s4', s13', s5')
  BY <1>1 DEF AwaitedBy, Keeps
<1>6. PollingFits(s14)' /\ Polled(s14, s11)' /\ AwaitedBy(s11, s3, s10, s4, s13, s5)'
      /\ RequestsFit(s11, s9.issued, s7)'
  BY <1>1, <1>3, <1>5
<1> QED
  BY <1>4, <1>6 DEF SessionAll

-----------------------------------------------------------------------------
(* The session: asking                                                      *)

LEMMA SessionParts ==
  ASSUME SessionAll
  PROVE  /\ Signed /\ Loaded /\ FormFits /\ PollingFits(s14)
         /\ RequestsFit(s11, s9.issued, s7)
         /\ AwaitedBy(s11, s3, s10, s4, s13, s5) /\ Polled(s14, s11)
BY DEF SessionAll

LEMMA SessionWhole ==
  ASSUME Signed', Loaded', FormFits', PollingFits(s14'),
         RequestsFit(s11', s9'.issued, s7'),
         AwaitedBy(s11', s3', s10', s4', s13', s5'), Polled(s14', s11')
  PROVE  SessionAll'
<1>1. PollingFits(s14)' /\ Polled(s14, s11)' /\ AwaitedBy(s11, s3, s10, s4, s13, s5)'
      /\ RequestsFit(s11, s9.issued, s7)'
  OBVIOUS
<1> QED
  BY <1>1 DEF SessionAll

LEMMA SignedStays == ASSUME Signed, UNCHANGED <<s2, s3, s7, s9, s10>> PROVE Signed'
BY DEF Signed

LEMMA LoadedStays == ASSUME Loaded, UNCHANGED <<s4, s5, s6, s13>> PROVE Loaded'
BY DEF Loaded

LEMMA FormStays == ASSUME FormFits, UNCHANGED <<s3, s12>> PROVE FormFits'
BY DEF FormFits

LEMMA AwaitKeeps ==
  ASSUME NEW rs, NEW qs, Keeps(rs, qs), NEW session, NEW refused, NEW metadata, NEW tasks, NEW roles,
         AwaitedBy(rs, session, refused, metadata, tasks, roles)
  PROVE  AwaitedBy(qs, session, refused, metadata, tasks, roles)
BY DEF Keeps, AwaitedBy

LEMMA AwaitKeepsBut ==
  ASSUME NEW rs, NEW qs, NEW kind, NEW data, KeepsBut(rs, qs, kind, data),
         kind \notin {"logout", "metadata", "status", "role"},
         NEW session, NEW refused, NEW metadata, NEW tasks, NEW roles,
         AwaitedBy(rs, session, refused, metadata, tasks, roles)
  PROVE  AwaitedBy(qs, session, refused, metadata, tasks, roles)
BY DEF KeepsBut, AwaitedBy

LEMMA PolledKeeps ==
  ASSUME NEW rs, NEW qs, NEW p, Polled(p, rs)
  PROVE  /\ Keeps(rs, qs) => Polled(p, qs)
         /\ \A kind, data : kind # "status" /\ KeepsBut(rs, qs, kind, data) => Polled(p, qs)
BY DEF Keeps, KeepsBut, Polled

\* Requests carry the token of whoever is signed in.
LEMMA AskedFits ==
  ASSUME Signed, NEW k \in Session!Kinds, k # "update", NEW d \in Session!DataOf(k)
  PROVE  /\ Session!Asked(k, d) \in Session!Requests
         /\ RequestFits(Session!Asked(k, d), s9.issued, s7)
         /\ Session!Asked(k, d).kind = k /\ Session!Asked(k, d).data = d
<1> DEFINE t == IF s3.loggedIn THEN s3.token ELSE Session!None
<1>1. /\ t \in TokensOrNone /\ t \in s9.issued \cup {Session!None}
      /\ s7 # Session!None => t # s7
  BY DEF Signed, TokensOrNone
<1>2. Session!Asked(k, d) = [kind |-> k, token |-> t, data |-> d]
  BY DEF Session!Asked
<1> HIDE DEF t
<1>3. [kind |-> k, token |-> t, data |-> d] \in Session!Requests
  BY <1>1, RequestMade
<1> QED
  BY <1>1, <1>2, <1>3 DEF RequestFits

LEMMA AppendAsked ==
  ASSUME Signed, NEW rs, RequestsFit(rs, s9.issued, s7),
         NEW k \in Session!Kinds, k # "update", NEW d \in Session!DataOf(k)
  PROVE  LET qs == Append(rs, Session!Asked(k, d))
         IN RequestsFit(qs, s9.issued, s7) /\ Keeps(rs, qs) /\ Has(qs, k) /\ HasFor(qs, k, d)
<1> DEFINE r == Session!Asked(k, d)
<1>1. r \in Session!Requests /\ RequestFits(r, s9.issued, s7) /\ r.kind = k /\ r.data = d
  BY AskedFits
<1> HIDE DEF r
<1>2. /\ RequestsFit(Append(rs, r), s9.issued, s7) /\ Keeps(rs, Append(rs, r))
      /\ Has(Append(rs, r), r.kind) /\ HasFor(Append(rs, r), r.kind, r.data)
  BY <1>1, AppendFits
<1> QED
  BY <1>1, <1>2 DEF r

LEMMA FetchMetadataKeeps ==
  ASSUME SessionAll, s2' = s2, Session!FetchMetadata
  PROVE  SessionAll'
<1> DEFINE rs == Append(s11, Session!Asked("metadata", Session!Locale))
<1>1. RequestsFit(rs, s9.issued, s7) /\ Keeps(s11, rs) /\ Has(rs, "metadata")
  <2>1. "metadata" \in Session!Kinds /\ Session!Locale \in Session!DataOf("metadata")
    BY SessionParts, LocaleType, DataOfKinds DEF Session!Kinds
  <2> QED
    BY <2>1, SessionParts, AppendAsked
<1>2. /\ UNCHANGED <<s3, s5, s6, s13, s7, s9, s10>>
      /\ s4' = [s4 EXCEPT !.status = "pending"] /\ Session!Rendered(rs, s14)
  BY DEF Session!FetchMetadata
<1> HIDE DEF rs
<1>3. Signed'
  BY <1>2, SessionParts, SignedStays
<1>4. Loaded'
  BY <1>2, SessionParts DEF Loaded, Session!Statuses
<1>5. AwaitedBy(rs, s3', s10', s4', s13', s5')
  <2>1. AwaitedBy(rs, s3, s10, s4, s13, s5)
    BY <1>1, SessionParts, AwaitKeeps
  <2> QED
    BY <1>1, <1>2, <2>1 DEF AwaitedBy
<1>6. Polled(s14, rs) /\ PollingFits(s14)
  BY <1>1, SessionParts, PolledKeeps
<1> QED
  BY <1>1, <1>2, <1>3, <1>4, <1>5, <1>6, RenderedFits

LEMMA FetchRoleKeeps ==
  ASSUME SessionAll, s2' = s2, Session!FetchRole
  PROVE  SessionAll'
<1> DEFINE role == Session!CurrentRole
           rs == Append(s11, Session!Asked("role", role))
<1>1. role \in SessionRoles
  BY SessionParts, CurrentRoleType DEF Session!FetchRole
<1>2. RequestsFit(rs, s9.issued, s7) /\ Keeps(s11, rs) /\ HasFor(rs, "role", role)
  <2>1. "role" \in Session!Kinds /\ role \in Session!DataOf("role")
    BY <1>1, DataOfKinds DEF Session!Kinds
  <2> QED
    BY <2>1, SessionParts, AppendAsked
<1>3. /\ UNCHANGED <<s3, s4, s6, s13, s7, s9, s10>>
      /\ s5' = [s5 EXCEPT ![role].status = "pending"] /\ Session!Rendered(rs, s14)
  BY DEF Session!FetchRole
<1> HIDE DEF rs, role
<1>4. Signed'
  BY <1>3, SessionParts, SignedStays
<1>5. Loaded' /\ \A r \in SessionRoles : r # role => s5'[r] = s5[r]
  BY <1>1, <1>3, SessionParts DEF Loaded, Session!Statuses
<1>6. AwaitedBy(rs, s3', s10', s4', s13', s5')
  <2>1. AwaitedBy(rs, s3, s10, s4, s13, s5)
    BY <1>2, SessionParts, AwaitKeeps
  <2> QED
    BY <1>2, <1>3, <1>5, <2>1 DEF AwaitedBy
<1>7. Polled(s14, rs) /\ PollingFits(s14)
  BY <1>2, SessionParts, PolledKeeps
<1> QED
  BY <1>2, <1>3, <1>4, <1>5, <1>6, <1>7, RenderedFits

\* Another request, and nothing else.
LEMMA AskedKeeps ==
  ASSUME SessionAll, UNCHANGED <<s2, s3, s4, s5, s6, s7, s9, s10, s12, s13, s14>>,
         NEW k \in Session!Kinds, k # "update", NEW d \in Session!DataOf(k),
         s11' = Append(s11, Session!Asked(k, d))
  PROVE  SessionAll'
<1>1. RequestsFit(s11', s9.issued, s7) /\ Keeps(s11, s11')
  BY SessionParts, AppendAsked
<1>2. Signed' /\ Loaded' /\ FormFits'
  BY SessionParts, SignedStays, LoadedStays, FormStays
<1>3. AwaitedBy(s11', s3, s10, s4, s13, s5)
  BY <1>1, SessionParts, AwaitKeeps
<1>4. Polled(s14, s11') /\ PollingFits(s14)
  BY <1>1, SessionParts, PolledKeeps
<1>5. /\ AwaitedBy(s11', s3', s10', s4', s13', s5') /\ Polled(s14', s11') /\ PollingFits(s14')
      /\ RequestsFit(s11', s9'.issued, s7')
  BY <1>1, <1>3, <1>4
<1> QED
  BY <1>2, <1>5, SessionWhole

\* What the tuples of UNCHANGED stand for.
LEMMA StoreStays ==
  UNCHANGED Session!store => UNCHANGED <<s3, s4, s5, s6, s13>>
BY DEF Session!store

LEMMA LogoutKeeps ==
  ASSUME SessionAll, s2' = s2, Session!Logout PROVE SessionAll'
<1>1. "logout" \in Session!Kinds /\ Session!None \in Session!DataOf("logout")
  BY DataOfKinds DEF Session!Kinds
<1> QED
  BY <1>1, AskedKeeps, StoreStays DEF Session!Logout

LEMMA SubmitKeepsSession ==
  ASSUME SessionAll, s2' = s2, Session!Submit PROVE SessionAll'
<1>1. /\ "code" \in Session!Kinds /\ "dialog" \in Session!DataOf("code")
      /\ "login" \in Session!Kinds /\ Session!None \in Session!DataOf("login")
      /\ "activate" \in Session!Kinds /\ Session!None \in Session!DataOf("activate")
  BY DataOfKinds DEF Session!Kinds
<1>2. UNCHANGED <<s2, s3, s4, s5, s6, s7, s9, s10, s12, s13, s14>>
  BY StoreStays DEF Session!Submit
<1>3. \/ s11' = Append(s11, Session!Asked("code", "dialog"))
      \/ s11' = Append(s11, Session!Asked("login", Session!None))
      \/ s11' = Append(s11, Session!Asked("activate", Session!None))
  BY DEF Session!Submit
<1> QED
  BY <1>1, <1>2, <1>3, AskedKeeps

LEMMA CancelKeeps ==
  ASSUME SessionAll, s2' = s2, Session!CancelCollection PROVE SessionAll'
<1>1. s14.visit \in Session!Visits
  BY SessionParts, SessionNames
  DEF Session!CancelCollection, PollingFits, Pollings, Session!Visits
<1>2. "cancel" \in Session!Kinds /\ s14.visit \in Session!DataOf("cancel")
  BY <1>1, DataOfKinds DEF Session!Kinds
<1>3. /\ UNCHANGED <<s2, s3, s4, s5, s6, s7, s9, s10, s12, s13, s14>>
      /\ s11' = Append(s11, Session!Asked("cancel", s14.visit))
  BY StoreStays DEF Session!CancelCollection
<1> QED
  BY <1>2, <1>3, AskedKeeps

\* Only the form, the dialog or the server's live tokens change.
LEMMA QuietKeeps ==
  ASSUME SessionAll, UNCHANGED <<s3, s4, s5, s6, s7, s10, s11, s13, s14>>,
         Signed', s9'.issued = s9.issued, FormFits'
  PROVE  SessionAll'
<1>1. Loaded'
  BY SessionParts, LoadedStays
<1>2. /\ AwaitedBy(s11', s3', s10', s4', s13', s5') /\ Polled(s14', s11') /\ PollingFits(s14')
      /\ RequestsFit(s11', s9'.issued, s7')
  BY SessionParts
<1> QED
  BY <1>1, <1>2, SessionWhole

LEMMA DialogStepsKeep ==
  ASSUME SessionAll, s2' = s2, Session!DialogSteps PROVE SessionAll'
<1>1. UNCHANGED <<s2, s3, s4, s5, s6, s7, s9, s10, s11, s12, s13, s14>>
  BY StoreStays DEF Session!DialogSteps
<1> QED
  BY <1>1, SessionParts, QuietKeeps, SignedStays, FormStays

LEMMA ExpireKeeps ==
  ASSUME SessionAll, s2' = s2, Session!Expire PROVE SessionAll'
<1>1. UNCHANGED <<s2, s3, s4, s5, s6, s7, s10, s11, s12, s13, s14>>
  BY StoreStays DEF Session!Expire
<1>2. PICK t : s9' = [s9 EXCEPT !.live = @ \ {t}]
  BY DEF Session!Expire
<1>3. Signed' /\ s9'.issued = s9.issued
  BY <1>1, <1>2, SessionParts DEF Signed
<1> QED
  BY <1>1, <1>3, SessionParts, QuietKeeps, FormStays

LEMMA ChangeInputKeeps ==
  ASSUME SessionAll, s2' = s2, Session!OnChangeInput PROVE SessionAll'
<1>1. UNCHANGED <<s2, s3, s4, s5, s6, s7, s9, s10, s11, s13, s14>>
  BY StoreStays DEF Session!OnChangeInput
<1>2. s2.languages \subseteq Locales
  BY SessionParts, SessionNames DEF Signed
<1>3. s12' \in Session!Forms
  BY <1>2, SessionParts DEF Session!OnChangeInput, FormFits, Session!Forms, Session!Typed
<1>4. FormFits'
  BY <1>1, <1>3, SessionParts DEF FormFits, Session!OnChangeInput
<1> QED
  BY <1>1, <1>4, SessionParts, QuietKeeps, SignedStays

LEMMA SaveKeeps ==
  ASSUME SessionAll, s2' = s2, Session!OnSave PROVE SessionAll'
<1>1. UNCHANGED <<s2, s3, s4, s5, s6, s7, s9, s10, s13, s14>>
  BY StoreStays DEF Session!OnSave
<1> DEFINE f == Session!WithoutBlank(s12)
<1>2. /\ s12 \in Session!Forms /\ s12 # Session!NoForm /\ s12.name = "long"
      /\ s12.password = s12.confirm /\ s3.loggedIn
  BY SessionParts
  DEF Session!OnSave, FormFits, Session!Valid, Session!ValidName, Session!ValidPasswordConfirm
<1>3. /\ f \in Session!Forms /\ f.name = "long"
      /\ f.password # Session!None => f.password = f.confirm
  BY <1>2 DEF Session!WithoutBlank, Session!Forms, Session!Typed
<1> HIDE DEF f
<1> DEFINE d == Session!Update(f)
           r == Session!Asked("update", d)
<1>4. /\ s3.token \in SessionTokens /\ s3.token \in s9.issued
      /\ s7 # Session!None => s3.token # s7
      /\ Session!CurrentRole = RoleOf[s3.token] /\ RoleOf[s3.token] \in SessionRoles
  BY <1>2, SessionParts, SessionNames DEF Signed, TokensOrNone, Session!CurrentRole
<1>5. /\ d \in [id : SessionRoles, name : {"long"}, locale : Locales \cup {Session!None},
                password : Session!Typed, confirm : Session!Typed]
      /\ UpdateFits(d, s3.token)
  BY <1>3, <1>4 DEF Session!Update, Session!Forms, UpdateFits
<1>6. r = [kind |-> "update", token |-> s3.token, data |-> d]
  BY <1>2 DEF Session!Asked
<1> HIDE DEF d
<1>7. [kind |-> "update", token |-> s3.token, data |-> d] \in Session!Requests
  <2>1. "update" \in Session!Kinds /\ s3.token \in TokensOrNone /\ d \in Session!DataOf("update")
    BY <1>4, <1>5, DataOfKinds DEF Session!Kinds, TokensOrNone
  <2> QED
    BY <2>1, RequestMade
<1>8. r \in Session!Requests /\ RequestFits(r, s9.issued, s7)
  BY <1>4, <1>5, <1>6, <1>7 DEF RequestFits
<1>9. s12' = f /\ s11' = Append(s11, r)
  BY DEF Session!OnSave, d, f
<1> HIDE DEF r
<1>10. RequestsFit(s11', s9.issued, s7) /\ Keeps(s11, s11')
  BY <1>8, <1>9, SessionParts, AppendFits
<1>11. Signed' /\ Loaded'
  BY <1>1, SessionParts, SignedStays, LoadedStays
<1>12. FormFits'
  BY <1>1, <1>2, <1>3, <1>9 DEF FormFits
<1>13. AwaitedBy(s11', s3, s10, s4, s13, s5) /\ Polled(s14, s11') /\ PollingFits(s14)
  BY <1>10, SessionParts, AwaitKeeps, PolledKeeps
<1>14. /\ AwaitedBy(s11', s3', s10', s4', s13', s5') /\ Polled(s14', s11') /\ PollingFits(s14')
       /\ RequestsFit(s11', s9'.issued, s7')
  BY <1>1, <1>10, <1>13
<1> QED
  BY <1>11, <1>12, <1>14, SessionWhole

-----------------------------------------------------------------------------
(* The session: answers                                                     *)

\* What an error leaves of the requests, and what it adds.
LEMMA FailedFits ==
  ASSUME SessionAll, NEW i \in DOMAIN s11, NEW rs, Session!Failed(i, rs)
  PROVE  /\ RequestsFit(rs, s9.issued, s7)
         /\ KeepsBut(s11, rs, s11[i].kind, s11[i].data)
         /\ s10' \subseteq s9.issued /\ (s7 # Session!None => s7 \notin s10')
         /\ \A t \in s10' : t \in s10 \/ Has(rs, "logout")
<1> DEFINE left == Session!Answered(i)
<1>1. Signed /\ RequestsFit(s11, s9.issued, s7)
  BY SessionParts
<1>2. RequestsFit(left, s9.issued, s7) /\ KeepsBut(s11, left, s11[i].kind, s11[i].data)
  BY <1>1, AnsweredFits
<1>3. \/ rs = left /\ s10' = s10
      \/ /\ ~Session!Accepted(s11[i]) /\ rs = Session!Refused(i)
         /\ s10' = s10 \cup {s11[i].token}
  BY DEF Session!Failed
<1>4. Session!Refused(i) = Append(left, Session!Asked("logout", Session!None))
  BY DEF Session!Refused
<1> HIDE DEF left
<1>5. CASE rs = left /\ s10' = s10
  BY <1>1, <1>2, <1>5 DEF Signed
<1>6. CASE /\ ~Session!Accepted(s11[i]) /\ rs = Session!Refused(i)
           /\ s10' = s10 \cup {s11[i].token}
  <2>1. RequestFits(s11[i], s9.issued, s7)
    BY <1>1 DEF RequestsFit
  <2>2. s11[i].token # Session!None
    BY <1>6 DEF Session!Accepted
  <2>3. s11[i].token \in s9.issued /\ (s7 # Session!None => s7 # s11[i].token)
    BY <2>1, <2>2 DEF RequestFits
  <2>4. "logout" \in Session!Kinds /\ Session!None \in Session!DataOf("logout")
    BY DataOfKinds DEF Session!Kinds
  <2>5. RequestsFit(rs, s9.issued, s7) /\ Keeps(left, rs) /\ Has(rs, "logout")
    BY <1>1, <1>2, <1>4, <1>6, <2>4, AppendAsked
  <2>6. KeepsBut(s11, rs, s11[i].kind, s11[i].data)
    BY <1>2, <2>5, KeepsTwice
  <2>7. s10' \subseteq s9.issued /\ (s7 # Session!None => s7 \notin s10')
    BY <1>1, <1>6, <2>3 DEF Signed
  <2> QED
    BY <2>5, <2>6, <2>7
<1> QED
  BY <1>3, <1>5, <1>6

LEMMA SignedAfterError ==
  ASSUME SessionAll, NEW i \in DOMAIN s11, NEW rs, Session!Failed(i, rs),
         UNCHANGED <<s2, s7, s9>>, s3' \in {s3, Session!NoSession}
  PROVE  Signed'
<1>1. s10' \subseteq s9.issued /\ (s7 # Session!None => s7 \notin s10')
  BY FailedFits
<1>2. Signed
  BY SessionParts
<1>3. CASE s3' = s3
  BY <1>1, <1>2, <1>3 DEF Signed
<1>4. CASE s3' = Session!NoSession
  BY <1>1, <1>2, <1>4 DEF Signed, Session!NoSession, TokensOrNone
<1> QED
  BY <1>3, <1>4

\* What is still waited for was waited for, and this was not the answer.
LEMMA AwaitedStill ==
  ASSUME SessionAll, NEW i \in DOMAIN s11, NEW rs,
         KeepsBut(s11, rs, s11[i].kind, s11[i].data),
         NEW session, NEW refused, NEW metadata, NEW tasks, NEW roles,
         session.token \in refused =>
           \/ Has(rs, "logout")
           \/ session.token = s3.token /\ s3.token \in s10 /\ s11[i].kind # "logout",
         metadata.status = "pending" => s4.status = "pending" /\ s11[i].kind # "metadata",
         tasks.status = "pending" =>
           \/ Has(rs, "status")
           \/ s13.status = "pending" /\ s11[i].kind # "status",
         \A r \in SessionRoles :
           roles[r].status = "pending" =>
             s5[r].status = "pending" /\ (s11[i].kind # "role" \/ r # s11[i].data)
  PROVE  AwaitedBy(rs, session, refused, metadata, tasks, roles)
<1>1. AwaitedBy(s11, s3, s10, s4, s13, s5)
  BY SessionParts
<1> QED
  BY <1>1 DEF AwaitedBy, KeepsBut

\* An answer that changes nothing but the requests.
LEMMA PlainAnswer ==
  ASSUME SessionAll, NEW i \in DOMAIN s11,
         s11[i].kind \notin {"logout", "metadata", "status", "role"},
         UNCHANGED <<s2, s3, s4, s5, s6, s7, s9, s12, s13, s14>>,
         RequestsFit(s11', s9.issued, s7),
         KeepsBut(s11, s11', s11[i].kind, s11[i].data),
         Signed', \A t \in s10' : t \in s10 \/ Has(s11', "logout")
  PROVE  SessionAll'
<1>1. AwaitedBy(s11', s3, s10', s4, s13, s5)
  BY AwaitedStill
<1>2. Polled(s14, s11') /\ PollingFits(s14) /\ Loaded' /\ FormFits'
  BY SessionParts, PolledKeeps, LoadedStays, FormStays
<1>3. /\ AwaitedBy(s11', s3', s10', s4', s13', s5') /\ Polled(s14', s11') /\ PollingFits(s14')
      /\ RequestsFit(s11', s9'.issued, s7')
  BY <1>1, <1>2
<1> QED
  BY <1>2, <1>3, SessionWhole

LEMMA PlainError ==
  ASSUME SessionAll, NEW i \in DOMAIN s11,
         s11[i].kind \notin {"logout", "metadata", "status", "role"},
         UNCHANGED <<s2, s3, s4, s5, s6, s7, s9, s12, s13, s14>>,
         Session!Failed(i, s11')
  PROVE  SessionAll'
<1>1. Signed'
  BY SignedAfterError
<1> QED
  BY <1>1, FailedFits, PlainAnswer

\* A token that has not been issued before.
LEMMA NewTokenFits ==
  ASSUME SessionAll, NEW t, Session!NewToken(t)
  PROVE  /\ t \in SessionTokens /\ t # Session!None /\ t \notin s10
         /\ t # s3.token /\ t # s7
         /\ s9'.issued = s9.issued \cup {t}
         /\ s9' \in [live : SUBSET SessionTokens, issued : SUBSET SessionTokens]
         /\ s9'.live \subseteq s9'.issued
<1>1. Signed
  BY SessionParts
<1>2. t \in SessionTokens \ s9.issued
      /\ s9' = [live |-> s9.live \cup {t}, issued |-> s9.issued \cup {t}]
  BY DEF Session!NewToken
<1>3. t # Session!None
  BY <1>2, SessionNames
<1> QED
  BY <1>1, <1>2, <1>3 DEF Signed

LEMMA SignedIn ==
  ASSUME SessionAll, NEW t, Session!NewToken(t), s3' = Session!HandleLogin(t),
         UNCHANGED <<s2, s7, s10>>
  PROVE  Signed' /\ s3'.token \notin s10'
<1>1. Signed
  BY SessionParts
<1>2. s3' = [token |-> t, loggedIn |-> TRUE]
  BY NewTokenFits DEF Session!HandleLogin
<1> QED
  BY <1>1, <1>2, NewTokenFits DEF Signed, TokensOrNone

\* What a mutation outdates was not being loaded.
LEMMA MutatedStatus ==
  \A s \in Session!Statuses :
    /\ Session!Mutated(s) \in Session!Statuses
    /\ Session!Mutated(s) = "pending" <=> s = "pending"
BY DEF Session!Statuses, Session!Mutated

LEMMA RolesMutated ==
  ASSUME Loaded
  PROVE  /\ Session!MutatedRoles
              \in [SessionRoles -> [status : Session!Statuses, known : BOOLEAN,
                                    locale : LocalesOrNone]]
         /\ \A r \in SessionRoles :
              Session!MutatedRoles[r].status = "pending" => s5[r].status = "pending"
<1>1. s5 \in [SessionRoles -> [status : Session!Statuses, known : BOOLEAN,
                               locale : LocalesOrNone]]
  BY DEF Loaded
<1> QED
  BY <1>1, MutatedStatus DEF Session!MutatedRoles

LEMMA StoreMutated ==
  ASSUME Loaded, Session!Mutate,
         s5' \in [SessionRoles -> [status : Session!Statuses, known : BOOLEAN,
                                   locale : LocalesOrNone]]
  PROVE  /\ Loaded'
         /\ s4'.status = "pending" => s4.status = "pending"
         /\ s13'.status = "pending" => s13.status = "pending"
<1>1. /\ s4' = [s4 EXCEPT !.status = Session!Mutated(s4.status)]
      /\ s6' = [s6 EXCEPT !.status = Session!Mutated(s6.status)]
      /\ s13' = [s13 EXCEPT !.status = Session!Mutated(s13.status)]
  BY DEF Session!Mutate
<1>2. /\ s4.status \in Session!Statuses /\ s6.status \in Session!Statuses
      /\ s13.status \in Session!Statuses
  BY DEF Loaded
<1>3. /\ s4' \in [status : Session!Statuses, locale : LocalesOrNone]
      /\ s6' \in [status : Session!Statuses, shown : Seq(SessionMessages),
                  dismissed : Seq(SessionMessages)]
      /\ s6'.dismissed = s6.dismissed
      /\ s13' \in [status : Session!Statuses, rows : {Session!None, "idle", "active"}]
  BY <1>1, <1>2, MutatedStatus DEF Loaded
<1>4. Loaded'
  BY <1>3 DEF Loaded
<1>5. /\ s4'.status = Session!Mutated(s4.status)
      /\ s13'.status = Session!Mutated(s13.status)
  BY <1>1 DEF Loaded
<1> QED
  BY <1>2, <1>4, <1>5, MutatedStatus

LEMMA MetadataKeeps ==
  ASSUME SessionAll, s2' = s2, NEW i \in DOMAIN s11, s11[i].kind = "metadata",
         Session!MetadataAnswered(i)
  PROVE  SessionAll'
<1> DEFINE left == Session!Answered(i)
<1>1. /\ Signed /\ Loaded /\ RequestsFit(s11, s9.issued, s7)
      /\ PollingFits(s14) /\ Polled(s14, s11)
  BY SessionParts
<1>2. RequestsFit(left, s9.issued, s7) /\ KeepsBut(s11, left, s11[i].kind, s11[i].data)
  BY <1>1, AnsweredFits
<1>3. s11[i].data \in Locales
  <2>1. s11[i] \in Session!Requests
    BY <1>1 DEF RequestsFit
  <2> QED
    BY <2>1, RequestParts, DataOfKinds
<1>4. CASE /\ \/ \E t \in SessionTokens : Session!NewToken(t) /\ s3' = Session!HandleLogin(t)
              \/ s3' = s3 /\ s9' = s9
           /\ s4' = [status |-> "loaded", locale |-> s11[i].data]
           /\ UNCHANGED <<s5, s6, s13, s7, s10>>
           /\ Session!Rendered(left, s14)
  <2>1. /\ Signed' /\ RequestsFit(left, s9'.issued, s7')
        /\ s3'.token \in s10' => s3' = s3
    <3>1. CASE s3' = s3 /\ s9' = s9
      BY <1>1, <1>2, <1>4, <3>1, SignedStays
    <3>2. ASSUME NEW t \in SessionTokens, Session!NewToken(t), s3' = Session!HandleLogin(t)
          PROVE  /\ Signed' /\ RequestsFit(left, s9'.issued, s7')
                 /\ s3'.token \in s10' => s3' = s3
      <4>1. Signed' /\ s3'.token \notin s10'
        BY <1>4, <3>2, SignedIn
      <4>2. s9'.issued = s9.issued \cup {t} /\ s7' = s7
        BY <1>4, <3>2, NewTokenFits
      <4>3. RequestsFit(left, s9.issued \cup {t}, s7)
        BY <1>2, MoreIssued
      <4> QED
        BY <4>1, <4>2, <4>3
    <3> QED
      BY <1>4, <3>1, <3>2
  <2>2. Loaded'
    BY <1>1, <1>3, <1>4 DEF Loaded, LocalesOrNone, Session!Statuses
  <2>3. s4'.status # "pending" /\ s13' = s13 /\ s5' = s5 /\ s10' = s10
    BY <1>4
  <2>4. AwaitedBy(left, s3', s10', s4', s13', s5')
    BY <1>2, <2>1, <2>3, AwaitedStill
  <2>5. Polled(s14, left)
    BY <1>1, <1>2, PolledKeeps
  <2> QED
    BY <1>1, <1>4, <2>1, <2>2, <2>4, <2>5, RenderedFits
<1>5. ASSUME NEW rs, Session!Failed(i, rs), s4'.status # "pending",
             s4' \in [status : Session!Statuses, locale : LocalesOrNone],
             UNCHANGED <<s3, s5, s6, s13, s7, s9>>, Session!Rendered(rs, s14)
      PROVE  SessionAll'
  <2>1. /\ RequestsFit(rs, s9.issued, s7) /\ KeepsBut(s11, rs, s11[i].kind, s11[i].data)
        /\ \A t \in s10' : t \in s10 \/ Has(rs, "logout")
    BY <1>5, FailedFits
  <2>2. Signed'
    BY <1>5, SignedAfterError
  <2>3. Loaded'
    BY <1>1, <1>5 DEF Loaded
  <2>4. AwaitedBy(rs, s3', s10', s4', s13', s5')
    BY <1>5, <2>1, AwaitedStill
  <2>5. Polled(s14, rs)
    BY <1>1, <2>1, PolledKeeps
  <2>6. RequestsFit(rs, s9'.issued, s7')
    BY <1>5, <2>1
  <2> QED
    BY <1>1, <1>5, <2>2, <2>3, <2>4, <2>5, <2>6, RenderedFits
<1>6. CASE \E rs \in Session!Errors(i) :
             /\ Session!Failed(i, rs)
             /\ s4' = [s4 EXCEPT !.status = IF rs = left THEN "failed" ELSE "refused"]
             /\ UNCHANGED <<s3, s5, s6, s13, s7, s9>>
             /\ Session!Rendered(rs, s14)
  <2>1. PICK rs \in Session!Errors(i) :
             /\ Session!Failed(i, rs)
             /\ s4' = [s4 EXCEPT !.status = IF rs = left THEN "failed" ELSE "refused"]
             /\ UNCHANGED <<s3, s5, s6, s13, s7, s9>>
             /\ Session!Rendered(rs, s14)
    BY <1>6
  <2>2. s4'.status # "pending" /\ s4' \in [status : Session!Statuses, locale : LocalesOrNone]
    BY <1>1, <2>1 DEF Loaded, Session!Statuses
  <2> QED
    BY <1>5, <2>1, <2>2
<1> HIDE DEF left
<1>7. Session!HandleLogin(Session!None) = s3
  BY DEF Session!HandleLogin
<1> QED
  BY <1>4, <1>6, <1>7 DEF Session!MetadataAnswered, left

LEMMA RoleKeeps ==
  ASSUME SessionAll, s2' = s2, NEW i \in DOMAIN s11, s11[i].kind = "role",
         Session!RoleAnswered(i)
  PROVE  SessionAll'
<1> DEFINE left == Session!Answered(i)
           id == s11[i].data
<1>1. /\ Signed /\ Loaded /\ RequestsFit(s11, s9.issued, s7)
      /\ PollingFits(s14) /\ Polled(s14, s11)
  BY SessionParts
<1>2. RequestsFit(left, s9.issued, s7) /\ KeepsBut(s11, left, s11[i].kind, s11[i].data)
  BY <1>1, AnsweredFits
<1>3. id \in SessionRoles
  <2>1. s11[i] \in Session!Requests
    BY <1>1 DEF RequestsFit
  <2> QED
    BY <2>1, RequestParts, DataOfKinds
<1>4. s2.languages \subseteq Locales
  BY <1>1, SessionNames DEF Signed
<1>5. ASSUME NEW rs, RequestsFit(rs, s9.issued, s7),
             KeepsBut(s11, rs, s11[i].kind, s11[i].data),
             \A t \in s10' : t \in s10 \/ Has(rs, "logout"), Signed',
             s5' \in [SessionRoles -> [status : Session!Statuses, known : BOOLEAN,
                                       locale : LocalesOrNone]],
             s5'[id].status # "pending", \A r \in SessionRoles : r # id => s5'[r] = s5[r],
             UNCHANGED <<s3, s4, s6, s13, s7, s9>>, Session!Rendered(rs, s14)
      PROVE  SessionAll'
  <2>1. Loaded'
    BY <1>1, <1>5 DEF Loaded
  <2>2. AwaitedBy(rs, s3', s10', s4', s13', s5')
    BY <1>5, AwaitedStill
  <2>3. Polled(s14, rs)
    BY <1>1, <1>5, PolledKeeps
  <2>4. RequestsFit(rs, s9'.issued, s7')
    BY <1>5
  <2> QED
    BY <1>1, <1>5, <2>1, <2>2, <2>3, <2>4, RenderedFits
<1>6. CASE /\ \E l \in s2.languages \cup {Session!None} :
                s5' = [s5 EXCEPT ![id] = [status |-> "loaded", known |-> TRUE, locale |-> l]]
           /\ UNCHANGED <<s3, s4, s6, s13, s7, s9, s10>>
           /\ Session!Rendered(left, s14)
  <2>1. /\ s5' \in [SessionRoles -> [status : Session!Statuses, known : BOOLEAN,
                                     locale : LocalesOrNone]]
        /\ s5'[id].status # "pending" /\ \A r \in SessionRoles : r # id => s5'[r] = s5[r]
    BY <1>1, <1>3, <1>4, <1>6 DEF Loaded, LocalesOrNone, Session!Statuses
  <2>2. Signed'
    BY <1>1, <1>6, SignedStays
  <2> QED
    BY <1>2, <1>5, <1>6, <2>1, <2>2
<1>7. CASE \E rs \in Session!Errors(i) :
             /\ Session!Failed(i, rs)
             /\ s5' = [s5 EXCEPT ![id].status = "failed"]
             /\ UNCHANGED <<s3, s4, s6, s13, s7, s9>>
             /\ Session!Rendered(rs, s14)
  <2>1. PICK rs \in Session!Errors(i) :
             /\ Session!Failed(i, rs)
             /\ s5' = [s5 EXCEPT ![id].status = "failed"]
             /\ UNCHANGED <<s3, s4, s6, s13, s7, s9>>
             /\ Session!Rendered(rs, s14)
    BY <1>7
  <2>2. /\ s5' \in [SessionRoles -> [status : Session!Statuses, known : BOOLEAN,
                                     locale : LocalesOrNone]]
        /\ s5'[id].status # "pending" /\ \A r \in SessionRoles : r # id => s5'[r] = s5[r]
    BY <1>1, <1>3, <2>1 DEF Loaded, Session!Statuses
  <2>3. Signed'
    BY <2>1, SignedAfterError
  <2> QED
    BY <1>5, <2>1, <2>2, <2>3, FailedFits
<1> HIDE DEF left
<1> QED
  BY <1>6, <1>7 DEF Session!RoleAnswered, left

LEMMA LogoutAnswerKeeps ==
  ASSUME SessionAll, s2' = s2, NEW i \in DOMAIN s11, s11[i].kind = "logout",
         Session!LogoutAnswered(i)
  PROVE  SessionAll'
<1> DEFINE left == Session!Answered(i)
<1>1. /\ Signed /\ Loaded /\ RequestsFit(s11, s9.issued, s7)
      /\ PollingFits(s14) /\ Polled(s14, s11)
  BY SessionParts
<1>2. RequestsFit(left, s9.issued, s7) /\ KeepsBut(s11, left, s11[i].kind, s11[i].data)
  BY <1>1, AnsweredFits
<1>3. s3' = Session!NoSession
  BY DEF Session!LogoutAnswered, Session!HandleLogout
<1>4. s3'.token = Session!None
  BY <1>3 DEF Session!NoSession
<1>5. ASSUME NEW rs, RequestsFit(rs, s9.issued, s7),
             KeepsBut(s11, rs, s11[i].kind, s11[i].data), Signed', s9'.issued = s9.issued,
             UNCHANGED <<s4, s5, s6, s13, s7>>, Session!Rendered(rs, s14)
      PROVE  SessionAll'
  <2>1. Loaded'
    BY <1>1, <1>5, LoadedStays
  <2>2. s3'.token \notin s10'
    BY <1>4, <1>5, SessionNames DEF Signed
  <2>3. AwaitedBy(rs, s3', s10', s4', s13', s5')
    BY <1>5, <2>2, AwaitedStill
  <2>4. Polled(s14, rs)
    BY <1>1, <1>5, PolledKeeps
  <2>5. RequestsFit(rs, s9'.issued, s7')
    BY <1>5
  <2> QED
    BY <1>1, <1>5, <2>1, <2>3, <2>4, <2>5, RenderedFits
<1>6. CASE /\ s9' = [s9 EXCEPT !.live = @ \ {s11[i].token}]
           /\ UNCHANGED <<s4, s5, s6, s13, s7, s10>>
           /\ Session!Rendered(left, s14)
  <2>1. s9'.issued = s9.issued /\ Signed'
    BY <1>1, <1>3, <1>6 DEF Signed, Session!NoSession, TokensOrNone
  <2> QED
    BY <1>2, <1>5, <1>6, <2>1
<1>7. CASE \E rs \in Session!Errors(i) :
             /\ Session!Failed(i, rs)
             /\ UNCHANGED <<s4, s5, s6, s13, s7, s9>>
             /\ Session!Rendered(rs, s14)
  <2>1. PICK rs \in Session!Errors(i) :
             /\ Session!Failed(i, rs)
             /\ UNCHANGED <<s4, s5, s6, s13, s7, s9>>
             /\ Session!Rendered(rs, s14)
    BY <1>7
  <2>2. Signed'
    BY <1>3, <2>1, SignedAfterError
  <2> QED
    BY <1>5, <2>1, <2>2, FailedFits
<1> HIDE DEF left
<1> QED
  BY <1>6, <1>7 DEF Session!LogoutAnswered, left

LEMMA CodeKeeps ==
  ASSUME SessionAll, s2' = s2, NEW i \in DOMAIN s11, s11[i].kind = "code",
         Session!CodeAnswered(i)
  PROVE  SessionAll'
<1>1. UNCHANGED <<s2, s3, s4, s5, s6, s7, s9, s12, s13, s14>>
  BY StoreStays DEF Session!CodeAnswered
<1>2. CASE s11' = Session!Answered(i) /\ s10' = s10
  <2>1. /\ RequestsFit(s11', s9.issued, s7)
        /\ KeepsBut(s11, s11', s11[i].kind, s11[i].data)
    BY <1>2, SessionParts, AnsweredFits
  <2>2. Signed'
    BY <1>1, <1>2, SessionParts, SignedStays
  <2> QED
    BY <1>1, <1>2, <2>1, <2>2, PlainAnswer
<1>3. CASE Session!Failed(i, s11')
  BY <1>1, <1>3, PlainError
<1> QED
  BY <1>2, <1>3 DEF Session!CodeAnswered

LEMMA LoginKeeps ==
  ASSUME SessionAll, s2' = s2, NEW i \in DOMAIN s11, s11[i].kind = "login",
         Session!LoginAnswered(i)
  PROVE  SessionAll'
<1> DEFINE left == Session!Answered(i)
<1>1. /\ Signed /\ Loaded /\ RequestsFit(s11, s9.issued, s7)
      /\ PollingFits(s14) /\ Polled(s14, s11)
  BY SessionParts
<1>2. RequestsFit(left, s9.issued, s7) /\ KeepsBut(s11, left, s11[i].kind, s11[i].data)
  BY <1>1, AnsweredFits
<1>3. CASE /\ \E t \in SessionTokens : Session!NewToken(t) /\ Session!LoginWithToken(t)
           /\ UNCHANGED <<s7, s10>>
           /\ Session!Rendered(left, s14)
  <2>1. PICK t \in SessionTokens : Session!NewToken(t) /\ Session!LoginWithToken(t)
    BY <1>3
  <2>2. s3' = Session!HandleLogin(t) /\ s5' = Session!MutatedRoles /\ Session!Mutate
    BY <2>1 DEF Session!LoginWithToken
  <2>3. Signed' /\ s3'.token \notin s10'
    BY <1>3, <2>1, <2>2, SignedIn
  <2>4. s9'.issued = s9.issued \cup {t} /\ s7' = s7
    BY <1>3, <2>1, NewTokenFits
  <2>5. RequestsFit(left, s9'.issued, s7')
    <3>1. RequestsFit(left, s9.issued \cup {t}, s7)
      BY <1>2, MoreIssued
    <3> QED
      BY <2>4, <3>1
  <2>6. /\ Loaded'
        /\ s4'.status = "pending" => s4.status = "pending"
        /\ s13'.status = "pending" => s13.status = "pending"
    BY <1>1, <2>2, RolesMutated, StoreMutated
  <2>7. \A r \in SessionRoles : s5'[r].status = "pending" => s5[r].status = "pending"
    BY <1>1, <2>2, RolesMutated
  <2>8. AwaitedBy(left, s3', s10', s4', s13', s5')
    BY <1>2, <2>3, <2>6, <2>7, AwaitedStill
  <2>9. Polled(s14, left)
    BY <1>1, <1>2, PolledKeeps
  <2> QED
    BY <1>1, <1>3, <2>3, <2>5, <2>6, <2>8, <2>9, RenderedFits
<1>4. CASE /\ Session!Failed(i, s11')
           /\ UNCHANGED <<Session!store, s7, s9, s12, s14>>
  <2>1. UNCHANGED <<s2, s3, s4, s5, s6, s7, s9, s12, s13, s14>>
    BY <1>4, StoreStays
  <2> QED
    BY <1>4, <2>1, PlainError
<1> HIDE DEF left
<1> QED
  BY <1>3, <1>4 DEF Session!LoginAnswered, left

LEMMA ActivateKeeps ==
  ASSUME SessionAll, s2' = s2, NEW i \in DOMAIN s11, s11[i].kind = "activate",
         Session!ActivateAnswered(i)
  PROVE  SessionAll'
<1> DEFINE left == Session!Answered(i)
<1>1. UNCHANGED <<s2, s3, s4, s5, s6, s7, s9, s12, s13, s14>>
  BY StoreStays DEF Session!ActivateAnswered
<1>2. CASE s11' = Append(left, Session!Asked("login", Session!None)) /\ s10' = s10
  <2>1. /\ RequestsFit(left, s9.issued, s7)
        /\ KeepsBut(s11, left, s11[i].kind, s11[i].data)
    BY SessionParts, AnsweredFits
  <2>2. "login" \in Session!Kinds /\ Session!None \in Session!DataOf("login")
    BY DataOfKinds DEF Session!Kinds
  <2> HIDE DEF left
  <2>3. RequestsFit(s11', s9.issued, s7) /\ Keeps(left, s11')
    BY <1>2, <2>1, <2>2, SessionParts, AppendAsked
  <2>4. KeepsBut(s11, s11', s11[i].kind, s11[i].data)
    BY <2>1, <2>3, KeepsTwice
  <2>5. Signed'
    BY <1>1, <1>2, SessionParts, SignedStays
  <2> QED
    BY <1>1, <1>2, <2>3, <2>4, <2>5, PlainAnswer
<1>3. CASE Session!Failed(i, s11')
  BY <1>1, <1>3, PlainError
<1> QED
  BY <1>2, <1>3 DEF Session!ActivateAnswered

LEMMA UpdateKeeps ==
  ASSUME SessionAll, s2' = s2, NEW i \in DOMAIN s11, s11[i].kind = "update",
         Session!UpdateAnswered(i)
  PROVE  SessionAll'
<1> DEFINE left == Session!Answered(i)
           updated == s11[i].data
<1>1. /\ Signed /\ Loaded /\ RequestsFit(s11, s9.issued, s7)
      /\ PollingFits(s14) /\ Polled(s14, s11)
  BY SessionParts
<1>2. RequestsFit(left, s9.issued, s7) /\ KeepsBut(s11, left, s11[i].kind, s11[i].data)
  BY <1>1, AnsweredFits
<1>3. updated.id \in SessionRoles /\ updated.locale \in LocalesOrNone
  <2>1. s11[i] \in Session!Requests
    BY <1>1 DEF RequestsFit
  <2>2. updated \in Session!DataOf("update")
    BY <2>1, RequestParts
  <2> HIDE DEF updated
  <2>3. updated \in [id : SessionRoles, name : {"long"}, locale : LocalesOrNone,
                     password : Session!Typed, confirm : Session!Typed]
    BY <2>2, DataOfKinds DEF LocalesOrNone
  <2> QED
    BY <2>3
<1> DEFINE stored == [status |-> "shallow", known |-> TRUE, locale |-> updated.locale]
<1>4. CASE /\ s5' = [Session!MutatedRoles EXCEPT ![updated.id] = stored]
           /\ Session!Mutate
           /\ UNCHANGED <<s3, s7, s9, s10>>
           /\ Session!Rendered(left, s14)
  <2>1. /\ stored \in [status : Session!Statuses, known : BOOLEAN, locale : LocalesOrNone]
        /\ stored.status # "pending"
    BY <1>3 DEF Session!Statuses
  <2> HIDE DEF stored
  <2>2. s5' \in [SessionRoles -> [status : Session!Statuses, known : BOOLEAN,
                                  locale : LocalesOrNone]]
    BY <1>1, <1>4, <2>1, RolesMutated
  <2>3. \A r \in SessionRoles : s5'[r].status = "pending" => s5[r].status = "pending"
    BY <1>1, <1>3, <1>4, <2>1, RolesMutated
  <2>4. /\ Loaded'
        /\ s4'.status = "pending" => s4.status = "pending"
        /\ s13'.status = "pending" => s13.status = "pending"
    BY <1>1, <1>4, <2>2, StoreMutated
  <2>5. AwaitedBy(left, s3', s10', s4', s13', s5')
    BY <1>2, <1>4, <2>3, <2>4, AwaitedStill
  <2>6. Polled(s14, left)
    BY <1>1, <1>2, PolledKeeps
  <2>7. Signed' /\ RequestsFit(left, s9'.issued, s7')
    BY <1>1, <1>2, <1>4, SignedStays
  <2> QED
    BY <1>1, <2>4, <2>5, <2>6, <2>7, <1>4, RenderedFits
<1>5. CASE /\ Session!Failed(i, s11')
           /\ UNCHANGED <<Session!store, s7, s9, s12, s14>>
  <2>1. UNCHANGED <<s2, s3, s4, s5, s6, s7, s9, s12, s13, s14>>
    BY <1>5, StoreStays
  <2> QED
    BY <1>5, <2>1, PlainError
<1> HIDE DEF left
<1> QED
  BY <1>4, <1>5 DEF Session!UpdateAnswered, left

-----------------------------------------------------------------------------
(* The session: the messages and the page of the tasks                      *)

LEMMA MessagesSetToSeq ==
  ASSUME NEW S \in SUBSET SessionMessages
  PROVE  Session!SetToSeq(S) \in Seq(SessionMessages)
<1> DEFINE n == Cardinality(S)
           seq == Session!SetToSeq(S)
<1>1. IsFiniteSet(S)
  BY SessionNames, FS_Subset
<1>2. n \in Nat /\ ExistsBijection(1..n, S)
  BY <1>1, FS_CardinalityType
<1>3. PICK f \in [1..n -> S] : \A i, j \in 1..n : f[i] = f[j] => i = j
  BY <1>2 DEF ExistsBijection, Bijection, Injection, IsInjective
<1>4. \A i, j \in DOMAIN f : f[i] = f[j] => i = j
  BY <1>3
<1>5. seq = CHOOSE g \in [1..n -> S] : \A i, j \in DOMAIN g : g[i] = g[j] => i = j
  BY DEF Session!SetToSeq, Session!Cardinality, Cardinality, Session!IsFiniteSet, IsFiniteSet
<1> HIDE DEF n, seq
<1>6. seq \in [1..n -> S]
  BY <1>3, <1>4, <1>5
<1>7. seq \in Seq(S)
  BY <1>2, <1>6
<1> QED
  BY <1>7 DEF seq

\* Only the messages, of what is loaded, change.
LEMMA MessagesRendered ==
  ASSUME SessionAll, NEW rs, UNCHANGED <<s2, s3, s4, s5, s7, s9, s10, s13>>,
         s6' \in [status : Session!Statuses, shown : Seq(SessionMessages),
                  dismissed : Seq(SessionMessages)],
         Len(s6'.dismissed) <= DismissedLimit,
         RequestsFit(rs, s9.issued, s7),
         Keeps(s11, rs) \/ \E data : KeepsBut(s11, rs, "messages", data),
         Session!Rendered(rs, s14)
  PROVE  SessionAll'
<1>1. /\ Signed /\ Loaded /\ PollingFits(s14) /\ Polled(s14, s11)
      /\ AwaitedBy(s11, s3, s10, s4, s13, s5)
  BY SessionParts
<1>2. Signed'
  BY <1>1, SignedStays
<1>3. Loaded'
  BY <1>1 DEF Loaded
<1>4. AwaitedBy(rs, s3, s10, s4, s13, s5) /\ Polled(s14, rs)
  <2>1. CASE Keeps(s11, rs)
    BY <1>1, <2>1, AwaitKeeps, PolledKeeps
  <2>2. ASSUME NEW data, KeepsBut(s11, rs, "messages", data)
        PROVE  AwaitedBy(rs, s3, s10, s4, s13, s5) /\ Polled(s14, rs)
    BY <1>1, <2>2, AwaitKeepsBut, PolledKeeps
  <2> QED
    BY <2>1, <2>2
<1>5. AwaitedBy(rs, s3', s10', s4', s13', s5') /\ RequestsFit(rs, s9'.issued, s7')
  BY <1>4
<1> QED
  BY <1>1, <1>2, <1>3, <1>4, <1>5, RenderedFits

LEMMA FetchMessagesKeeps ==
  ASSUME SessionAll, s2' = s2, Session!FetchMessages PROVE SessionAll'
<1> DEFINE r == [kind |-> "messages", token |-> Session!None, data |-> Session!None]
           rs == Append(s11, r)
<1>1. /\ UNCHANGED <<s3, s4, s5, s13, s7, s9, s10>>
      /\ s6' = [s6 EXCEPT !.status = "pending"] /\ Session!Rendered(rs, s14)
  BY DEF Session!FetchMessages
<1>2. r \in Session!Requests
  <2>1. /\ "messages" \in Session!Kinds /\ Session!None \in TokensOrNone
        /\ Session!None \in Session!DataOf("messages")
    BY DataOfKinds DEF Session!Kinds, TokensOrNone
  <2> QED
    BY <2>1, RequestMade
<1>3. RequestFits(r, s9.issued, s7)
  BY DEF RequestFits
<1> HIDE DEF r
<1>4. RequestsFit(rs, s9.issued, s7) /\ Keeps(s11, rs)
  BY <1>2, <1>3, SessionParts, AppendFits
<1> HIDE DEF rs
<1>5. /\ s6' \in [status : Session!Statuses, shown : Seq(SessionMessages),
                  dismissed : Seq(SessionMessages)]
      /\ Len(s6'.dismissed) <= DismissedLimit
  BY <1>1, SessionParts DEF Loaded, Session!Statuses
<1> QED
  BY <1>1, <1>4, <1>5, MessagesRendered

LEMMA MessagesKeeps ==
  ASSUME SessionAll, s2' = s2, NEW i \in DOMAIN s11, s11[i].kind = "messages",
         Session!MessagesAnswered(i)
  PROVE  SessionAll'
<1> DEFINE left == Session!Answered(i)
<1>1. UNCHANGED <<s3, s4, s5, s13, s7, s9, s10>> /\ Session!Rendered(left, s14)
  BY DEF Session!MessagesAnswered
<1>2. /\ s6' \in [status : Session!Statuses, shown : Seq(SessionMessages),
                  dismissed : Seq(SessionMessages)]
      /\ s6'.dismissed = s6.dismissed
  <2>1. CASE s6' = [s6 EXCEPT !.status = "failed"]
    BY <2>1, SessionParts DEF Loaded, Session!Statuses
  <2>2. CASE Session!MessagesLoaded
    <3>1. PICK some \in SUBSET SessionMessages :
            s6' = [s6 EXCEPT !.status = "loaded", !.shown = Session!SetToSeq(some)]
      BY <2>2, Zenon DEF Session!MessagesLoaded
    <3> QED
      BY <3>1, SessionParts, MessagesSetToSeq DEF Loaded, Session!Statuses
  <2> QED
    BY <2>1, <2>2 DEF Session!MessagesAnswered
<1>3. Len(s6'.dismissed) <= DismissedLimit
  BY <1>2, SessionParts DEF Loaded
<1>4. RequestsFit(left, s9.issued, s7) /\ KeepsBut(s11, left, "messages", s11[i].data)
  BY SessionParts, AnsweredFits
<1> HIDE DEF left
<1> QED
  BY <1>1, <1>2, <1>3, <1>4, MessagesRendered

LEMMA DismissedFits ==
  ASSUME Loaded, NEW m \in SessionMessages
  PROVE  /\ Session!Dismissed(m) \in Seq(SessionMessages)
         /\ Len(Session!Dismissed(m)) <= DismissedLimit
<1> DEFINE d == s6.dismissed
           n == IF Len(d) < DismissedLimit THEN Len(d) ELSE DismissedLimit - 1
           some == SubSeq(d, 1, n)
<1>1. d \in Seq(SessionMessages) /\ Len(d) \in Nat /\ Len(d) <= DismissedLimit
  BY DEF Loaded
<1>2. n \in Nat /\ n <= Len(d) /\ n + 1 <= DismissedLimit
  BY <1>1, SessionNames
<1>3. Session!Dismissed(m) = <<m>> \o some
  BY DEF Session!Dismissed
<1> HIDE DEF d, n
<1>4. some \in Seq(SessionMessages) /\ Len(some) = n
  BY <1>1, <1>2
<1>5. <<m>> \in Seq(SessionMessages) /\ Len(<<m>>) = 1
  OBVIOUS
<1> HIDE DEF some
<1>6. <<m>> \o some \in Seq(SessionMessages) /\ Len(<<m>> \o some) = 1 + n
  BY <1>4, <1>5, JoinedPosition
<1>7. Len(<<m>> \o some) <= DismissedLimit
  BY <1>2, <1>6, SessionNames
<1> QED
  BY <1>3, <1>6, <1>7

LEMMA DismissKeeps ==
  ASSUME SessionAll, s2' = s2, Session!DismissMessage PROVE SessionAll'
<1>1. PICK over : /\ Session!Active(over) # <<>>
                  /\ s6' = [s6 EXCEPT !.dismissed =
                              Session!Dismissed(Head(Session!Active(over)))]
  BY DEF Session!DismissMessage
<1>2. UNCHANGED <<s3, s4, s5, s13, s7, s9, s10>> /\ Session!Rendered(s11, s14)
  BY DEF Session!DismissMessage
<1> DEFINE S == SessionMessages \ (Session!ToSet(s6.dismissed) \cup over)
           m == Head(Session!Active(over))
<1>3. Session!Active(over) = Filtered(s6.shown, S)
  BY DEF Session!Active, Session!Filtered, Filtered, Session!Positions, Positions,
         Session!Rank, Rank, Session!Cardinality, Cardinality, Session!IsFiniteSet, IsFiniteSet
<1> HIDE DEF S
<1>4. s6.shown \in Seq(SessionMessages)
  BY SessionParts DEF Loaded
<1>5. m \in SessionMessages
  <2>1. Filtered(s6.shown, S) \in Seq(SessionMessages)
    BY <1>4, FilteredShorter
  <2> QED
    BY <1>1, <1>3, <2>1
<1> HIDE DEF m
<1>6. /\ s6' \in [status : Session!Statuses, shown : Seq(SessionMessages),
                  dismissed : Seq(SessionMessages)]
      /\ s6'.dismissed = Session!Dismissed(m)
  BY <1>1, <1>5, SessionParts, DismissedFits DEF Loaded, m
<1>7. Len(s6'.dismissed) <= DismissedLimit
  BY <1>5, <1>6, SessionParts, DismissedFits
<1> QED
  BY <1>2, <1>6, <1>7, SessionParts, KeepsTwice, MessagesRendered

\* A load is asked for by a visit, and the timer that it knows of is cleared.
LEMMA FetchStatusKeeps ==
  ASSUME SessionAll, s2' = s2, NEW v \in Session!Visits, NEW p, PollingFits(p),
         p.mounted => p.visit = v \/ HasFor(s11, "status", p.visit)
                      \/ p.visit \in p.held \cup ValuesOf(p.loose),
         Session!FetchStatus(v, p)
  PROVE  SessionAll'
<1> DEFINE rs == Append(s11, Session!Asked("status", v))
           q == [p EXCEPT !.held = @ \ {v}]
<1>1. /\ UNCHANGED <<s3, s4, s5, s6, s7, s9, s10>>
      /\ s13' = [s13 EXCEPT !.status = "pending"] /\ Session!Rendered(rs, q)
  BY DEF Session!FetchStatus
<1>2. RequestsFit(rs, s9.issued, s7) /\ Keeps(s11, rs) /\ HasFor(rs, "status", v)
  <2>1. "status" \in Session!Kinds /\ v \in Session!DataOf("status")
    BY DataOfKinds DEF Session!Kinds
  <2> QED
    BY <2>1, SessionParts, AppendAsked
<1> HIDE DEF rs
<1>3. PollingFits(q) /\ q.mounted = p.mounted /\ q.visit = p.visit
      /\ q.held = p.held \ {v} /\ q.loose = p.loose
  BY DEF PollingFits, Pollings
<1> HIDE DEF q
<1>4. Polled(q, rs)
  BY <1>2, <1>3 DEF Polled, Keeps
<1>5. Signed'
  BY <1>1, SessionParts, SignedStays
<1>6. Loaded'
  BY <1>1, SessionParts DEF Loaded, Session!Statuses
<1>7. AwaitedBy(rs, s3', s10', s4', s13', s5')
  <2>1. AwaitedBy(rs, s3, s10, s4, s13, s5)
    BY <1>2, SessionParts, AwaitKeeps
  <2>2. Has(rs, "status")
    BY <1>2 DEF Has, HasFor
  <2> QED
    BY <1>1, <2>1, <2>2 DEF AwaitedBy
<1>8. RequestsFit(rs, s9'.issued, s7')
  BY <1>1, <1>2
<1> QED
  BY <1>1, <1>3, <1>4, <1>5, <1>6, <1>7, <1>8, RenderedFits

LEMMA VisitKeeps ==
  ASSUME SessionAll, s2' = s2, Session!VisitStatus PROVE SessionAll'
<1> DEFINE p == [s14 EXCEPT !.visit = @ + 1, !.mounted = TRUE]
<1>1. s14.visit < MaxVisits /\ Session!FetchStatus(s14.visit + 1, p)
  BY DEF Session!VisitStatus
<1>2. s14.visit \in 0..MaxVisits /\ s14 \in Pollings
  BY SessionParts DEF PollingFits, Pollings
<1>3. s14.visit + 1 \in Session!Visits /\ s14.visit + 1 \in 0..MaxVisits /\ s14.visit + 1 # 0
  BY <1>1, <1>2, SessionNames DEF Session!Visits
<1>4. PollingFits(p) /\ p.visit = s14.visit + 1
  BY <1>2, <1>3 DEF PollingFits, Pollings
<1> HIDE DEF p
<1> QED
  BY <1>1, <1>3, <1>4, FetchStatusKeeps

LEMMA LeaveKeeps ==
  ASSUME SessionAll, s2' = s2, Session!LeaveStatus PROVE SessionAll'
<1>1. UNCHANGED <<s2, s3, s4, s5, s6, s7, s9, s10, s11, s12, s13>> /\ s14' = Session!Left(s14)
  BY StoreStays DEF Session!LeaveStatus
<1>2. s14' \in Pollings /\ ~s14'.mounted
  BY <1>1, SessionParts DEF PollingFits, Pollings, Session!Left
<1>3. PollingFits(s14') /\ Polled(s14', s11')
  BY <1>2 DEF PollingFits, Polled
<1>4. AwaitedBy(s11', s3', s10', s4', s13', s5') /\ RequestsFit(s11', s9'.issued, s7')
  BY <1>1, SessionParts
<1> QED
  BY <1>1, <1>3, <1>4, SessionParts, SignedStays, LoadedStays, FormStays, SessionWhole

LEMMA OutdatedKeeps ==
  ASSUME SessionAll, s2' = s2, Session!StatusOutdated PROVE SessionAll'
<1>1. s14.mounted /\ Session!FetchStatus(s14.visit, s14)
  BY DEF Session!StatusOutdated
<1>2. s14.visit \in Session!Visits
  BY <1>1, SessionParts, SessionNames DEF PollingFits, Pollings, Session!Visits
<1> QED
  BY <1>1, <1>2, SessionParts, FetchStatusKeeps

LEMMA TimerRemoved ==
  ASSUME NEW s \in Seq(Session!Visits), NEW i \in DOMAIN s
  PROVE  LET loose == Session!RemoveAt(s, i)
         IN /\ loose \in Seq(Session!Visits)
            /\ ValuesOf(s) \subseteq ValuesOf(loose) \cup {s[i]}
<1> DEFINE loose == Session!RemoveAt(s, i)
<1>1. /\ loose \in Seq(Session!Visits) /\ Len(loose) = Len(s) - 1
      /\ \A j \in DOMAIN loose : loose[j] = IF j < i THEN s[j] ELSE s[j + 1]
  BY RemovedPosition DEF Session!RemoveAt
<1>2. DOMAIN loose = 1..(Len(s) - 1) /\ DOMAIN s = 1..Len(s) /\ Len(s) \in Nat
  BY <1>1
<1> HIDE DEF loose
<1>3. ASSUME NEW m \in DOMAIN s, m # i PROVE s[m] \in ValuesOf(loose)
  <2>1. CASE m < i
    <3>1. m \in DOMAIN loose /\ loose[m] = s[m]
      BY <1>1, <1>2, <2>1
    <3> QED
      BY <3>1 DEF ValuesOf
  <2>2. CASE m > i
    <3>1. m - 1 \in DOMAIN loose
      BY <1>2, <2>2
    <3>2. loose[m - 1] = s[m]
      BY <1>1, <1>2, <2>2, <3>1
    <3> QED
      BY <3>1, <3>2 DEF ValuesOf
  <2> QED
    BY <1>2, <1>3, <2>1, <2>2
<1> QED
  BY <1>1, <1>3 DEF ValuesOf, loose

LEMMA TimerKeeps ==
  ASSUME SessionAll, s2' = s2, Session!TimerFires PROVE SessionAll'
<1>1. /\ PollingFits(s14) /\ s14.held \subseteq Session!Visits
      /\ s14.loose \in Seq(Session!Visits) /\ s14 \in Pollings
  BY SessionParts DEF PollingFits, Pollings
<1>2. s14.mounted => HasFor(s11, "status", s14.visit)
                     \/ s14.visit \in s14.held \cup ValuesOf(s14.loose)
  BY SessionParts DEF Polled
<1>3. ASSUME NEW v \in s14.held, Session!FetchStatus(v, s14) PROVE SessionAll'
  BY <1>1, <1>2, <1>3, FetchStatusKeeps
<1>4. ASSUME NEW i \in DOMAIN s14.loose,
             Session!FetchStatus(s14.loose[i],
                                 [s14 EXCEPT !.loose = Session!RemoveAt(@, i)])
      PROVE  SessionAll'
  <2> DEFINE loose == Session!RemoveAt(s14.loose, i)
             p == [s14 EXCEPT !.loose = loose]
             v == s14.loose[i]
  <2>1. v \in Session!Visits
    BY <1>1
  <2>2. loose \in Seq(Session!Visits) /\ ValuesOf(s14.loose) \subseteq ValuesOf(loose) \cup {v}
    BY <1>1, TimerRemoved
  <2>3. Session!FetchStatus(v, p)
    BY <1>4
  <2> HIDE DEF loose, v
  <2>4. PollingFits(p) /\ p.mounted = s14.mounted /\ p.visit = s14.visit
        /\ p.held = s14.held /\ p.loose = loose
    BY <1>1, <2>2 DEF PollingFits, Pollings
  <2> HIDE DEF p
  <2>5. p.mounted => p.visit = v \/ HasFor(s11, "status", p.visit)
                     \/ p.visit \in p.held \cup ValuesOf(p.loose)
    BY <1>2, <2>2, <2>4
  <2> QED
    BY <2>1, <2>3, <2>4, <2>5, FetchStatusKeeps
<1> QED
  BY <1>3, <1>4 DEF Session!TimerFires

LEMMA StatusKeeps ==
  ASSUME SessionAll, s2' = s2, NEW i \in DOMAIN s11, s11[i].kind = "status",
         Session!StatusAnswered(i)
  PROVE  SessionAll'
<1> DEFINE left == Session!Answered(i)
           v == s11[i].data
           p == Session!Timed(v)
<1>1. /\ Signed /\ Loaded /\ RequestsFit(s11, s9.issued, s7)
      /\ PollingFits(s14) /\ Polled(s14, s11)
  BY SessionParts
<1>2. RequestsFit(left, s9.issued, s7) /\ KeepsBut(s11, left, s11[i].kind, s11[i].data)
  BY <1>1, AnsweredFits
<1>3. v \in Session!Visits
  <2>1. s11[i] \in Session!Requests
    BY <1>1 DEF RequestsFit
  <2> QED
    BY <2>1, RequestParts, DataOfKinds
<1>4. /\ p \in Pollings /\ p.mounted = s14.mounted /\ p.visit = s14.visit
      /\ s14.held \cup {v} \subseteq p.held /\ ValuesOf(s14.loose) \subseteq ValuesOf(p.loose)
  <2> DEFINE loose == IF v \in s14.held THEN Append(s14.loose, v) ELSE s14.loose
  <2>1. s14 \in Pollings /\ s14.loose \in Seq(Session!Visits)
    BY <1>1 DEF PollingFits, Pollings
  <2>2. loose \in Seq(Session!Visits) /\ ValuesOf(s14.loose) \subseteq ValuesOf(loose)
    <3> DEFINE s == s14.loose
               t == Append(s, v)
    <3>1. /\ t \in Seq(Session!Visits) /\ DOMAIN s = 1..Len(s) /\ Len(s) \in Nat
          /\ DOMAIN t = 1..(Len(s) + 1) /\ \A j \in DOMAIN s : j \in DOMAIN t /\ t[j] = s[j]
      BY <1>3, <2>1
    <3> HIDE DEF t
    <3>2. ValuesOf(s) \subseteq ValuesOf(t)
      BY <3>1 DEF ValuesOf
    <3> QED
      BY <2>1, <3>1, <3>2 DEF t
  <2>3. p = [s14 EXCEPT !.held = s14.held \cup {v}, !.loose = loose]
    BY <2>1 DEF Session!Timed, Pollings
  <2> HIDE DEF loose, p, v
  <2> QED
    BY <1>3, <2>1, <2>2, <2>3 DEF Pollings
<1>5. PollingFits(p)
  BY <1>1, <1>4 DEF PollingFits
<1>6. ASSUME NEW rs, RequestsFit(rs, s9.issued, s7),
             KeepsBut(s11, rs, s11[i].kind, s11[i].data),
             \A t \in s10' : t \in s10 \/ Has(rs, "logout"), Signed',
             s13' \in [status : Session!Statuses, rows : {Session!None, "idle", "active"}],
             s13'.status # "pending",
             UNCHANGED <<s3, s4, s5, s6, s7, s9>>, Session!Rendered(rs, p)
      PROVE  SessionAll'
  <2>1. Loaded'
    BY <1>1, <1>6 DEF Loaded
  <2>2. AwaitedBy(rs, s3', s10', s4', s13', s5')
    BY <1>6, AwaitedStill
  <2> HIDE DEF p
  <2>3. Polled(p, rs)
    <3>1. CASE s14.visit = v
      BY <1>4, <3>1 DEF Polled
    <3>2. CASE s14.visit # v
      BY <1>1, <1>4, <1>6, <3>2 DEF Polled, KeepsBut
    <3> QED
      BY <3>1, <3>2
  <2>4. RequestsFit(rs, s9'.issued, s7')
    BY <1>6
  <2> QED
    BY <1>5, <1>6, <2>1, <2>2, <2>3, <2>4, RenderedFits
<1>7. UNCHANGED <<s3, s4, s5, s6, s7, s9>>
  BY DEF Session!StatusAnswered
<1>8. CASE /\ \E rows \in {"idle", "active"} : s13' = [status |-> "loaded", rows |-> rows]
           /\ s10' = s10 /\ Session!Rendered(left, p)
  <2>1. /\ s13' \in [status : Session!Statuses, rows : {Session!None, "idle", "active"}]
        /\ s13'.status # "pending"
    BY <1>8 DEF Session!Statuses
  <2>2. Signed'
    BY <1>1, <1>7, <1>8, SignedStays
  <2> HIDE DEF left, p
  <2> QED
    BY <1>2, <1>6, <1>7, <1>8, <2>1, <2>2
<1>9. ASSUME NEW rs, Session!Failed(i, rs), s13' = [s13 EXCEPT !.status = "failed"],
             Session!Rendered(rs, p)
      PROVE  SessionAll'
  <2>1. /\ s13' \in [status : Session!Statuses, rows : {Session!None, "idle", "active"}]
        /\ s13'.status # "pending"
    BY <1>1, <1>9 DEF Loaded, Session!Statuses
  <2>2. Signed'
    BY <1>7, <1>9, SignedAfterError
  <2>3. /\ RequestsFit(rs, s9.issued, s7)
        /\ KeepsBut(s11, rs, s11[i].kind, s11[i].data)
        /\ \A t \in s10' : t \in s10 \/ Has(rs, "logout")
    BY <1>9, FailedFits
  <2> HIDE DEF p
  <2> QED
    BY <1>6, <1>7, <1>9, <2>1, <2>2, <2>3
<1> HIDE DEF left, p
<1> QED
  BY <1>8, <1>9 DEF Session!StatusAnswered, left, p

\* The collection is not cancelled any more: the page loads what there is.
LEMMA CancelAnswerKeeps ==
  ASSUME SessionAll, s2' = s2, NEW i \in DOMAIN s11, s11[i].kind = "cancel",
         Session!CancelAnswered(i)
  PROVE  SessionAll'
<1> DEFINE left == Session!Answered(i)
           v == s11[i].data
           again == Append(left, Session!Asked("status", v))
           more == Append(again, Session!Asked("status", s14.visit))
<1>1. /\ Signed /\ Loaded /\ RequestsFit(s11, s9.issued, s7)
      /\ PollingFits(s14) /\ Polled(s14, s11)
  BY SessionParts
<1>2. RequestsFit(left, s9.issued, s7) /\ KeepsBut(s11, left, s11[i].kind, s11[i].data)
  BY <1>1, AnsweredFits
<1>3. v \in Session!Visits
  <2>1. s11[i] \in Session!Requests
    BY <1>1 DEF RequestsFit
  <2> QED
    BY <2>1, RequestParts, DataOfKinds
<1> HIDE DEF v, left
<1>4. "status" \in Session!Kinds /\ v \in Session!DataOf("status")
  BY <1>3, DataOfKinds DEF Session!Kinds
<1>5. /\ RequestsFit(again, s9.issued, s7) /\ Keeps(left, again)
      /\ Has(again, "status") /\ HasFor(again, "status", v)
  BY <1>1, <1>2, <1>4, AppendAsked
<1>6. KeepsBut(s11, again, s11[i].kind, s11[i].data)
  BY <1>2, <1>5, KeepsTwice
<1> HIDE DEF again
<1>7. ASSUME s14.mounted
      PROVE  /\ RequestsFit(more, s9.issued, s7) /\ Keeps(again, more)
             /\ Has(more, "status") /\ HasFor(more, "status", s14.visit)
             /\ KeepsBut(s11, more, s11[i].kind, s11[i].data)
  <2>1. s14.visit \in Session!DataOf("status")
    BY <1>1, <1>7, SessionNames, DataOfKinds DEF PollingFits, Pollings, Session!Visits
  <2>2. /\ RequestsFit(more, s9.issued, s7) /\ Keeps(again, more)
        /\ Has(more, "status") /\ HasFor(more, "status", s14.visit)
    BY <1>1, <1>4, <1>5, <2>1, AppendAsked
  <2> QED
    BY <1>6, <2>2, KeepsTwice
<1> HIDE DEF more
<1>8. ASSUME NEW rs, RequestsFit(rs, s9.issued, s7),
             KeepsBut(s11, rs, s11[i].kind, s11[i].data), Has(rs, "status"),
             NEW cleared, \A u \in cleared : HasFor(rs, "status", u),
             s5' = Session!MutatedRoles,
             s4' = [s4 EXCEPT !.status = Session!Mutated(@)],
             s6' = [s6 EXCEPT !.status = Session!Mutated(@)],
             s13' = [s13 EXCEPT !.status = "pending"],
             UNCHANGED <<s3, s7, s9, s10>>,
             Session!Rendered(rs, [s14 EXCEPT !.held = @ \ cleared])
      PROVE  SessionAll'
  <2> DEFINE p == [s14 EXCEPT !.held = @ \ cleared]
  <2>1. PollingFits(p) /\ p.mounted = s14.mounted /\ p.visit = s14.visit
        /\ p.held = s14.held \ cleared /\ p.loose = s14.loose
    BY <1>1 DEF PollingFits, Pollings
  <2>2. Session!Rendered(rs, p)
    BY <1>8
  <2> HIDE DEF p
  <2>3. Polled(p, rs)
    BY <1>1, <1>8, <2>1 DEF Polled, KeepsBut
  <2>4. Signed'
    BY <1>1, <1>8, SignedStays
  <2>5. /\ s4.status \in Session!Statuses /\ s6.status \in Session!Statuses
        /\ s13.status \in Session!Statuses
    BY <1>1 DEF Loaded
  <2>6. /\ s4' \in [status : Session!Statuses, locale : LocalesOrNone]
        /\ s6' \in [status : Session!Statuses, shown : Seq(SessionMessages),
                    dismissed : Seq(SessionMessages)]
        /\ s6'.dismissed = s6.dismissed /\ s4'.status = Session!Mutated(s4.status)
    BY <1>1, <1>8, <2>5, MutatedStatus DEF Loaded
  <2>7. s13' \in [status : Session!Statuses, rows : {Session!None, "idle", "active"}]
    BY <1>1, <1>8 DEF Loaded, Session!Statuses
  <2>8. /\ s5' \in [SessionRoles -> [status : Session!Statuses, known : BOOLEAN,
                                     locale : LocalesOrNone]]
        /\ \A r \in SessionRoles : s5'[r].status = "pending" => s5[r].status = "pending"
    BY <1>1, <1>8, RolesMutated
  <2>9. Loaded'
    BY <1>1, <2>6, <2>7, <2>8 DEF Loaded
  <2>10. s4'.status = "pending" => s4.status = "pending"
    BY <2>5, <2>6, MutatedStatus
  <2>11. AwaitedBy(rs, s3', s10', s4', s13', s5')
    BY <1>8, <2>8, <2>10, AwaitedStill
  <2>12. RequestsFit(rs, s9'.issued, s7')
    BY <1>8
  <2> QED
    BY <2>1, <2>2, <2>3, <2>4, <2>9, <2>11, <2>12, RenderedFits
<1>9. CASE /\ Session!Failed(i, s11')
           /\ UNCHANGED <<Session!store, s7, s9, s12, s14>>
  <2>1. UNCHANGED <<s2, s3, s4, s5, s6, s7, s9, s12, s13, s14>>
    BY <1>9, StoreStays
  <2> QED
    BY <1>9, <2>1, PlainError
<1>10. CASE /\ s5' = Session!MutatedRoles
            /\ s4' = [s4 EXCEPT !.status = Session!Mutated(@)]
            /\ s6' = [s6 EXCEPT !.status = Session!Mutated(@)]
            /\ s13' = [s13 EXCEPT !.status = "pending"]
            /\ UNCHANGED <<s3, s7, s9, s10>>
            /\ IF s14.mounted /\ Session!Mutated(s13.status) = "outdated"
               THEN Session!Rendered(more, [s14 EXCEPT !.held = @ \ {v, s14.visit}])
               ELSE Session!Rendered(again, [s14 EXCEPT !.held = @ \ {v}])
  <2>1. CASE s14.mounted /\ Session!Rendered(more, [s14 EXCEPT !.held = @ \ {v, s14.visit}])
    <3> DEFINE cleared == {v, s14.visit}
    <3>1. \A u \in cleared : HasFor(more, "status", u)
      BY <1>4, <1>5, <1>7, <2>1 DEF Keeps
    <3>2. Session!Rendered(more, [s14 EXCEPT !.held = @ \ cleared])
      BY <2>1
    <3> HIDE DEF cleared
    <3> QED
      BY <1>7, <1>8, <1>10, <2>1, <3>1, <3>2
  <2>2. CASE Session!Rendered(again, [s14 EXCEPT !.held = @ \ {v}])
    <3> DEFINE cleared == {v}
    <3>1. \A u \in cleared : HasFor(again, "status", u)
      BY <1>5
    <3>2. Session!Rendered(again, [s14 EXCEPT !.held = @ \ cleared])
      BY <2>2
    <3> HIDE DEF cleared
    <3> QED
      BY <1>5, <1>6, <1>8, <1>10, <3>1, <3>2
  <2> QED
    BY <1>10, <2>1, <2>2
<1> QED
  BY <1>9, <1>10 DEF Session!CancelAnswered, left, v, again, more

-----------------------------------------------------------------------------
(* The session: another page                                                *)

LEMMA LoadFits ==
  ASSUME SessionAll, Session!Load, Signed'
  PROVE  SessionAll'
<1>1. /\ s4' = Session!NewMetadata /\ s5' = Session!NewRoles /\ s6' = Session!Persisted
      /\ s13' = Session!NewTasks /\ s12' = Session!NoForm /\ s14' = Session!NewPolling
      /\ s10' = {} /\ s11' = <<>>
  BY DEF Session!Load
<1>2. Loaded'
  <2>1. s6' \in [status : Session!Statuses, shown : Seq(SessionMessages),
                 dismissed : Seq(SessionMessages)]
        /\ s6'.dismissed = s6.dismissed /\ Len(s6'.dismissed) <= DismissedLimit
    <3>1. /\ s6 \in [status : Session!Statuses, shown : Seq(SessionMessages),
                     dismissed : Seq(SessionMessages)]
          /\ Len(s6.dismissed) <= DismissedLimit
      BY SessionParts DEF Loaded
    <3>2. Session!Mutated(s6.status) \in Session!Statuses
      BY <3>1, MutatedStatus
    <3>3. s6' = [s6 EXCEPT !.shown = <<>>, !.status = Session!Mutated(s6.status)]
      BY <1>1, <3>1 DEF Session!Persisted
    <3>4. <<>> \in Seq(SessionMessages)
      OBVIOUS
    <3> DEFINE mutated == Session!Mutated(s6.status)
    <3> HIDE DEF mutated
    <3>5. s6' = [status |-> mutated, shown |-> <<>>, dismissed |-> s6.dismissed]
      BY <3>1, <3>3 DEF mutated
    <3> QED
      BY <3>1, <3>2, <3>4, <3>5 DEF mutated
  <2>2. s4' \in [status : Session!Statuses, locale : LocalesOrNone]
    BY <1>1 DEF Session!NewMetadata, LocalesOrNone, Session!Statuses
  <2>3. s5' \in [SessionRoles -> [status : Session!Statuses, known : BOOLEAN,
                                  locale : LocalesOrNone]]
    BY <1>1 DEF Session!NewRoles, LocalesOrNone, Session!Statuses
  <2>4. s13' \in [status : Session!Statuses, rows : {Session!None, "idle", "active"}]
    BY <1>1 DEF Session!NewTasks, Session!Statuses
  <2> QED
    BY <2>1, <2>2, <2>3, <2>4 DEF Loaded
<1>3. FormFits'
  BY <1>1 DEF FormFits, Session!NoForm, Session!Forms, Session!Typed
<1>4. PollingFits(s14') /\ ~s14'.mounted
  BY <1>1, SessionNames DEF PollingFits, Pollings, Session!NewPolling
<1>5. Polled(s14', s11')
  BY <1>4 DEF Polled
<1>6. RequestsFit(s11', s9'.issued, s7')
  BY <1>1, NoRequests
<1>7. AwaitedBy(s11', s3', s10', s4', s13', s5')
  BY <1>1 DEF AwaitedBy, Session!NewMetadata, Session!NewTasks, Session!NewRoles
<1> QED
  BY <1>2, <1>3, <1>4, <1>5, <1>6, <1>7, SessionWhole

LEMMA ReloadKeeps ==
  ASSUME SessionAll, s2' = s2, Session!Reload PROVE SessionAll'
<1>1. Session!Load /\ UNCHANGED <<s3, s7, s9>> /\ s10' = {}
  BY DEF Session!Reload, Session!Load
<1>2. Signed'
  BY <1>1, SessionParts DEF Signed
<1> QED
  BY <1>1, <1>2, LoadFits

LEMMA OAuthLoginKeeps ==
  ASSUME SessionAll, s2' = s2, Session!OnOAuthLogin PROVE SessionAll'
<1>1. PICK t \in SessionTokens : Session!NewToken(t) /\ s7' = t
  BY DEF Session!OnOAuthLogin
<1>2. Session!Load /\ s3' = s3 /\ s10' = {}
  BY DEF Session!OnOAuthLogin, Session!Load
<1>3. Signed'
  BY <1>1, <1>2, SessionParts, NewTokenFits DEF Signed
<1> QED
  BY <1>2, <1>3, LoadFits

LEMMA OAuthScreenKeeps ==
  ASSUME SessionAll, s2' = s2, Session!OAuthScreen PROVE SessionAll'
<1>1. /\ s7 # Session!None /\ Session!LoginWithToken(s7) /\ s7' = Session!None
      /\ UNCHANGED <<s9, s10>> /\ Session!Rendered(s11, s14)
  BY DEF Session!OAuthScreen
<1>2. s3' = Session!HandleLogin(s7) /\ s5' = Session!MutatedRoles /\ Session!Mutate
  BY <1>1 DEF Session!LoginWithToken
<1>3. s3' = [token |-> s7, loggedIn |-> TRUE]
  BY <1>1, <1>2 DEF Session!HandleLogin
<1>4. Signed' /\ s3'.token \notin s10'
  BY <1>1, <1>3, SessionParts DEF Signed, TokensOrNone
<1>5. /\ Loaded'
      /\ s4'.status = "pending" => s4.status = "pending"
      /\ s13'.status = "pending" => s13.status = "pending"
      /\ \A r \in SessionRoles : s5'[r].status = "pending" => s5[r].status = "pending"
  BY <1>2, SessionParts, RolesMutated, StoreMutated
<1>6. AwaitedBy(s11, s3', s10', s4', s13', s5')
  BY <1>4, <1>5, SessionParts DEF AwaitedBy
<1>7. RequestsFit(s11, s9'.issued, s7')
  BY <1>1, SessionParts DEF RequestsFit, RequestFits
<1> QED
  BY <1>1, <1>4, <1>5, <1>6, <1>7, SessionParts, RenderedFits

-----------------------------------------------------------------------------

LEMMA SessionStep == Session!Inv /\ Session!Next => Session!Inv'
<1> SUFFICES ASSUME SessionAll, Session!Next PROVE SessionAll'
  BY SessionFit, SessionFitNext
<1>1. s2' = s2 /\ Session!Steps
  BY DEF Session!Next
<1>2. CASE Session!Answer
  <2>1. PICK i \in DOMAIN s11 :
    \/ s11[i].kind = "metadata" /\ Session!MetadataAnswered(i)
    \/ s11[i].kind = "role" /\ Session!RoleAnswered(i)
    \/ s11[i].kind = "messages" /\ Session!MessagesAnswered(i)
    \/ s11[i].kind = "logout" /\ Session!LogoutAnswered(i)
    \/ s11[i].kind = "code" /\ Session!CodeAnswered(i)
    \/ s11[i].kind = "login" /\ Session!LoginAnswered(i)
    \/ s11[i].kind = "activate" /\ Session!ActivateAnswered(i)
    \/ s11[i].kind = "update" /\ Session!UpdateAnswered(i)
    \/ s11[i].kind = "status" /\ Session!StatusAnswered(i)
    \/ s11[i].kind = "cancel" /\ Session!CancelAnswered(i)
    BY <1>2 DEF Session!Answer
  <2> QED
    BY <1>1, <2>1, MetadataKeeps, RoleKeeps, MessagesKeeps, LogoutAnswerKeeps, CodeKeeps,
       LoginKeeps, ActivateKeeps, UpdateKeeps, StatusKeeps, CancelAnswerKeeps
<1>3. CASE Session!FetchMetadata \/ Session!Reload \/ Session!SessionSteps
  BY <1>1, <1>3, FetchMetadataKeeps, ReloadKeeps, FetchRoleKeeps, ExpireKeeps
  DEF Session!SessionSteps
<1>4. CASE Session!SignInSteps
  BY <1>1, <1>4, LogoutKeeps, DialogStepsKeep, SubmitKeepsSession, OAuthLoginKeeps,
     OAuthScreenKeeps
  DEF Session!SignInSteps
<1>5. CASE Session!MessagesSteps \/ Session!SettingsSteps
  BY <1>1, <1>5, FetchMessagesKeeps, DismissKeeps, ChangeInputKeeps, SaveKeeps
  DEF Session!MessagesSteps, Session!SettingsSteps
<1>6. CASE Session!StatusSteps
  BY <1>1, <1>6, VisitKeeps, LeaveKeeps, OutdatedKeeps, TimerKeeps, CancelKeeps, ExpireKeeps
  DEF Session!StatusSteps
<1> QED
  BY <1>1, <1>2, <1>3, <1>4, <1>5, <1>6 DEF Session!Steps

LEMMA SessionStay ==
  Session!Inv /\ UNCHANGED vars => Session!Inv'
<1> SUFFICES ASSUME SessionAll, UNCHANGED vars PROVE SessionAll'
  BY SessionFit, SessionFitNext
<1>1. UNCHANGED <<s2, s3, s4, s5, s6, s7, s9, s10, s11, s12, s13, s14>>
  BY DEF vars
<1> QED
  BY <1>1, SessionParts, QuietKeeps, SignedStays, FormStays

LEMMA SessionInit == Session!Init => Session!Inv
<1> SUFFICES ASSUME Session!Init PROVE SessionAll
  BY SessionFit
<1>1. /\ s2 \in Sites /\ s4 = Session!NewMetadata /\ s5 = Session!NewRoles
      /\ s6 = Session!NewMessages /\ s13 = Session!NewTasks /\ s7 = Session!None
      /\ s12 = Session!NoForm /\ s10 = {} /\ s11 = <<>> /\ s14 = Session!NewPolling
  BY DEF Session!Init
<1>2. PICK t \in SessionTokens \cup {Session!None} :
        /\ s3 = IF t = Session!None THEN Session!NoSession
                ELSE [token |-> t, loggedIn |-> TRUE]
        /\ s9 = [live |-> {t} \ {Session!None}, issued |-> {t} \ {Session!None}]
  BY DEF Session!Init
<1>3. Signed
  BY <1>1, <1>2 DEF Signed, TokensOrNone, Session!NoSession
<1>4. Loaded
  <2>1. s6 \in [status : Session!Statuses, shown : Seq(SessionMessages),
                dismissed : Seq(SessionMessages)]
        /\ Len(s6.dismissed) <= DismissedLimit
    BY <1>1, SessionNames DEF Session!NewMessages, Session!Statuses
  <2> QED
    BY <1>1, <2>1
    DEF Loaded, Session!NewMetadata, Session!NewRoles, Session!NewTasks, Session!Statuses,
        LocalesOrNone
<1>5. FormFits
  BY <1>1 DEF FormFits, Session!NoForm, Session!Forms, Session!Typed
<1>6. PollingFits(s14) /\ Polled(s14, s11)
  BY <1>1, SessionNames DEF PollingFits, Pollings, Session!NewPolling, Polled
<1>7. RequestsFit(s11, s9.issued, s7)
  BY <1>1, NoRequests
<1>8. AwaitedBy(s11, s3, s10, s4, s13, s5)
  BY <1>1 DEF AwaitedBy, Session!NewMetadata, Session!NewTasks, Session!NewRoles
<1> QED
  BY <1>3, <1>4, <1>5, <1>6, <1>7, <1>8 DEF SessionAll

LEMMA SessionShow == Session!Inv => Session!SessionHolds
BY DEF Session!Inv

-----------------------------------------------------------------------------
(* The page of an entity                                                    *)

EntityParts ==
  {"entity", "tags", "references", "similar", "more", "screening", "mentions", "thread",
   "nearby", "children"}

TagStates ==
  [shown : Seq(PageTags), loading : BOOLEAN, deleting : SUBSET PageTags, creating : BOOLEAN,
   typed : PageTags \cup {EntityPage!None}]

TagRequests ==
  [kind : {"fetch", "create", "delete"}, entity : PageEntities,
   tag : PageTags \cup {EntityPage!None}]

LEMMA EntityNames ==
  /\ EntityPage!None \notin PageEntities /\ PageResults \in Seq(PageEntities)
  /\ IsFiniteSet(PageTags)
BY EntityPageAssumption DEF EntityPage!None

\* What the views show, and the tags.
ViewsFit ==
  /\ s2 \in PageEntities \cup {EntityPage!None}
  /\ s4 \in EntityPage!Hashes /\ s3 \in BOOLEAN /\ (s4.term => s4.preview # EntityPage!None)
  /\ s5 \in [field : SortFields \cup {"dates"}, direction : {"asc", "desc"}]
  /\ s7 \in [EntityParts -> {"new", "asked", "answered"}]

Sent(requests, kind) == \E r \in requests : r.kind = kind
SentFor(requests, kind, tag) == \E r \in requests : r.kind = kind /\ r.tag = tag

TagsFit(tags, requests) ==
  /\ tags \in TagStates /\ requests \subseteq TagRequests
  /\ \A r \in requests : r.kind = "create" => r.tag \in PageTags
  /\ tags.loading => Sent(requests, "fetch")
  /\ tags.creating => Sent(requests, "create")
  /\ \A t \in tags.deleting : SentFor(requests, "delete", t)

EntityAll ==
  (s1 # "preview" => s2 # EntityPage!None) /\ ViewsFit /\ TagsFit(s8, s9)

LEMMA EntityFit == EntityPage!Inv <=> EntityAll
<1>1. EntityPage!TagsSettle <=>
        /\ s8.loading => Sent(s9, "fetch")
        /\ s8.creating => Sent(s9, "create")
        /\ \A t \in s8.deleting : SentFor(s9, "delete", t)
  BY DEF EntityPage!TagsSettle, Sent, SentFor
<1> QED
  BY <1>1
  DEF EntityPage!Inv, EntityAll, EntityPage!TypesKept, EntityPage!TermHasPreview, ViewsFit,
      TagsFit, TagStates, TagRequests, EntityParts, EntityPage!Parts

LEMMA EntityFitNext == EntityPage!Inv' <=> EntityAll'
BY EntityFit, PTL

LEMMA TagsFitNext == ASSUME TagsFit(s8', s9') PROVE TagsFit(s8, s9)'
OBVIOUS

\* A click on a result opens the preview of an entity, or closes it.
LEMMA ToggledFits ==
  ASSUME ViewsFit, NEW e \in PageEntities
  PROVE  /\ EntityPage!Toggled(e) \in EntityPage!Hashes
         /\ EntityPage!Toggled(e).term => EntityPage!Toggled(e).preview # EntityPage!None
<1> DEFINE opening == s4.preview # e
           preview == IF opening THEN e ELSE EntityPage!None
           term == CASE opening /\ EntityPage!IsA(e, "Pages") -> s3
                     [] opening -> s4.term
                     [] OTHER -> FALSE
<1>1. EntityPage!Toggled(e) =
        [s4 EXCEPT !.previewMode = EntityPage!None, !.preview = preview, !.term = term]
  BY DEF EntityPage!Toggled, ViewsFit, EntityPage!Hashes
<1>2. preview \in PageEntities \cup {EntityPage!None} /\ term \in BOOLEAN
      /\ (term => preview # EntityPage!None)
  BY EntityNames DEF ViewsFit, EntityPage!Hashes
<1> HIDE DEF preview, term
<1> QED
  BY <1>1, <1>2 DEF ViewsFit, EntityPage!Hashes, EntityPage!Modes

LEMMA TabNames ==
  ASSUME ViewsFit, NEW tab \in EntityPage!DrawnTabs
  PROVE  tab.id \in EntityPage!Modes
<1> DEFINE e == EntityPage!Shown
<1>1. /\ e # EntityPage!None
      /\ tab \in EntityPage!DocumentTabs(e) \cup EntityPage!RelatedTabs(e)
                 \cup EntityPage!PageTabs(e)
  BY DEF EntityPage!DrawnTabs
<1>2. e \in PageEntities
  BY <1>1 DEF EntityPage!Shown, ViewsFit, EntityPage!Hashes
<1> HIDE DEF e
<1>3. CASE tab \in EntityPage!DocumentTabs(e)
  BY <1>3 DEF EntityPage!DocumentTabs, EntityPage!Tab, EntityPage!Modes
<1>4. CASE tab \in EntityPage!RelatedTabs(e)
  BY <1>2, <1>4
  DEF EntityPage!RelatedTabs, EntityPage!ReferenceTabs, EntityPage!Tab, EntityPage!Modes
<1>5. CASE tab \in EntityPage!PageTabs(e)
  BY <1>5 DEF EntityPage!PageTabs, EntityPage!Tab, EntityPage!Modes
<1> QED
  BY <1>1, <1>3, <1>4, <1>5

\* The place of an entity that is previewed among the results.
LEMMA PreviewPlace ==
  ASSUME EntityPage!PreviewIndex # 0
  PROVE  EntityPage!PreviewIndex \in DOMAIN PageResults
<1> DEFINE places == {i \in DOMAIN PageResults : PageResults[i] = s4.preview}
<1>1. /\ EntityPage!PreviewIndex = EntityPage!Min(places) /\ places # {}
  BY DEF EntityPage!PreviewIndex, EntityPage!IndexOf, EntityPage!ToSet
<1>2. places \in SUBSET (1..Len(PageResults)) /\ Len(PageResults) \in Nat
  BY EntityNames
<1> HIDE DEF places
<1>3. \E m \in places : \A n \in places : m <= n
  BY <1>1, <1>2, FirstPlace
<1>4. EntityPage!Min(places) \in places
  BY <1>3 DEF EntityPage!Min
<1> QED
  BY <1>1, <1>4 DEF places

LEMMA PreviewKeeps ==
  ASSUME ViewsFit, EntityPage!Preview
  PROVE  ViewsFit'
<1>1. /\ UNCHANGED <<s2, s3, s5, s6>>
      /\ s7' = IF EntityPage!IsPreview THEN EntityPage!Unloaded ELSE s7
  BY DEF EntityPage!Preview
<1>2. \A i \in DOMAIN PageResults : PageResults[i] \in PageEntities
  BY EntityNames
<1>3. s4' = EntityPage!Closed \/ \E e \in PageEntities : s4' = EntityPage!Toggled(e)
  <2>1. CASE EntityPage!ClickResult
    BY <1>2, <2>1 DEF EntityPage!ClickResult, EntityPage!ToSet
  <2>2. CASE EntityPage!ShowNextPreview
    <3> DEFINE i == EntityPage!PreviewIndex
    <3>1. i # 0 /\ i < Len(PageResults) /\ s4' = EntityPage!Toggled(PageResults[i + 1])
      BY <2>2 DEF EntityPage!ShowNextPreview
    <3>2. i \in DOMAIN PageResults
      BY <3>1, PreviewPlace
    <3> HIDE DEF i
    <3>3. i + 1 \in DOMAIN PageResults
      BY <3>1, <3>2, EntityNames
    <3> QED
      BY <1>2, <3>1, <3>3
  <2>3. CASE EntityPage!ShowPreviousPreview
    <3> DEFINE i == EntityPage!PreviewIndex
    <3>1. i > 1 /\ s4' = EntityPage!Toggled(PageResults[i - 1])
      BY <2>3 DEF EntityPage!ShowPreviousPreview
    <3>2. i \in DOMAIN PageResults
      BY <3>1, PreviewPlace
    <3> HIDE DEF i
    <3>3. i - 1 \in DOMAIN PageResults
      BY <3>1, <3>2, EntityNames
    <3> QED
      BY <1>2, <3>1, <3>3
  <2>4. CASE EntityPage!ClosePreview
    BY <2>4 DEF EntityPage!ClosePreview
  <2> QED
    BY <2>1, <2>2, <2>3, <2>4 DEF EntityPage!Preview
<1>4. s4' \in EntityPage!Hashes /\ (s4'.term => s4'.preview # EntityPage!None)
  <2>1. CASE s4' = EntityPage!Closed
    BY <2>1 DEF EntityPage!Closed, ViewsFit, EntityPage!Hashes, EntityPage!Modes
  <2> QED
    BY <1>3, <2>1, ToggledFits
<1>5. s7' \in [EntityParts -> {"new", "asked", "answered"}]
  BY <1>1 DEF ViewsFit, EntityPage!Unloaded, EntityPage!Parts, EntityParts
<1> QED
  BY <1>1, <1>4, <1>5 DEF ViewsFit, EntityPage!Hashes, EntityPage!Modes

LEMMA ViewsKeep ==
  ASSUME ViewsFit, EntityPage!Views
  PROVE  ViewsFit' /\ s2' \in PageEntities \cup {s2} /\ UNCHANGED <<s8, s9>>
<1>9. UNCHANGED <<s8, s9>>
  BY DEF EntityPage!Views
<1>1. CASE EntityPage!FetchIfNeeded
  BY <1>1, <1>9 DEF EntityPage!FetchIfNeeded, ViewsFit, EntityPage!Parts, EntityParts,
              EntityPage!Hashes, EntityPage!Modes
<1>2. CASE EntityPage!Answered
  <2>1. PICK w \in EntityParts : s7' = [s7 EXCEPT ![w] = "answered"]
    BY <1>2 DEF EntityPage!Answered, EntityPage!Parts, EntityParts
  <2>2. s7' \in [EntityParts -> {"new", "asked", "answered"}]
    BY <2>1 DEF ViewsFit
  <2>3. UNCHANGED <<s2, s3, s4, s5>>
    BY <1>2 DEF EntityPage!Answered
  <2> QED
    BY <1>9, <2>2, <2>3 DEF ViewsFit, EntityPage!Hashes, EntityPage!Modes
<1>3. CASE EntityPage!Outdated
  BY <1>3, <1>9 DEF EntityPage!Outdated, ViewsFit, EntityPage!Parts, EntityParts,
              EntityPage!Hashes, EntityPage!Modes
<1>4. CASE EntityPage!HandleTabChange
  <2>1. PICK tab \in EntityPage!DrawnTabs :
          s4' = IF EntityPage!IsPreview THEN [s4 EXCEPT !.previewMode = tab.id]
                ELSE [s4 EXCEPT !.mode = tab.id]
    BY <1>4 DEF EntityPage!HandleTabChange
  <2>2. tab.id \in EntityPage!Modes
    BY TabNames
  <2>3. s4' \in EntityPage!Hashes /\ s4'.term = s4.term /\ s4'.preview = s4.preview
    BY <2>1, <2>2 DEF ViewsFit, EntityPage!Hashes
  <2>4. UNCHANGED <<s2, s3, s5, s7>>
    BY <1>4 DEF EntityPage!HandleTabChange
  <2> QED
    BY <1>9, <2>3, <2>4 DEF ViewsFit, EntityPage!Hashes, EntityPage!Modes
<1>5. CASE EntityPage!SortColumn
  BY <1>5, <1>9 DEF EntityPage!SortColumn, ViewsFit, EntityPage!Hashes, EntityPage!Modes
<1>6. CASE EntityPage!OnExpand
  BY <1>6, <1>9 DEF EntityPage!OnExpand, ViewsFit, EntityPage!Hashes, EntityPage!Modes
<1>7. CASE EntityPage!Preview
  BY <1>7, <1>9, PreviewKeeps DEF EntityPage!Preview
<1>8. CASE EntityPage!OpenPage
  BY <1>8, <1>9 DEF EntityPage!OpenPage, ViewsFit, EntityPage!NewHash, EntityPage!DefaultSort,
              EntityPage!Unloaded, EntityPage!Parts, EntityParts, EntityPage!Hashes,
              EntityPage!Modes
<1> QED
  BY <1>1, <1>2, <1>3, <1>4, <1>5, <1>6, <1>7, <1>8, <1>9
  DEF EntityPage!Views, EntityPage!FetchIfNeeded, EntityPage!Answered, EntityPage!Outdated,
      EntityPage!HandleTabChange, EntityPage!SortColumn, EntityPage!OnExpand,
      EntityPage!Preview, EntityPage!OpenPage

-----------------------------------------------------------------------------

LEMMA TagsSetToSeq ==
  ASSUME NEW S \in SUBSET PageTags
  PROVE  EntityPage!SetToSeq(S) \in Seq(PageTags)
<1> DEFINE n == Cardinality(S)
           seq == EntityPage!SetToSeq(S)
<1>1. IsFiniteSet(S)
  BY EntityNames, FS_Subset
<1>2. n \in Nat /\ ExistsBijection(1..n, S)
  BY <1>1, FS_CardinalityType
<1>3. PICK f \in [1..n -> S] : \A i, j \in 1..n : f[i] = f[j] => i = j
  BY <1>2 DEF ExistsBijection, Bijection, Injection, IsInjective
<1>4. \A i, j \in DOMAIN f : f[i] = f[j] => i = j
  BY <1>3
<1>5. seq = CHOOSE g \in [1..n -> S] : \A i, j \in DOMAIN g : g[i] = g[j] => i = j
  BY DEF EntityPage!SetToSeq, EntityPage!Cardinality, Cardinality, EntityPage!IsFiniteSet,
         IsFiniteSet
<1> HIDE DEF n, seq
<1>6. seq \in [1..n -> S]
  BY <1>3, <1>4, <1>5
<1>7. seq \in Seq(S)
  BY <1>2, <1>6
<1> QED
  BY <1>7 DEF seq

\* A request more.
LEMMA SendKeeps ==
  ASSUME NEW requests, NEW r, NEW kind, NEW tag
  PROVE  LET more == requests \cup {r}
         IN /\ Sent(requests, kind) => Sent(more, kind)
            /\ SentFor(requests, kind, tag) => SentFor(more, kind, tag)
            /\ Sent(more, r.kind) /\ SentFor(more, r.kind, r.tag)
BY DEF Sent, SentFor

LEMMA TagSendsKeep ==
  ASSUME s1 = "tags", s2 \in PageEntities, TagsFit(s8, s9),
         EntityPage!OpenTagged \/ EntityPage!HandleTagCreate \/ EntityPage!HandleTagDelete
  PROVE  TagsFit(s8', s9') /\ s2' \in PageEntities
<1>1. ASSUME NEW r \in TagRequests, r.kind = "create" => r.tag \in PageTags,
             s9' = s9 \cup {r}, s8' \in TagStates,
             s8'.loading => s8.loading \/ r.kind = "fetch",
             s8'.creating => s8.creating \/ r.kind = "create",
             \A t \in s8'.deleting : t \in s8.deleting \/ (r.kind = "delete" /\ r.tag = t)
      PROVE  TagsFit(s8', s9')
  BY <1>1, SendKeeps DEF TagsFit
<1>2. s8 \in TagStates
  BY DEF TagsFit
<1>3. CASE EntityPage!OpenTagged
  <2>1. PICK e \in PageEntities :
          /\ s2' = e
          /\ s9' = s9 \cup {[kind |-> "fetch", entity |-> e, tag |-> EntityPage!None]}
    BY <1>3 DEF EntityPage!OpenTagged
  <2> DEFINE r == [kind |-> "fetch", entity |-> e, tag |-> EntityPage!None]
  <2>2. r \in TagRequests /\ r.kind = "fetch"
    BY DEF TagRequests
  <2>3. s8' = [s8 EXCEPT !.loading = TRUE]
    BY <1>3 DEF EntityPage!OpenTagged
  <2>4. s8' \in TagStates /\ s8'.creating = s8.creating /\ s8'.deleting = s8.deleting
    BY <1>2, <2>3 DEF TagStates
  <2>5. s9' = s9 \cup {r}
    BY <2>1
  <2> HIDE DEF r
  <2> QED
    BY <1>1, <2>1, <2>2, <2>4, <2>5
<1>4. CASE EntityPage!HandleTagCreate
  <2> DEFINE r == [kind |-> "create", entity |-> s2, tag |-> s8.typed]
  <2>1. /\ s8.typed # EntityPage!None /\ s9' = s9 \cup {r} /\ s2' = s2
        /\ s8' = [s8 EXCEPT !.creating = TRUE]
    BY <1>4 DEF EntityPage!HandleTagCreate, EntityPage!Send
  <2>2. r \in TagRequests /\ r.kind = "create" /\ r.tag \in PageTags
    BY <1>2, <2>1 DEF TagRequests, TagStates
  <2>3. s8' \in TagStates /\ s8'.loading = s8.loading /\ s8'.deleting = s8.deleting
    BY <1>2, <2>1 DEF TagStates
  <2> HIDE DEF r
  <2> QED
    BY <1>1, <2>1, <2>2, <2>3
<1>5. CASE EntityPage!HandleTagDelete
  <2>1. PICK t : /\ t \in EntityPage!ToSet(s8.shown)
                 /\ EntityPage!Send("delete", t)
                 /\ s8' = [s8 EXCEPT !.deleting = @ \cup {t}]
    BY <1>5 DEF EntityPage!HandleTagDelete
  <2> DEFINE r == [kind |-> "delete", entity |-> s2, tag |-> t]
  <2>2. t \in PageTags
    <3>1. s8.shown \in Seq(PageTags)
      BY <1>2 DEF TagStates
    <3> QED
      BY <2>1, <3>1 DEF EntityPage!ToSet
  <2>3. s9' = s9 \cup {r} /\ s2' = s2
    BY <1>5, <2>1 DEF EntityPage!HandleTagDelete, EntityPage!Send
  <2>4. r \in TagRequests /\ r.kind = "delete" /\ r.tag = t
    BY <2>2 DEF TagRequests
  <2>5. /\ s8' \in TagStates /\ s8'.loading = s8.loading /\ s8'.creating = s8.creating
        /\ s8'.deleting = s8.deleting \cup {t}
    BY <1>2, <2>1, <2>2 DEF TagStates
  <2> HIDE DEF r
  <2> QED
    BY <1>1, <2>3, <2>4, <2>5
<1> QED
  BY <1>3, <1>4, <1>5

LEMMA TagsAnsweredKeep ==
  ASSUME TagsFit(s8, s9), EntityPage!TagsAnswered
  PROVE  TagsFit(s8', s9') /\ s2' = s2
<1>1. PICK r \in s9 : /\ s9' = s9 \ {r} /\ s2' = s2
                      /\ \/ r.kind = "fetch" /\ EntityPage!TagsFetched(r)
                         \/ r.kind = "create" /\ EntityPage!TagCreated(r)
                         \/ r.kind = "delete" /\ EntityPage!TagDeleted(r)
  BY DEF EntityPage!TagsAnswered
<1>2. /\ s8 \in TagStates /\ s8.shown \in Seq(PageTags) /\ s9 \subseteq TagRequests
      /\ (r.kind = "create" => r.tag \in PageTags)
  BY DEF TagsFit, TagStates
<1>3. ASSUME s8' \in TagStates,
             s8'.loading => s8.loading /\ r.kind # "fetch",
             s8'.creating => s8.creating /\ r.kind # "create",
             \A t \in s8'.deleting : t \in s8.deleting /\ (r.kind # "delete" \/ r.tag # t)
      PROVE  TagsFit(s8', s9')
  BY <1>1, <1>3 DEF TagsFit, Sent, SentFor
<1>4. CASE r.kind = "fetch" /\ EntityPage!TagsFetched(r)
  <2>1. ASSUME NEW shown \in Seq(PageTags), s8' = [s8 EXCEPT !.shown = shown, !.loading = FALSE]
        PROVE  /\ s8' \in TagStates /\ ~s8'.loading /\ s8'.creating = s8.creating
               /\ s8'.deleting = s8.deleting
    BY <1>2, <2>1 DEF TagStates
  <2>2. /\ s8' \in TagStates /\ ~s8'.loading /\ s8'.creating = s8.creating
        /\ s8'.deleting = s8.deleting
    <3>1. <<>> \in Seq(PageTags)
      OBVIOUS
    <3>2. CASE s8' = [s8 EXCEPT !.shown = <<>>, !.loading = FALSE]
      BY <2>1, <3>1, <3>2, Zenon
    <3>3. CASE \E held \in SUBSET PageTags :
                 s8' = [s8 EXCEPT !.shown = EntityPage!SetToSeq(held), !.loading = FALSE]
      <4>1. PICK held \in SUBSET PageTags :
              s8' = [s8 EXCEPT !.shown = EntityPage!SetToSeq(held), !.loading = FALSE]
        BY <3>3, Zenon
      <4>2. EntityPage!SetToSeq(held) \in Seq(PageTags)
        BY TagsSetToSeq
      <4> QED
        BY <2>1, <4>1, <4>2, Zenon
    <3> QED
      BY <1>4, <3>2, <3>3, Zenon DEF EntityPage!TagsFetched
  <2> QED
    BY <1>1, <1>3, <1>4, <2>2
<1>5. CASE r.kind = "create" /\ EntityPage!TagCreated(r)
  <2>1. CASE s8' = [s8 EXCEPT !.creating = FALSE]
    <3>1. /\ s8' \in TagStates /\ ~s8'.creating /\ s8'.loading = s8.loading
          /\ s8'.deleting = s8.deleting
      BY <1>2, <2>1 DEF TagStates
    <3> QED
      BY <1>1, <1>3, <1>5, <3>1
  <2>2. CASE s8' = [s8 EXCEPT !.shown = Append(@, r.tag), !.typed = EntityPage!None,
                             !.creating = FALSE]
    <3>1. Append(s8.shown, r.tag) \in Seq(PageTags)
      BY <1>2, <1>5
    <3>2. /\ s8' \in TagStates /\ ~s8'.creating /\ s8'.loading = s8.loading
          /\ s8'.deleting = s8.deleting
      BY <1>2, <2>2, <3>1 DEF TagStates
    <3> QED
      BY <1>1, <1>3, <1>5, <3>2
  <2> QED
    BY <1>5, <2>1, <2>2 DEF EntityPage!TagCreated
<1>6. CASE r.kind = "delete" /\ EntityPage!TagDeleted(r)
  <2>1. EntityPage!Without(r) \in Seq(PageTags)
    <3>1. EntityPage!Without(r) = Filtered(s8.shown, PageTags \ {r.tag})
      BY DEF EntityPage!Without, EntityPage!Filtered, Filtered, EntityPage!Positions,
             Positions, EntityPage!Rank, Rank, EntityPage!Cardinality, Cardinality,
             EntityPage!IsFiniteSet, IsFiniteSet
    <3> QED
      BY <1>2, <3>1, FilteredShorter
  <2>3. /\ s8' \in TagStates /\ s8'.deleting = s8.deleting \ {r.tag}
        /\ s8'.loading = s8.loading /\ s8'.creating = s8.creating
    <3>1. CASE s8' = [s8 EXCEPT !.shown = EntityPage!Without(r), !.deleting = @ \ {r.tag}]
      BY <1>2, <2>1, <3>1 DEF TagStates
    <3>2. CASE s8' = [s8 EXCEPT !.deleting = @ \ {r.tag}]
      BY <1>2, <3>2 DEF TagStates
    <3> QED
      BY <1>6, <3>1, <3>2, Zenon DEF EntityPage!TagDeleted
  <2> QED
    BY <1>1, <1>3, <1>6, <2>3
<1> QED
  BY <1>1, <1>4, <1>5, <1>6

LEMMA EntityStep == EntityPage!Inv /\ EntityPage!Next => EntityPage!Inv'
<1> SUFFICES ASSUME EntityAll, EntityPage!Next PROVE EntityAll'
  BY EntityFit, EntityFitNext
<1>1. s1' = s1 /\ EntityPage!Steps /\ ViewsFit /\ TagsFit(s8, s9)
      /\ (s1 # "preview" => s2 # EntityPage!None)
  BY DEF EntityPage!Next, EntityAll
<1>2. CASE EntityPage!Views
  <2>1. ViewsFit' /\ s2' \in PageEntities \cup {s2} /\ UNCHANGED <<s8, s9>>
    BY <1>1, <1>2, ViewsKeep
  <2>2. TagsFit(s8, s9)'
    BY <1>1, <2>1
  <2> QED
    BY <1>1, <2>1, <2>2, EntityNames DEF EntityAll
<1>3. CASE s1 = "tags" /\ EntityPage!TagSteps
  <2>1. UNCHANGED <<s3, s4, s5, s7>>
    BY <1>3 DEF EntityPage!TagSteps
  <2>2. s2 \in PageEntities
    BY <1>1, <1>3 DEF ViewsFit
  <2>3. TagsFit(s8', s9') /\ s2' \in PageEntities
    <3>1. CASE EntityPage!TypeTag
      <4>1. PICK t \in PageTags \cup {EntityPage!None} : s8' = [s8 EXCEPT !.typed = t]
        BY <3>1 DEF EntityPage!TypeTag
      <4>2. s9' = s9 /\ s2' = s2
        BY <3>1 DEF EntityPage!TypeTag
      <4>3. /\ s8' \in TagStates /\ s8'.loading = s8.loading
            /\ s8'.creating = s8.creating /\ s8'.deleting = s8.deleting
        BY <1>1, <4>1 DEF TagsFit, TagStates
      <4> QED
        BY <1>1, <2>2, <4>2, <4>3 DEF TagsFit
    <3> QED
      BY <1>1, <1>3, <2>2, <3>1, TagSendsKeep, TagsAnsweredKeep DEF EntityPage!TagSteps
  <2>4. ViewsFit'
    BY <1>1, <2>1, <2>3 DEF ViewsFit, EntityPage!Hashes, EntityPage!Modes
  <2>5. TagsFit(s8, s9)'
    BY <2>3
  <2> QED
    BY <2>3, <2>4, <2>5, EntityNames DEF EntityAll
<1> QED
  BY <1>1, <1>2, <1>3 DEF EntityPage!Steps

LEMMA EntityStay == EntityPage!Inv /\ UNCHANGED vars => EntityPage!Inv'
BY EntityFit, EntityFitNext
DEF EntityAll, vars, ViewsFit, EntityPage!Hashes, EntityPage!Modes, TagsFit, Sent, SentFor

LEMMA EntityInit == EntityPage!Init => EntityPage!Inv
<1> SUFFICES ASSUME EntityPage!Init PROVE EntityAll
  BY EntityFit
<1>1. /\ s1 \in {"page", "preview", "tags"}
      /\ s2 \in IF s1 = "preview" THEN {EntityPage!None} ELSE PageEntities
      /\ s3 \in BOOLEAN /\ s4 = EntityPage!NewHash /\ s5 = EntityPage!DefaultSort
      /\ s7 = EntityPage!Unloaded /\ s8 = EntityPage!NewTags
  BY DEF EntityPage!Init
<1>2. ViewsFit
  BY <1>1 DEF ViewsFit, EntityPage!NewHash, EntityPage!DefaultSort, EntityPage!Unloaded,
              EntityPage!Parts, EntityParts, EntityPage!Hashes, EntityPage!Modes
<1>3. <<>> \in Seq(PageTags)
  OBVIOUS
<1>4. /\ s8 \in TagStates /\ s8.loading = (s1 = "tags") /\ s8.creating = FALSE
      /\ s8.deleting = {}
  BY <1>1, <1>3 DEF EntityPage!NewTags, TagStates
<1>5. CASE s1 = "tags"
  <2> DEFINE r == [kind |-> "fetch", entity |-> s2, tag |-> EntityPage!None]
  <2>1. s9 = {r} /\ r \in TagRequests /\ r.kind = "fetch"
    BY <1>1, <1>5 DEF EntityPage!Init, TagRequests
  <2> HIDE DEF r
  <2>2. TagsFit(s8, s9)
    BY <1>4, <2>1 DEF TagsFit, Sent
  <2> QED
    BY <1>1, <1>2, <1>5, <2>2, EntityNames DEF EntityAll
<1>6. CASE s1 # "tags"
  <2>1. s9 = {}
    BY <1>6 DEF EntityPage!Init
  <2>2. TagsFit(s8, s9)
    BY <1>4, <1>6, <2>1 DEF TagsFit
  <2> QED
    BY <1>1, <1>2, <2>2, EntityNames DEF EntityAll
<1> QED
  BY <1>5, <1>6

\* The loader asks for what the tabs show.
LEMMA TabsLoaded ==
  ASSUME ViewsFit
  PROVE  EntityPage!TabsAreLoaded
<1> DEFINE e == EntityPage!Shown
<1> SUFFICES ASSUME NEW tab \in EntityPage!DrawnTabs, s7[tab.needs] = "new"
             PROVE  tab.needs \in EntityPage!Missing
  BY DEF EntityPage!TabsAreLoaded
<1>1. /\ e # EntityPage!None /\ s6
      /\ tab \in EntityPage!DocumentTabs(e) \cup EntityPage!RelatedTabs(e)
                 \cup EntityPage!PageTabs(e)
  BY DEF EntityPage!DrawnTabs
<1> HIDE DEF e
<1>2. tab.needs \in EntityPage!Wanted(e)
  <2>1. CASE tab \in EntityPage!DocumentTabs(e)
    BY <1>1, <2>1 DEF EntityPage!DocumentTabs, EntityPage!Tab, EntityPage!Wanted
  <2>2. CASE tab \in EntityPage!RelatedTabs(e)
    BY <1>1, <2>2
    DEF EntityPage!RelatedTabs, EntityPage!ReferenceTabs, EntityPage!Tab, EntityPage!Wanted
  <2>3. CASE tab \in EntityPage!PageTabs(e)
    BY <1>1, <2>3 DEF EntityPage!PageTabs, EntityPage!Tab, EntityPage!Wanted
  <2> QED
    BY <1>1, <2>1, <2>2, <2>3
<1>3. tab.needs \in EntityPage!Parts
  BY <1>2 DEF EntityPage!Wanted, EntityPage!Parts
<1> QED
  BY <1>1, <1>2, <1>3 DEF EntityPage!Missing, EntityPage!Unasked, e

LEMMA EntityShow == EntityPage!Inv => EntityPage!PageHolds
<1> SUFFICES ASSUME EntityPage!Inv PROVE EntityPage!PageHolds
  OBVIOUS
<1>1. EntityPage!TabsAreLoaded
  BY EntityFit, TabsLoaded DEF EntityAll
<1> QED
  BY <1>1 DEF EntityPage!Inv, EntityPage!PageHolds

-----------------------------------------------------------------------------
(* Decisions                                                                *)

ListStates ==
  [rows : Seq(Candidates), shown : [Candidates -> Decisions!Judgements], loaded : BOOLEAN,
   status : {"stale", "loading", "answered"}]

Judgings ==
  [match : Candidates, judgement : Decisions!Judgements, list : Decisions!Names,
   page : Decisions!Pages]

Arrives(requests, judged, m, judgement) ==
  IF \E i \in DOMAIN requests : requests[i].match = m
  THEN \E i \in DOMAIN requests :
         /\ requests[i].match = m /\ requests[i].judgement = judgement
         /\ \A j \in DOMAIN requests : j > i => requests[j].match # m
  ELSE judged[m] = judgement

RowsLoaded(lists) == \A name \in Decisions!Names : lists[name].rows # <<>> => lists[name].loaded

Drawn(lists, decided, lost, requests, judged) ==
  \A m \in Candidates : decided[m] # Decisions!NoList =>
    /\ lists[decided[m]].loaded
    /\ m \notin lost => Arrives(requests, judged, m, lists[decided[m]].shown[m])

DecisionsAll ==
  /\ Decisions!TypesKept
  /\ RowsLoaded(s2) /\ Drawn(s2, s8, s9, s6, s5.judged)
  /\ s10 + Decisions!RedirectsLeft <= 2

LEMMA DecisionsFit == Decisions!Inv <=> DecisionsAll
<1>1. \A m, j : Decisions!Arriving(m, j) <=> Arrives(s6, s5.judged, m, j)
  BY DEF Decisions!Arriving, Decisions!Waiting, Arrives
<1> QED
  BY <1>1 DEF Decisions!Inv, Decisions!Rows, DecisionsAll, RowsLoaded, Drawn

LEMMA DecisionsFitNext == Decisions!Inv' <=> DecisionsAll'
BY DecisionsFit, PTL

LEMMA DecisionTypes ==
  Decisions!TypesKept <=>
    /\ s1 \in Decisions!Pages /\ s2 \in [Decisions!Names -> ListStates]
    /\ s3 \in Decisions!Profiles \cup {Decisions!NoProfile}
    /\ s5 \in [profile : Decisions!Profiles \cup {Decisions!NoProfile}, gone : BOOLEAN,
              judged : [Candidates -> Decisions!Judgements]]
    /\ s6 \in Seq(Judgings)
    /\ s8 \in [Candidates -> Decisions!Names \cup {Decisions!NoList}]
    /\ s10 \in Nat
BY DEF Decisions!TypesKept, ListStates, Judgings

LEMMA DecisionTypesNext ==
  Decisions!TypesKept' <=>
    /\ s1' \in Decisions!Pages /\ s2' \in [Decisions!Names -> ListStates]
    /\ s3' \in Decisions!Profiles \cup {Decisions!NoProfile}
    /\ s5' \in [profile : Decisions!Profiles \cup {Decisions!NoProfile}, gone : BOOLEAN,
               judged : [Candidates -> Decisions!Judgements]]
    /\ s6' \in Seq(Judgings)
    /\ s8' \in [Candidates -> Decisions!Names \cup {Decisions!NoList}]
    /\ s10' \in Nat
BY DEF Decisions!TypesKept, ListStates, Judgings, Decisions!Pages, Decisions!Judgements,
       Decisions!Profiles, Decisions!NoProfile, Decisions!Names, Decisions!NoList

\* No more than two redirections are ahead.
LEMMA RedirectsFew == Decisions!RedirectsLeft \in 0..2
BY DEF Decisions!RedirectsLeft

LEMMA RedirectsFewNext == Decisions!RedirectsLeft' \in 0..2
BY DEF Decisions!RedirectsLeft

\* The list of the open page, and the addresses that are made of others.
LEMMA PagesFit ==
  ASSUME NEW p \in Decisions!Pages
  PROVE  /\ \A i \in Int : Decisions!UpdateSelected(p, i) \in Decisions!Pages
         /\ \A keep \in BOOLEAN : Decisions!EntityPage(keep) \in Decisions!Pages
<1>1. \A i \in Int : Decisions!UpdateSelected(p, i) \in Decisions!Pages
  BY DEF Decisions!UpdateSelected, Decisions!Pages
<1>2. \A keep \in BOOLEAN : Decisions!EntityPage(keep) \in Decisions!Pages
  BY DEF Decisions!EntityPage, Decisions!Pages, Decisions!Names, Decisions!NoProfile
<1> QED
  BY <1>1, <1>2

LEMMA CurrentFits ==
  ASSUME s1 \in Decisions!Pages
  PROVE  Decisions!Current \in Decisions!Names
BY DEF Decisions!Current, Decisions!Pages, Decisions!Names

-----------------------------------------------------------------------------
(* The requests *)

LEMMA ArrivesAppended ==
  ASSUME NEW R, NEW requests \in Seq(R), NEW r \in R, NEW judged, NEW m, NEW j,
         \/ m # r.match /\ Arrives(requests, judged, m, j)
         \/ m = r.match /\ j = r.judgement
  PROVE  Arrives(Append(requests, r), judged, m, j)
<1> DEFINE n == Len(requests)
           more == Append(requests, r)
<1>1. /\ n \in Nat /\ DOMAIN requests = 1..n /\ DOMAIN more = 1..(n + 1)
      /\ \A i \in 1..n : more[i] = requests[i]
      /\ more[n + 1] = r
  OBVIOUS
<1> HIDE DEF n, more
<1>2. CASE m = r.match /\ j = r.judgement
  <2>1. n + 1 \in DOMAIN more /\ \A i \in DOMAIN more : ~(i > n + 1)
    BY <1>1
  <2> QED
    BY <1>1, <1>2, <2>1 DEF Arrives, more
<1>3. CASE m # r.match /\ Arrives(requests, judged, m, j)
  <2>1. \A i \in DOMAIN more : more[i].match = m => i \in DOMAIN requests
                                                    /\ requests[i].match = m
    BY <1>1, <1>3
  <2>2. \A i \in DOMAIN requests : i \in DOMAIN more /\ more[i] = requests[i]
    BY <1>1
  <2>3. CASE \E i \in DOMAIN requests : requests[i].match = m
    <3>1. PICK i \in DOMAIN requests :
            /\ requests[i].match = m /\ requests[i].judgement = j
            /\ \A k \in DOMAIN requests : k > i => requests[k].match # m
      BY <1>3, <2>3 DEF Arrives
    <3>2. /\ i \in DOMAIN more /\ more[i].match = m /\ more[i].judgement = j
          /\ \A k \in DOMAIN more : k > i => more[k].match # m
      BY <2>1, <2>2, <3>1
    <3> QED
      BY <3>2 DEF Arrives, more
  <2>4. CASE ~\E i \in DOMAIN requests : requests[i].match = m
    BY <1>3, <2>1, <2>4 DEF Arrives, more
  <2> QED
    BY <2>3, <2>4
<1> QED
  BY <1>2, <1>3

\* An answer to a request that is not overtaken, or to one for another match.
LEMMA ArrivesAnswered ==
  ASSUME NEW R, NEW requests \in Seq(R), NEW i \in DOMAIN requests,
         NEW judged, NEW new, NEW m, NEW j, Arrives(requests, judged, m, j),
         \/ requests[i].match # m /\ new[m] = judged[m]
         \/ /\ requests[i].match = m /\ new[m] = requests[i].judgement
            /\ \A k \in 1..(i - 1) : requests[k].match # m
  PROVE  Arrives(Decisions!RemoveAt(requests, i), new, m, j)
<1> DEFINE left == Decisions!RemoveAt(requests, i)
           n == Len(requests)
<1>1. n \in Nat /\ i \in 1..n /\ DOMAIN requests = 1..n
  OBVIOUS
<1>2. /\ left \in Seq(R) /\ Len(left) = n - 1
      /\ \A k \in DOMAIN left : left[k] = IF k < i THEN requests[k] ELSE requests[k + 1]
  BY RemovedPosition DEF Decisions!RemoveAt
<1> HIDE DEF left, n
<1>3. DOMAIN left = 1..(n - 1)
  BY <1>1, <1>2
<1>4. \A k \in 1..n : /\ k < i => k \in DOMAIN left /\ left[k] = requests[k]
                      /\ k > i => k - 1 \in DOMAIN left /\ left[k - 1] = requests[k]
  <2> SUFFICES ASSUME NEW k \in 1..n
               PROVE /\ k < i => k \in DOMAIN left /\ left[k] = requests[k]
                     /\ k > i => k - 1 \in DOMAIN left /\ left[k - 1] = requests[k]
    OBVIOUS
  <2>1. CASE k < i
    BY <1>1, <1>2, <1>3, <2>1
  <2>2. CASE k > i
    <3>1. k - 1 \in DOMAIN left /\ ~(k - 1 < i) /\ (k - 1) + 1 = k
      BY <1>1, <1>3, <2>2
    <3> QED
      BY <1>1, <1>2, <2>2, <3>1
  <2> QED
    BY <2>1, <2>2, <1>1
<1>5. CASE \E k \in DOMAIN requests : requests[k].match = m
  <2>1. PICK k \in DOMAIN requests :
          /\ requests[k].match = m /\ requests[k].judgement = j
          /\ \A l \in DOMAIN requests : l > k => requests[l].match # m
    BY <1>5 DEF Arrives
  <2>2. CASE k # i
    <3> DEFINE place == IF k < i THEN k ELSE k - 1
    <3>1. place \in DOMAIN left /\ left[place] = requests[k] /\ place \in Nat
      BY <1>1, <1>3, <1>4, <2>2
    <3>2. \A l \in DOMAIN left : l > place => left[l].match # m
      <4> SUFFICES ASSUME NEW l \in DOMAIN left, l > place PROVE left[l].match # m
        OBVIOUS
      <4> DEFINE was == IF l < i THEN l ELSE l + 1
      <4>1. was \in DOMAIN requests /\ left[l] = requests[was]
        BY <1>1, <1>2, <1>3
      <4>2. was > k
        BY <1>1, <1>3, <2>2
      <4> HIDE DEF was
      <4> QED
        BY <2>1, <4>1, <4>2
    <3> HIDE DEF place
    <3> QED
      BY <2>1, <3>1, <3>2 DEF Arrives, left
  <2>3. CASE k = i
    <3>1. requests[i].match = m /\ new[m] = j /\ \A l \in 1..(i - 1) : requests[l].match # m
      BY <2>1, <2>3
    <3>2. \A l \in DOMAIN left : left[l].match # m
      <4> SUFFICES ASSUME NEW l \in DOMAIN left PROVE left[l].match # m
        OBVIOUS
      <4>1. CASE l < i
        BY <1>1, <1>2, <1>3, <3>1, <4>1
      <4>2. CASE ~(l < i)
        <5>1. l + 1 \in DOMAIN requests /\ l + 1 > k /\ left[l] = requests[l + 1]
          BY <1>1, <1>2, <1>3, <2>3, <4>2
        <5> QED
          BY <2>1, <5>1
      <4> QED
        BY <4>1, <4>2
    <3> QED
      BY <3>1, <3>2 DEF Arrives, left
  <2> QED
    BY <2>2, <2>3
<1>6. CASE ~\E k \in DOMAIN requests : requests[k].match = m
  <2>1. requests[i].match # m /\ new[m] = j
    BY <1>6 DEF Arrives
  <2>2. \A l \in DOMAIN left : left[l].match # m
    <3> SUFFICES ASSUME NEW l \in DOMAIN left PROVE left[l].match # m
      OBVIOUS
    <3>1. /\ l < i => l \in DOMAIN requests /\ left[l] = requests[l]
          /\ ~(l < i) => l + 1 \in DOMAIN requests /\ left[l] = requests[l + 1]
      BY <1>1, <1>2, <1>3
    <3> QED
      BY <1>6, <3>1
  <2> QED
    BY <2>1, <2>2 DEF Arrives, left
<1> QED
  BY <1>5, <1>6

\* What is still drawn goes on arriving.
LEMMA DrawnKept ==
  ASSUME NEW lists, NEW decided, NEW lost, NEW requests, NEW judged,
         NEW lists2, NEW decided2, NEW lost2, NEW requests2, NEW judged2,
         Drawn(lists, decided, lost, requests, judged),
         \A m \in Candidates : decided2[m] # Decisions!NoList =>
           /\ decided2[m] = decided[m] /\ lists2[decided[m]].loaded
           /\ lists2[decided[m]].shown[m] = lists[decided[m]].shown[m]
           /\ m \notin lost2 => m \notin lost,
         \A m \in Candidates \ lost2 : \A j :
           Arrives(requests, judged, m, j) => Arrives(requests2, judged2, m, j)
  PROVE  Drawn(lists2, decided2, lost2, requests2, judged2)
BY DEF Drawn

-----------------------------------------------------------------------------
(* The steps of the decisions                                               *)

\* What a step keeps that lists no other page and draws nothing.
DecisionsKept ==
  Decisions!TypesKept' /\ RowsLoaded(s2') /\ Drawn(s2', s8', s9', s6', s5'.judged)

LEMMA SelectionFits ==
  ASSUME s1 \in Decisions!Pages, s2 \in [Decisions!Names -> ListStates]
  PROVE  /\ Decisions!SelectedNext(s1) \in Decisions!Pages
         /\ \A name \in Decisions!Names : \A new \in ListStates :
              Decisions!DidUpdate(s1, name, s2[name], new) \in Decisions!Pages
<1>1. s1.selected \in Int
  BY DEF Decisions!Pages
<1>2. Decisions!SelectedNext(s1) \in Decisions!Pages
  BY <1>1, PagesFit DEF Decisions!SelectedNext
<1>3. ASSUME NEW name \in Decisions!Names, NEW new \in ListStates
      PROVE  Decisions!DidUpdate(s1, name, s2[name], new) \in Decisions!Pages
  <2>1. Len(new.rows) - 1 \in Int
    BY DEF ListStates
  <2> QED
    BY <2>1, PagesFit DEF Decisions!DidUpdate
<1> QED
  BY <1>2, <1>3

LEMMA DecideKeeps ==
  ASSUME DecisionsAll, NEW m \in Candidates, NEW j \in OfferedJudgements, Decisions!Decide(m, j),
         s1' \in Decisions!Pages, Decisions!Rows(Decisions!Current) # <<>>,
         s10' \in Nat, UNCHANGED <<s3, s5>>
  PROVE  DecisionsKept
<1> DEFINE now == Decisions!Current
           new == Decisions!Toggled(now, m, j)
           r == Decisions!PairwiseJudgement(m, new)
<1>1. /\ s1 \in Decisions!Pages /\ s2 \in [Decisions!Names -> ListStates]
      /\ s6 \in Seq(Judgings) /\ s8 \in [Candidates -> Decisions!Names \cup {Decisions!NoList}]
      /\ RowsLoaded(s2) /\ Drawn(s2, s8, s9, s6, s5.judged)
  BY DecisionTypes DEF DecisionsAll
<1>2. now \in Decisions!Names /\ s2[now].loaded
  BY <1>1, CurrentFits DEF RowsLoaded, Decisions!Rows
<1>3. new \in Decisions!Judgements
  BY DEF Decisions!Toggled, Decisions!Judgements
<1>4. r \in Judgings /\ r.match = m /\ r.judgement = new
  <2>1. Decisions!Remembered \in Decisions!Pages
    BY <1>1, PagesFit DEF Decisions!Remembered
  <2> QED
    BY <1>2, <1>3, <2>1 DEF Decisions!PairwiseJudgement, Judgings
<1>5. /\ s2' = [s2 EXCEPT ![now].shown[m] = new]
      /\ s6' = Append(s6, r)
      /\ s8' = [s8 EXCEPT ![m] = now]
      /\ s9' = IF Decisions!Waiting(m) THEN s9 ELSE s9 \ {m}
  BY DEF Decisions!Decide
<1> HIDE DEF now, new, r
<1>6. /\ s2' \in [Decisions!Names -> ListStates]
      /\ \A name \in Decisions!Names : /\ s2'[name].rows = s2[name].rows
                                       /\ s2'[name].loaded = s2[name].loaded
      /\ s2'[now].shown[m] = new
      /\ \A name \in Decisions!Names : \A n \in Candidates \ {m} :
           s2'[name].shown[n] = s2[name].shown[n]
  BY <1>1, <1>2, <1>3, <1>5 DEF ListStates
<1>7. s8' \in [Candidates -> Decisions!Names \cup {Decisions!NoList}] /\ s6' \in Seq(Judgings)
  BY <1>1, <1>2, <1>4, <1>5
<1>8. Decisions!TypesKept'
  BY <1>6, <1>7, DecisionTypes, DecisionTypesNext DEF DecisionsAll
<1>9. RowsLoaded(s2')
  BY <1>1, <1>6 DEF RowsLoaded
<1>10. Drawn(s2', s8', s9', s6', s5'.judged)
  <2> SUFFICES ASSUME NEW n \in Candidates, s8'[n] # Decisions!NoList
               PROVE  /\ s2'[s8'[n]].loaded
                      /\ n \notin s9' => Arrives(s6', s5'.judged, n, s2'[s8'[n]].shown[n])
    BY DEF Drawn
  <2>1. CASE n = m
    <3>1. s8'[n] = now
      BY <1>1, <1>5, <2>1
    <3>2. Arrives(s6', s5'.judged, m, new)
      BY <1>1, <1>4, <1>5, ArrivesAppended
    <3> QED
      BY <1>2, <1>6, <2>1, <3>1, <3>2
  <2>2. CASE n # m
    <3>1. s8'[n] = s8[n] /\ s8[n] \in Decisions!Names
      BY <1>1, <1>5, <2>2
    <3>2. /\ s2[s8[n]].loaded
          /\ n \notin s9 => Arrives(s6, s5.judged, n, s2[s8[n]].shown[n])
      BY <1>1, <3>1 DEF Drawn
    <3>3. n \notin s9' => Arrives(s6', s5.judged, n, s2[s8[n]].shown[n])
      BY <1>1, <1>4, <1>5, <2>2, <3>2, ArrivesAppended
    <3> QED
      BY <1>6, <2>2, <3>1, <3>2, <3>3
  <2> QED
    BY <2>1, <2>2
<1> QED
  BY <1>8, <1>9, <1>10 DEF DecisionsKept

LEMMA UserKeeps ==
  ASSUME DecisionsAll, Decisions!User
  PROVE  DecisionsKept
<1>1. /\ s1 \in Decisions!Pages /\ s2 \in [Decisions!Names -> ListStates]
      /\ Decisions!Current \in Decisions!Names /\ s10' = 0 /\ UNCHANGED <<s3, s5>>
  BY DecisionTypes, CurrentFits DEF DecisionsAll, Decisions!User
<1>2. Decisions!Rows(Decisions!Current) \in Seq(Candidates)
  BY <1>1 DEF Decisions!Rows, ListStates
<1>3. CASE UNCHANGED <<s2, s6, s8, s9>> /\ s1' \in Decisions!Pages
  BY <1>1, <1>3, DecisionTypes, DecisionTypesNext DEF DecisionsKept, DecisionsAll
<1>4. CASE Decisions!SelectNext
  BY <1>1, <1>3, <1>4, SelectionFits DEF Decisions!SelectNext
<1>5. CASE Decisions!SelectPrevious
  <2>1. s1.selected - 1 \in Int
    BY <1>1 DEF Decisions!Pages
  <2> QED
    BY <1>1, <1>3, <1>5, <2>1, PagesFit DEF Decisions!SelectPrevious
<1>6. CASE Decisions!OnChange /\ UNCHANGED s1
  <2>1. PICK m \in Decisions!Decidable(Decisions!Current), j \in OfferedJudgements :
          Decisions!Decide(m, j)
    BY <1>6 DEF Decisions!OnChange
  <2>2. m \in Candidates /\ Decisions!Rows(Decisions!Current) # <<>>
    BY <1>2, <2>1 DEF Decisions!Decidable, Decisions!ToSet
  <2> QED
    BY <1>1, <1>6, <2>1, <2>2, DecideKeeps
<1>7. CASE Decisions!OnDecideSelected
  <2>1. PICK i \in DOMAIN Decisions!Rows(Decisions!Current), j \in OfferedJudgements :
          Decisions!Decide(Decisions!Rows(Decisions!Current)[i], j)
    BY <1>7 DEF Decisions!OnDecideSelected
  <2>2. /\ Decisions!Rows(Decisions!Current)[i] \in Candidates
        /\ Decisions!Rows(Decisions!Current) # <<>>
    BY <1>2, <2>1
  <2>3. s1' \in Decisions!Pages
    BY <1>1, <1>7, SelectionFits DEF Decisions!OnDecideSelected
  <2> QED
    BY <1>1, <2>1, <2>2, <2>3, DecideKeeps
<1> QED
  BY <1>4, <1>5, <1>6, <1>7 DEF Decisions!User, Decisions!OnChange

\* Another page has nothing drawn.
LEMMA OpenedKeeps ==
  ASSUME DecisionsAll, NEW new
  PROVE  LET ls == Decisions!Opened(new)
         IN /\ ls \in [Decisions!Names -> ListStates] /\ RowsLoaded(ls)
            /\ \A name \in Decisions!Names : ls[name].loaded => ls[name] = s2[name]
<1>1. s2 \in [Decisions!Names -> ListStates] /\ RowsLoaded(s2)
  BY DecisionTypes DEF DecisionsAll
<1>2. <<>> \in Seq(Candidates)
  OBVIOUS
<1>3. Decisions!Empty \in ListStates /\ ~Decisions!Empty.loaded /\ Decisions!Empty.rows = <<>>
  BY <1>2 DEF Decisions!Empty, ListStates, Decisions!Judgements
<1>4. Decisions!Opened(new) = s2
      \/ Decisions!Opened(new) = [name \in Decisions!Names |-> Decisions!Empty]
  BY DEF Decisions!Opened
<1>5. CASE Decisions!Opened(new) = s2
  BY <1>1, <1>5
<1>6. CASE Decisions!Opened(new) = [name \in Decisions!Names |-> Decisions!Empty]
  BY <1>3, <1>6 DEF RowsLoaded
<1> QED
  BY <1>4, <1>5, <1>6

LEMMA StillDrawnFits ==
  ASSUME s8 \in [Candidates -> Decisions!Names \cup {Decisions!NoList}],
         s8' = Decisions!StillDrawn
  PROVE  /\ s8' \in [Candidates -> Decisions!Names \cup {Decisions!NoList}]
         /\ \A m \in Candidates : s8'[m] # Decisions!NoList =>
              s8'[m] = s8[m] /\ s8[m] \in Decisions!Names /\ s2'[s8[m]].loaded
BY DEF Decisions!StillDrawn

LEMMA OpeningKeeps ==
  ASSUME DecisionsAll, s2' = Decisions!Opened(s1'), s8' = Decisions!StillDrawn,
         s1' \in Decisions!Pages, s10' \in Nat, UNCHANGED <<s3, s5, s6, s9>>
  PROVE  DecisionsKept
<1>1. /\ s8 \in [Candidates -> Decisions!Names \cup {Decisions!NoList}]
      /\ Drawn(s2, s8, s9, s6, s5.judged)
  BY DecisionTypes DEF DecisionsAll
<1>2. /\ s2' \in [Decisions!Names -> ListStates] /\ RowsLoaded(s2')
      /\ \A name \in Decisions!Names : s2'[name].loaded => s2'[name] = s2[name]
  BY OpenedKeeps
<1>3. /\ s8' \in [Candidates -> Decisions!Names \cup {Decisions!NoList}]
      /\ \A m \in Candidates : s8'[m] # Decisions!NoList =>
           s8'[m] = s8[m] /\ s8[m] \in Decisions!Names /\ s2'[s8[m]].loaded
  BY <1>1, StillDrawnFits
<1>4. Decisions!TypesKept'
  BY <1>2, <1>3, DecisionTypes, DecisionTypesNext DEF DecisionsAll
<1>5. Drawn(s2', s8', s9', s6', s5'.judged)
  BY <1>1, <1>2, <1>3, DrawnKept
<1> QED
  BY <1>2, <1>4, <1>5 DEF DecisionsKept

LEMMA MoveKeeps ==
  ASSUME DecisionsAll, Decisions!Move
  PROVE  DecisionsKept
<1>1. /\ s1 \in Decisions!Pages /\ s3 \in Decisions!Profiles \cup {Decisions!NoProfile}
      /\ s10' = 0 /\ UNCHANGED <<s3, s5, s6, s9>>
      /\ s2' = Decisions!Opened(s1') /\ s8' = Decisions!StillDrawn
  BY DecisionTypes DEF DecisionsAll, Decisions!Move
<1>2. s1' \in Decisions!Pages
  <2>1. CASE Decisions!HandleTabChange
    BY <1>1, <2>1 DEF Decisions!HandleTabChange, Decisions!Pages, Decisions!Names
  <2>2. CASE Decisions!ToggleSort
    BY <1>1, <2>2 DEF Decisions!ToggleSort, Decisions!Pages, Decisions!Names
  <2>3. CASE Decisions!ViewOriginal
    BY <1>1, <2>3, PagesFit DEF Decisions!ViewOriginal
  <2>4. CASE Decisions!OpenEntity
    <3>1. CASE s1' = Decisions!EntityPage(FALSE)
      BY <1>1, <3>1, PagesFit
    <3>2. CASE s1' = [kind |-> "profile", at |-> s3, tab |-> "items", via |-> TRUE,
                      keep |-> FALSE, selected |-> -1]
      BY <1>1, <3>2 DEF Decisions!Pages, Decisions!Names
    <3> QED
      BY <2>4, <3>1, <3>2 DEF Decisions!OpenEntity
  <2> QED
    BY <2>1, <2>2, <2>3, <2>4 DEF Decisions!Move
<1> QED
  BY <1>1, <1>2, OpeningKeeps

LEMMA RedirectKeeps ==
  ASSUME DecisionsAll, Decisions!Redirect
  PROVE  DecisionsKept /\ s10' + Decisions!RedirectsLeft' <= 2
<1>1. /\ s1 \in Decisions!Pages /\ s3 \in Decisions!Profiles \cup {Decisions!NoProfile}
      /\ s10 \in Nat /\ s10 + Decisions!RedirectsLeft <= 2
      /\ s10' \in Nat /\ s10' <= s10 + 1 /\ UNCHANGED <<s3, s5, s6, s9>>
      /\ s2' = Decisions!Opened(s1') /\ s8' = Decisions!StillDrawn
  BY DecisionTypes DEF DecisionsAll, Decisions!Redirect
<1>2. /\ s1' \in Decisions!Pages
      /\ Decisions!RedirectsLeft' < Decisions!RedirectsLeft
  <2>1. CASE Decisions!ToProfile
    <3>1. /\ s1' = [s1 EXCEPT !.kind = "profile", !.at = s3, !.via = TRUE, !.tab = "suggested"]
          /\ s1.kind = "entity" /\ s3 # Decisions!NoProfile /\ ~s1.keep
      BY <2>1 DEF Decisions!ToProfile
    <3>2. s1' \in Decisions!Pages /\ s1'.kind = "profile"
      BY <1>1, <3>1 DEF Decisions!Pages, Decisions!Names
    <3>3. Decisions!RedirectsLeft = 2
      BY <3>1 DEF Decisions!RedirectsLeft
    <3>4. Decisions!RedirectsLeft' \in 0..1
      BY <1>1, <3>1, <3>2 DEF Decisions!RedirectsLeft, Decisions!NoProfile
    <3> QED
      BY <3>2, <3>3, <3>4
  <2>2. CASE Decisions!ToOriginal
    <3>1. /\ s1' = Decisions!EntityPage(TRUE)
          /\ s1.kind = "profile" /\ s1.via /\ Decisions!ProfileGone
      BY <2>2 DEF Decisions!ToOriginal
    <3>2. s1' \in Decisions!Pages /\ s1'.kind = "entity" /\ s1'.keep
      BY <1>1, <3>1, PagesFit DEF Decisions!EntityPage
    <3>3. Decisions!RedirectsLeft = IF s3 = Decisions!NoProfile THEN 2 ELSE 1
      BY <3>1 DEF Decisions!RedirectsLeft
    <3>4. Decisions!RedirectsLeft' = IF s3 = Decisions!NoProfile THEN 1 ELSE 0
      BY <1>1, <3>2 DEF Decisions!RedirectsLeft, Decisions!NoProfile
    <3> QED
      BY <3>2, <3>3, <3>4
  <2>3. CASE Decisions!CleanHash
    <3>1. /\ s1' = [s1 EXCEPT !.keep = FALSE]
          /\ s1.kind = "entity" /\ s3 = Decisions!NoProfile /\ s1.keep
      BY <2>3 DEF Decisions!CleanHash
    <3>2. s1' \in Decisions!Pages /\ s1'.kind = "entity" /\ ~s1'.keep
      BY <1>1, <3>1 DEF Decisions!Pages
    <3>3. Decisions!RedirectsLeft = 1
      BY <3>1 DEF Decisions!RedirectsLeft
    <3>4. Decisions!RedirectsLeft' = 0
      BY <1>1, <3>1, <3>2 DEF Decisions!RedirectsLeft, Decisions!NoProfile
    <3> QED
      BY <3>2, <3>3, <3>4
  <2> QED
    BY <2>1, <2>2, <2>3 DEF Decisions!Redirect
<1>3. s10' + Decisions!RedirectsLeft' <= 2
  <2>1. ASSUME NEW a \in 0..2, NEW b \in 0..2, NEW m \in Nat, NEW n \in Nat,
               b < a, n <= m + 1, m + a <= 2
        PROVE  n + b <= 2
    BY <2>1
  <2>2. Decisions!RedirectsLeft \in 0..2 /\ Decisions!RedirectsLeft' \in 0..2
    BY RedirectsFew, RedirectsFewNext
  <2>3. s10' \in Nat /\ s10 \in Nat /\ s10' <= s10 + 1 /\ s10 + Decisions!RedirectsLeft <= 2
    BY <1>1
  <2>4. Decisions!RedirectsLeft' < Decisions!RedirectsLeft
    BY <1>2
  <2> QED
    BY <2>1, <2>2, <2>3, <2>4
<1> QED
  BY <1>1, <1>2, <1>3, OpeningKeeps

-----------------------------------------------------------------------------
(* Loading, and the answers of the server                                   *)

LEMMA MatchOrder ==
  /\ Decisions!Order \in Seq(Candidates)
  /\ Decisions!Reverse(Decisions!Order) \in Seq(Candidates)
<1> DEFINE n == Cardinality(Candidates)
           seq == Decisions!Order
<1>1. IsFiniteSet(Candidates)
  BY DecisionsAssumption
<1>2. n \in Nat /\ ExistsBijection(1..n, Candidates)
  BY <1>1, FS_CardinalityType
<1>3. PICK f \in [1..n -> Candidates] : \A i, j \in 1..n : f[i] = f[j] => i = j
  BY <1>2 DEF ExistsBijection, Bijection, Injection, IsInjective
<1>4. \A i, j \in DOMAIN f : f[i] = f[j] => i = j
  BY <1>3
<1>5. seq = CHOOSE g \in [1..n -> Candidates] : \A i, j \in DOMAIN g : g[i] = g[j] => i = j
  BY DEF Decisions!Order, Decisions!SetToSeq, Decisions!Cardinality, Cardinality,
         Decisions!IsFiniteSet, IsFiniteSet
<1> HIDE DEF n, seq
<1>6. seq \in [1..n -> Candidates]
  BY <1>3, <1>4, <1>5
<1>7. seq \in Seq(Candidates) /\ Len(seq) = n
  BY <1>2, <1>6
<1>8. \A i \in 1..n : n + 1 - i \in 1..n
  BY <1>2
<1>9. Decisions!Reverse(seq) \in [1..n -> Candidates]
  BY <1>6, <1>7, <1>8 DEF Decisions!Reverse
<1>10. Decisions!Reverse(seq) \in Seq(Candidates)
  BY <1>2, <1>9
<1> QED
  BY <1>7, <1>10 DEF seq

LEMMA ServedFits == ASSUME NEW name PROVE Decisions!Served(name) \in Seq(Candidates)
<1>1. \A S : Decisions!Filtered(Decisions!Order, S) = Filtered(Decisions!Order, S)
  BY DEF Decisions!Filtered, Filtered, Decisions!Positions, Positions, Decisions!Rank, Rank,
         Decisions!Cardinality, Cardinality, Decisions!IsFiniteSet, IsFiniteSet
<1>2. \A S : Filtered(Decisions!Order, S) \in Seq(Candidates)
  BY MatchOrder, FilteredShorter
<1> QED
  BY <1>1, <1>2, MatchOrder DEF Decisions!Served

LEMMA LoadKeeps ==
  ASSUME DecisionsAll, Decisions!Load
  PROVE  DecisionsKept
<1>1. /\ s1 \in Decisions!Pages /\ s2 \in [Decisions!Names -> ListStates]
      /\ s5 \in [profile : Decisions!Profiles \cup {Decisions!NoProfile}, gone : BOOLEAN,
                judged : [Candidates -> Decisions!Judgements]]
      /\ s8 \in [Candidates -> Decisions!Names \cup {Decisions!NoList}]
      /\ RowsLoaded(s2) /\ Drawn(s2, s8, s9, s6, s5.judged)
      /\ s10' = 0 /\ UNCHANGED <<s5, s6>>
  BY DecisionTypes DEF DecisionsAll, Decisions!Load
<1>2. CASE Decisions!FetchIfNeeded
  <2>1. PICK name \in Decisions!Names : s2' = [s2 EXCEPT ![name].status = "loading"]
    BY <1>2 DEF Decisions!FetchIfNeeded
  <2>2. /\ s2' \in [Decisions!Names -> ListStates]
        /\ \A n \in Decisions!Names : /\ s2'[n].rows = s2[n].rows
                                      /\ s2'[n].loaded = s2[n].loaded
                                      /\ s2'[n].shown = s2[n].shown
    BY <1>1, <2>1 DEF ListStates
  <2>3. UNCHANGED <<s1, s3, s8, s9>>
    BY <1>2 DEF Decisions!FetchIfNeeded
  <2>4. Decisions!TypesKept'
    BY <1>1, <2>2, <2>3, DecisionTypes, DecisionTypesNext DEF DecisionsAll
  <2>5. RowsLoaded(s2')
    BY <1>1, <2>2 DEF RowsLoaded
  <2>6. \A m \in Candidates : s8'[m] # Decisions!NoList =>
          s8'[m] = s8[m] /\ s8[m] \in Decisions!Names /\ s2[s8[m]].loaded
    BY <1>1, <2>3 DEF Drawn
  <2>7. Drawn(s2', s8', s9', s6', s5'.judged)
    BY <1>1, <2>2, <2>3, <2>6, DrawnKept
  <2> QED
    BY <2>4, <2>5, <2>7 DEF DecisionsKept
<1>3. CASE Decisions!Loaded
  <2>1. PICK name \in Decisions!Names :
          /\ IF Decisions!Answerable(name)
             THEN LET new == [rows |-> Decisions!Served(name), shown |-> s5.judged,
                              loaded |-> TRUE, status |-> "answered"] IN
                  /\ s2' = [s2 EXCEPT ![name] = new]
                  /\ s1' = Decisions!DidUpdate(s1, name, s2[name], new)
             ELSE /\ s2' = [s2 EXCEPT ![name].status = "answered"]
                  /\ UNCHANGED s1
          /\ s8' = [m \in Candidates |-> IF s8[m] = name THEN Decisions!NoList ELSE s8[m]]
          /\ s9' = {m \in s9 : s8[m] # name}
          /\ UNCHANGED <<s3, s4>>
    BY <1>3 DEF Decisions!Loaded
  <2> DEFINE new == [rows |-> Decisions!Served(name), shown |-> s5.judged,
                     loaded |-> TRUE, status |-> "answered"]
  <2>2. new \in ListStates /\ new.loaded
    BY <1>1, ServedFits DEF ListStates
  <2>3. /\ \/ s2' = [s2 EXCEPT ![name] = new] /\ s1' = Decisions!DidUpdate(s1, name, s2[name], new)
           \/ s2' = [s2 EXCEPT ![name].status = "answered"] /\ s1' = s1
    BY <2>1
  <2> HIDE DEF new
  <2>4. s1' \in Decisions!Pages
    BY <1>1, <2>2, <2>3, SelectionFits
  <2>5. /\ s2' \in [Decisions!Names -> ListStates]
        /\ \A n \in Decisions!Names \ {name} : s2'[n] = s2[n]
        /\ s2'[name].rows # <<>> => s2'[name].loaded
    <3>1. CASE s2' = [s2 EXCEPT ![name] = new]
      BY <1>1, <2>2, <3>1
    <3>2. CASE s2' = [s2 EXCEPT ![name].status = "answered"]
      <4>1. s2[name].rows # <<>> => s2[name].loaded
        BY <1>1 DEF RowsLoaded
      <4>2. /\ s2' \in [Decisions!Names -> ListStates]
            /\ \A n \in Decisions!Names \ {name} : s2'[n] = s2[n]
            /\ s2'[name].rows = s2[name].rows /\ s2'[name].loaded = s2[name].loaded
        BY <1>1, <3>2 DEF ListStates
      <4> QED
        BY <4>1, <4>2
    <3> QED
      BY <2>3, <3>1, <3>2
  <2>6. /\ s8' \in [Candidates -> Decisions!Names \cup {Decisions!NoList}]
        /\ \A m \in Candidates : s8'[m] # Decisions!NoList =>
             s8'[m] = s8[m] /\ s8[m] \in Decisions!Names \ {name}
    BY <1>1, <2>1
  <2>7. Decisions!TypesKept'
    BY <1>1, <2>1, <2>4, <2>5, <2>6, DecisionTypes, DecisionTypesNext DEF DecisionsAll
  <2>8. RowsLoaded(s2')
    BY <1>1, <2>5 DEF RowsLoaded
  <2>9. \A m \in Candidates : s8'[m] # Decisions!NoList =>
          /\ s8'[m] = s8[m] /\ s2'[s8[m]].loaded
          /\ s2'[s8[m]].shown[m] = s2[s8[m]].shown[m]
          /\ m \notin s9' => m \notin s9
    BY <1>1, <2>1, <2>5, <2>6 DEF Drawn
  <2>10. Drawn(s2', s8', s9', s6', s5'.judged)
    <3> SUFFICES ASSUME NEW m \in Candidates, s8'[m] # Decisions!NoList
                 PROVE  /\ s2'[s8'[m]].loaded
                        /\ m \notin s9' => Arrives(s6, s5.judged, m, s2'[s8'[m]].shown[m])
      BY <1>1 DEF Drawn
    <3>1. /\ s8'[m] = s8[m] /\ s2'[s8[m]].loaded
          /\ s2'[s8[m]].shown[m] = s2[s8[m]].shown[m]
          /\ m \notin s9' => m \notin s9
      BY <2>9
    <3>2. m \notin s9 => Arrives(s6, s5.judged, m, s2[s8[m]].shown[m])
      BY <1>1, <3>1 DEF Drawn
    <3> QED
      BY <3>1, <3>2
  <2> QED
    BY <2>7, <2>8, <2>10 DEF DecisionsKept
<1>4. CASE Decisions!EntityFetched
  <2>1. s3' = s5.profile /\ UNCHANGED <<s1, s2, s8, s9>>
    BY <1>4 DEF Decisions!EntityFetched
  <2>2. s5.profile \in Decisions!Profiles \cup {Decisions!NoProfile}
    BY <1>1
  <2> QED
    BY <1>1, <2>1, <2>2, DecisionTypes, DecisionTypesNext DEF DecisionsKept, DecisionsAll
<1>5. CASE Decisions!ProfileFetched
  <2>1. UNCHANGED <<s1, s2, s3, s8, s9>>
    BY <1>5 DEF Decisions!ProfileFetched
  <2> QED
    BY <1>1, <2>1, DecisionTypes, DecisionTypesNext DEF DecisionsKept, DecisionsAll
<1> QED
  BY <1>2, <1>3, <1>4, <1>5 DEF Decisions!Load

\* What the server has after a decision.
LEMMA AppliedFits ==
  ASSUME NEW r \in Judgings,
         s5 \in [profile : Decisions!Profiles \cup {Decisions!NoProfile}, gone : BOOLEAN,
                judged : [Candidates -> Decisions!Judgements]]
  PROVE  /\ Decisions!Applied(r) \in
              [profile : Decisions!Profiles, gone : BOOLEAN,
               judged : [Candidates -> Decisions!Judgements]]
         /\ Decisions!Applied(r).judged[r.match] = r.judgement
         /\ \A m \in Candidates : m # r.match => Decisions!Applied(r).judged[m] = s5.judged[m]
<1> DEFINE judged == [s5.judged EXCEPT ![r.match] = r.judgement]
           profile == IF s5.profile = Decisions!NoProfile THEN Decisions!Fresh ELSE s5.profile
           merges == r.judgement = "positive" /\ r.match \in Foreign /\ profile = "p"
<1>1. /\ judged \in [Candidates -> Decisions!Judgements] /\ judged[r.match] = r.judgement
      /\ \A m \in Candidates : m # r.match => judged[m] = s5.judged[m]
  BY DEF Judgings
<1>2. profile \in Decisions!Profiles /\ s5.gone \in BOOLEAN
  BY DEF Decisions!Fresh, Decisions!Profiles
<1>3. (IF merges THEN "q" ELSE profile) \in Decisions!Profiles
  BY <1>2 DEF Decisions!Profiles
<1>4. Decisions!Applied(r) = [profile |-> IF merges THEN "q" ELSE profile,
                              gone |-> s5.gone \/ merges, judged |-> judged]
  BY DEF Decisions!Applied
<1> HIDE DEF judged, profile, merges
<1>5. (s5.gone \/ merges) \in BOOLEAN
  OBVIOUS
<1> QED
  BY <1>1, <1>3, <1>4, <1>5

LEMMA OutdatedFits ==
  ASSUME NEW ls \in [Decisions!Names -> ListStates]
  PROVE  /\ Decisions!Outdated(ls) \in [Decisions!Names -> ListStates]
         /\ \A n \in Decisions!Names : /\ Decisions!Outdated(ls)[n].rows = ls[n].rows
                                       /\ Decisions!Outdated(ls)[n].loaded = ls[n].loaded
                                       /\ Decisions!Outdated(ls)[n].shown = ls[n].shown
BY DEF Decisions!Outdated, ListStates

LEMMA SucceedKeeps ==
  ASSUME DecisionsAll, NEW i \in DOMAIN s6, Decisions!Succeed(i),
         s6' = Decisions!RemoveAt(s6, i), s10' = 0
  PROVE  DecisionsKept
<1> DEFINE r == s6[i]
<1>1. /\ s1 \in Decisions!Pages /\ s2 \in [Decisions!Names -> ListStates]
      /\ s5 \in [profile : Decisions!Profiles \cup {Decisions!NoProfile}, gone : BOOLEAN,
                judged : [Candidates -> Decisions!Judgements]]
      /\ s6 \in Seq(Judgings)
      /\ s8 \in [Candidates -> Decisions!Names \cup {Decisions!NoList}]
      /\ RowsLoaded(s2) /\ Drawn(s2, s8, s9, s6, s5.judged)
  BY DecisionTypes DEF DecisionsAll
<1>2. r \in Judgings /\ r.match \in Candidates /\ r.page \in Decisions!Pages
  <2>1. r \in Judgings
    BY <1>1
  <2> HIDE DEF r
  <2> QED
    BY <2>1 DEF Judgings
<1>3. /\ s5' = Decisions!Applied(r) /\ s1' = Decisions!Followed(r)
      /\ s9' = IF Decisions!Overtakes(i) THEN s9 \cup {r.match} ELSE s9
      /\ s8' = Decisions!StillDrawn
  BY DEF Decisions!Succeed
<1>4. /\ s5' \in [profile : Decisions!Profiles, gone : BOOLEAN,
                  judged : [Candidates -> Decisions!Judgements]]
      /\ s5'.judged[r.match] = r.judgement
      /\ \A m \in Candidates : m # r.match => s5'.judged[m] = s5.judged[m]
  BY <1>1, <1>2, <1>3, AppliedFits
<1>5. s1' \in Decisions!Pages
  <2>1. s5'.profile \in Decisions!Profiles
    BY <1>4
  <2>2. [r.page EXCEPT !.at = s5'.profile] \in Decisions!Pages
    BY <1>2, <2>1 DEF Decisions!Pages
  <2> QED
    BY <1>1, <1>3, <2>2 DEF Decisions!Followed
<1> HIDE DEF r
<1>6. /\ s2' \in [Decisions!Names -> ListStates] /\ RowsLoaded(s2')
      /\ \A n \in Decisions!Names : s2'[n].loaded => s2'[n].shown = s2[n].shown
      /\ s3' \in Decisions!Profiles \cup {Decisions!NoProfile}
  <2>1. CASE Decisions!InProfile(r)
    <3> DEFINE ls == Decisions!Opened(s1')
    <3>1. s2' = Decisions!Outdated(ls) /\ s3' = s3
      BY <2>1 DEF Decisions!Succeed, r
    <3>2. /\ ls \in [Decisions!Names -> ListStates] /\ RowsLoaded(ls)
          /\ \A n \in Decisions!Names : ls[n].loaded => ls[n] = s2[n]
      BY OpenedKeeps
    <3> HIDE DEF ls
    <3>3. /\ s2' \in [Decisions!Names -> ListStates]
          /\ \A n \in Decisions!Names : /\ s2'[n].rows = ls[n].rows
                                        /\ s2'[n].loaded = ls[n].loaded
                                        /\ s2'[n].shown = ls[n].shown
      BY <3>1, <3>2, OutdatedFits
    <3>4. s3' \in Decisions!Profiles \cup {Decisions!NoProfile}
      BY <3>1, DecisionTypes DEF DecisionsAll
    <3> QED
      BY <3>2, <3>3, <3>4 DEF RowsLoaded
  <2>2. CASE ~Decisions!InProfile(r)
    <3>1. s3' = s5'.profile /\ s2' = s2
      BY <2>2 DEF Decisions!Succeed, r
    <3> QED
      BY <1>1, <1>4, <3>1
  <2> QED
    BY <2>1, <2>2
<1>7. /\ s8' \in [Candidates -> Decisions!Names \cup {Decisions!NoList}]
      /\ \A m \in Candidates : s8'[m] # Decisions!NoList =>
           s8'[m] = s8[m] /\ s8[m] \in Decisions!Names /\ s2'[s8[m]].loaded
  BY <1>1, <1>3, StillDrawnFits
<1>8. s6' \in Seq(Judgings)
  BY <1>1, RemovedPosition DEF Decisions!RemoveAt
<1>9. Decisions!TypesKept'
  BY <1>4, <1>5, <1>6, <1>7, <1>8, DecisionTypesNext
<1>10. \A m \in Candidates \ s9' : \A j :
         Arrives(s6, s5.judged, m, j) => Arrives(s6', s5'.judged, m, j)
  <2> SUFFICES ASSUME NEW m \in Candidates \ s9', NEW j, Arrives(s6, s5.judged, m, j)
               PROVE  Arrives(s6', s5'.judged, m, j)
    OBVIOUS
  <2>1. CASE m # r.match
    <3>1. s6[i].match # m /\ s5'.judged[m] = s5.judged[m]
      BY <1>4, <2>1 DEF r
    <3> QED
      BY <1>1, <3>1, ArrivesAnswered
  <2>2. CASE m = r.match
    <3>1. /\ s6[i].match = m /\ s5'.judged[m] = s6[i].judgement
          /\ \A k \in 1..(i - 1) : s6[k].match # m
      BY <1>3, <1>4, <2>2 DEF Decisions!Overtakes, r
    <3> QED
      BY <1>1, <3>1, ArrivesAnswered
  <2> QED
    BY <2>1, <2>2
<1>11. \A m \in Candidates : s8'[m] # Decisions!NoList =>
         /\ s8'[m] = s8[m] /\ s2'[s8[m]].loaded
         /\ s2'[s8[m]].shown[m] = s2[s8[m]].shown[m]
         /\ m \notin s9' => m \notin s9
  BY <1>3, <1>6, <1>7
<1>12. Drawn(s2', s8', s9', s6', s5'.judged)
  BY <1>1, <1>10, <1>11, DrawnKept
<1> QED
  BY <1>6, <1>9, <1>12 DEF DecisionsKept

LEMMA FailKeeps ==
  ASSUME DecisionsAll, NEW i \in DOMAIN s6, Decisions!Fail(i),
         s6' = Decisions!RemoveAt(s6, i), s10' = 0
  PROVE  DecisionsKept
<1>1. /\ s6 \in Seq(Judgings) /\ s8 \in [Candidates -> Decisions!Names \cup {Decisions!NoList}]
      /\ RowsLoaded(s2) /\ Drawn(s2, s8, s9, s6, s5.judged)
  BY DecisionTypes DEF DecisionsAll
<1>2. UNCHANGED <<s1, s2, s3, s5, s8>> /\ s9' = s9 \cup {s6[i].match}
  BY DEF Decisions!Fail
<1>3. s6' \in Seq(Judgings)
  BY <1>1, RemovedPosition DEF Decisions!RemoveAt
<1>4. Decisions!TypesKept'
  BY <1>2, <1>3, DecisionTypes, DecisionTypesNext DEF DecisionsAll
<1>5. \A m \in Candidates \ s9' : \A j :
        Arrives(s6, s5.judged, m, j) => Arrives(s6', s5'.judged, m, j)
  <2> SUFFICES ASSUME NEW m \in Candidates \ s9', NEW j, Arrives(s6, s5.judged, m, j)
               PROVE  Arrives(s6', s5'.judged, m, j)
    OBVIOUS
  <2>1. s6[i].match # m /\ s5'.judged[m] = s5.judged[m]
    BY <1>2
  <2> QED
    BY <1>1, <2>1, ArrivesAnswered
<1>6. \A m \in Candidates : s8'[m] # Decisions!NoList =>
        /\ s8'[m] = s8[m] /\ s2'[s8[m]].loaded
        /\ s2'[s8[m]].shown[m] = s2[s8[m]].shown[m]
        /\ m \notin s9' => m \notin s9
  BY <1>1, <1>2 DEF Drawn
<1>7. Drawn(s2', s8', s9', s6', s5'.judged)
  BY <1>1, <1>5, <1>6, DrawnKept
<1> QED
  BY <1>1, <1>2, <1>4, <1>7 DEF DecisionsKept

LEMMA DeletedKeeps ==
  ASSUME DecisionsAll, Decisions!Outside
  PROVE  DecisionsKept /\ s10' + Decisions!RedirectsLeft' <= 2
<1>1. /\ UNCHANGED <<s1, s2, s3, s4, s6, s10>>
      /\ s5' = [profile |-> Decisions!NoProfile, gone |-> TRUE,
                judged |-> [m \in Candidates |-> "no_judgement"]]
      /\ s8' = [m \in Candidates |-> Decisions!NoList]
  BY DEF Decisions!Outside
<1>2. /\ s5' \in [profile : Decisions!Profiles \cup {Decisions!NoProfile}, gone : BOOLEAN,
                  judged : [Candidates -> Decisions!Judgements]]
      /\ s8' \in [Candidates -> Decisions!Names \cup {Decisions!NoList}]
  BY <1>1 DEF Decisions!Judgements
<1>3. Decisions!TypesKept'
  BY <1>1, <1>2, DecisionTypes, DecisionTypesNext DEF DecisionsAll
<1>4. RowsLoaded(s2') /\ Drawn(s2', s8', s9', s6', s5'.judged)
  BY <1>1 DEF DecisionsAll, Drawn
<1>5. Decisions!RedirectsLeft' = Decisions!RedirectsLeft
  BY <1>1 DEF Decisions!RedirectsLeft, Decisions!ProfileGone, Decisions!NoProfile,
              Decisions!Rows
<1>6. s10' + Decisions!RedirectsLeft' <= 2
  BY <1>1, <1>5 DEF DecisionsAll
<1> QED
  BY <1>3, <1>4, <1>6 DEF DecisionsKept

LEMMA DecisionsStep == Decisions!Inv /\ Decisions!Next => Decisions!Inv'
<1> SUFFICES ASSUME DecisionsAll, Decisions!Next PROVE DecisionsAll'
  BY DecisionsFit, DecisionsFitNext
<1>1. ASSUME DecisionsKept, s10' + Decisions!RedirectsLeft' <= 2
      PROVE  DecisionsAll'
  BY <1>1 DEF DecisionsKept, DecisionsAll, RowsLoaded, Drawn, Arrives, Decisions!NoList,
              Decisions!Names
<1>2. ASSUME s10' = 0 PROVE s10' + Decisions!RedirectsLeft' <= 2
  <2>1. ASSUME NEW n \in 0..2, NEW m, m = 0 PROVE m + n <= 2
    BY <2>1
  <2> QED
    BY <1>2, <2>1, RedirectsFewNext
<1>3. CASE Decisions!User
  BY <1>1, <1>2, <1>3, UserKeeps DEF Decisions!User
<1>4. CASE Decisions!Move
  BY <1>1, <1>2, <1>4, MoveKeeps DEF Decisions!Move
<1>5. CASE Decisions!Redirect
  BY <1>1, <1>5, RedirectKeeps
<1>6. CASE Decisions!Load
  BY <1>1, <1>2, <1>6, LoadKeeps DEF Decisions!Load
<1>7. CASE Decisions!Answer
  <2>1. PICK i \in DOMAIN s6 :
          (Decisions!Succeed(i) \/ Decisions!Fail(i)) /\ s6' = Decisions!RemoveAt(s6, i)
    BY <1>7 DEF Decisions!Answer
  <2>2. s10' = 0
    BY <1>7 DEF Decisions!Answer
  <2> QED
    BY <1>1, <1>2, <2>1, <2>2, SucceedKeeps, FailKeeps
<1>8. CASE Decisions!Outside
  BY <1>1, <1>8, DeletedKeeps
<1> QED
  BY <1>3, <1>4, <1>5, <1>6, <1>7, <1>8 DEF Decisions!Next

LEMMA DecisionsStay == Decisions!Inv /\ UNCHANGED vars => Decisions!Inv'
<1> SUFFICES ASSUME DecisionsAll, UNCHANGED vars PROVE DecisionsAll'
  BY DecisionsFit, DecisionsFitNext
<1>1. UNCHANGED <<s1, s2, s3, s4, s5, s6, s8, s9, s10>>
  BY DEF vars
<1>2. Decisions!TypesKept'
  BY <1>1, DecisionTypes, DecisionTypesNext DEF DecisionsAll
<1>3. Decisions!RedirectsLeft' = Decisions!RedirectsLeft
  BY <1>1 DEF Decisions!RedirectsLeft, Decisions!ProfileGone, Decisions!NoProfile,
              Decisions!Rows
<1>4. s10' + Decisions!RedirectsLeft' <= 2
  BY <1>1, <1>3 DEF DecisionsAll
<1> QED
  BY <1>1, <1>2, <1>4
  DEF DecisionsAll, RowsLoaded, Drawn, Arrives, Decisions!NoList, Decisions!Names

LEMMA DecisionsInit == Decisions!Init => Decisions!Inv
<1> SUFFICES ASSUME Decisions!Init PROVE DecisionsAll
  BY DecisionsFit
<1>1. PICK kind \in {"entity", "profile", "xref"} :
        /\ s1 = [kind |-> kind,
                 at |-> IF kind = "profile" THEN "p" ELSE Decisions!NoProfile,
                 tab |-> CASE kind = "entity" -> "similar"
                           [] kind = "profile" -> "items"
                           [] kind = "xref" -> "xref",
                 via |-> FALSE, keep |-> FALSE, selected |-> -1]
        /\ s5 = [profile |-> IF kind = "profile" THEN "p" ELSE Decisions!NoProfile,
                 gone |-> FALSE, judged |-> [m \in Candidates |-> "no_judgement"]]
  BY Zenon DEF Decisions!Init
<1>2. s1 \in Decisions!Pages /\ ~s1.via /\ ~s1.keep
  <2>1. -1 \in Int
    OBVIOUS
  <2> QED
    BY <1>1, <2>1 DEF Decisions!Pages, Decisions!Names, Decisions!Profiles
<1>3. s5 \in [profile : Decisions!Profiles \cup {Decisions!NoProfile}, gone : BOOLEAN,
              judged : [Candidates -> Decisions!Judgements]]
  BY <1>1 DEF Decisions!Profiles, Decisions!Judgements
<1>4. /\ s2 = [name \in Decisions!Names |-> Decisions!Empty] /\ s3 = Decisions!NoProfile
      /\ s6 = <<>> /\ s8 = [m \in Candidates |-> Decisions!NoList] /\ s10 = 0
  BY DEF Decisions!Init
<1>5. s2 \in [Decisions!Names -> ListStates] /\ RowsLoaded(s2)
  <2>1. <<>> \in Seq(Candidates)
    OBVIOUS
  <2>2. Decisions!Empty \in ListStates /\ Decisions!Empty.rows = <<>>
    BY <2>1 DEF Decisions!Empty, ListStates, Decisions!Judgements
  <2> QED
    BY <1>4, <2>2 DEF RowsLoaded
<1>6. Decisions!TypesKept
  <2>1. s6 \in Seq(Judgings)
    BY <1>4
  <2> QED
    BY <1>2, <1>3, <1>4, <1>5, <2>1, DecisionTypes
<1>7. Drawn(s2, s8, s9, s6, s5.judged)
  BY <1>4 DEF Drawn
<1>8. s10 + Decisions!RedirectsLeft <= 2
  BY <1>4, RedirectsFew
<1> QED
  BY <1>5, <1>6, <1>7, <1>8 DEF DecisionsAll

LEMMA DecisionsShow == Decisions!Inv => Decisions!DecisionsSettle
<1> SUFFICES ASSUME DecisionsAll PROVE Decisions!DecisionsSettle
  BY DecisionsFit
<1>1. s10 \in Nat /\ s10 + Decisions!RedirectsLeft <= 2
  BY DecisionTypes DEF DecisionsAll
<1>2. Decisions!RedirectsEnd
  BY <1>1, RedirectsFew DEF Decisions!RedirectsEnd
<1>3. Decisions!DecisionsArrive
  BY DEF Decisions!DecisionsArrive, DecisionsAll, Drawn, Arrives, Decisions!Waiting
<1> QED
  BY <1>2, <1>3 DEF Decisions!DecisionsSettle

-----------------------------------------------------------------------------
(* Searching                                                                *)

Grains == {"year", "month", "day"}

\* The two ends of a range.
Whole(gte, lte) ==
  /\ gte = <<>> <=> lte = <<>>
  /\ gte # <<>> => /\ Head(gte).grain = Head(lte).grain
                   /\ Head(gte).day <= Head(lte).day

QueryFits(q) ==
  /\ q = [n \in Search!Names |-> q[n]]
  /\ \A f \in DateFields : /\ q[<<"interval", f>>] \in Seq(Grains)
                           /\ Whole(q[<<"gte", f>>], q[<<"lte", f>>])

LEMMA SearchFit == Search!Inv <=> QueryFits(s2)
BY DEF Search!Inv, Search!RangesWhole, QueryFits, Whole, Grains

LEMMA SearchFitNext == Search!Inv' <=> QueryFits(s2')
<1>1. Search!Names' = Search!Names
  BY DEF Search!Names, Search!Kinds, Search!Fields, Search!Facets, Search!Sort, Search!Q,
         Search!Include, Search!Plain, Search!None
<1> QED
  BY <1>1 DEF Search!Inv, Search!RangesWhole, QueryFits, Whole, Grains

\* The names of the parameters.
LEMMA ParameterNames ==
  /\ \A f \in Search!Fields : \A kind \in Search!Kinds : <<kind, f>> \in Search!Names
  /\ {Search!Facets, Search!Sort, Search!Q, Search!Include, Search!Plain("synonyms")}
       \subseteq Search!Names
  /\ \A n \in {Search!Facets, Search!Sort, Search!Q, Search!Include,
               Search!Plain("synonyms")} :
       n[1] \notin {"gte", "lte", "interval"}
  /\ DateFields \subseteq Search!Fields
BY DEF Search!Names, Search!Kinds, Search!Fields, Search!Facets, Search!Sort, Search!Q,
       Search!Include, Search!Plain

LEMMA DateNames ==
  ASSUME NEW f \in DateFields
  PROVE  /\ <<"gte", f>> \in Search!Names /\ <<"lte", f>> \in Search!Names
         /\ <<"interval", f>> \in Search!Names
         /\ <<"gte", f>>[1] = "gte" /\ <<"lte", f>>[1] = "lte"
         /\ <<"interval", f>>[1] = "interval"
         /\ <<"gte", f>> # <<"lte", f>> /\ <<"gte", f>> # <<"interval", f>>
         /\ <<"lte", f>> # <<"interval", f>>
         /\ \A g : /\ <<"gte", f>> = <<"gte", g>> => f = g
                   /\ <<"lte", f>> = <<"lte", g>> => f = g
                   /\ <<"interval", f>> = <<"interval", g>> => f = g
                   /\ <<"gte", f>> # <<"interval", g>> /\ <<"lte", f>> # <<"interval", g>>
                   /\ <<"gte", f>> # <<"lte", g>> /\ <<"lte", f>> # <<"gte", g>>
                   /\ <<"interval", f>> # <<"gte", g>> /\ <<"interval", f>> # <<"lte", g>>
BY DEF Search!Names, Search!Kinds, Search!Fields

\* Changing one parameter.
LEMMA SetOne ==
  ASSUME NEW q, q = [n \in Search!Names |-> q[n]], NEW name \in Search!Names, NEW value
  PROVE  LET new == Search!Set(q, name, value)
         IN /\ new = [n \in Search!Names |-> new[n]]
            /\ new[name] = value
            /\ \A n \in Search!Names : n # name => new[n] = q[n]
BY DEF Search!Set

\* One that has nothing to do with the ranges.
LEMMA SetFits ==
  ASSUME NEW q, QueryFits(q), NEW name \in Search!Names,
         name[1] \notin {"gte", "lte", "interval"}, NEW value
  PROVE  QueryFits(Search!Set(q, name, value))
<1> DEFINE new == Search!Set(q, name, value)
<1>1. /\ new = [n \in Search!Names |-> new[n]]
      /\ \A n \in Search!Names : n # name => new[n] = q[n]
  BY SetOne DEF QueryFits
<1> HIDE DEF new
<1>2. ASSUME NEW f \in DateFields
      PROVE  /\ new[<<"gte", f>>] = q[<<"gte", f>>] /\ new[<<"lte", f>>] = q[<<"lte", f>>]
             /\ new[<<"interval", f>>] = q[<<"interval", f>>]
  <2>1. <<"gte", f>> # name /\ <<"lte", f>> # name /\ <<"interval", f>> # name
    BY DateNames
  <2> QED
    BY <1>1, <2>1, DateNames
<1> QED
  BY <1>1, <1>2 DEF QueryFits, new

LEMMA SetIntervalFits ==
  ASSUME NEW q, QueryFits(q), NEW f \in Search!Fields, NEW value,
         f \in DateFields => value \in Seq(Grains)
  PROVE  QueryFits(Search!Set(q, <<"interval", f>>, value))
<1> DEFINE name == <<"interval", f>>
           new == Search!Set(q, name, value)
<1>1. name \in Search!Names
  BY ParameterNames DEF Search!Kinds
<1>2. /\ new = [n \in Search!Names |-> new[n]] /\ new[name] = value
      /\ \A n \in Search!Names : n # name => new[n] = q[n]
  BY <1>1, SetOne DEF QueryFits
<1> HIDE DEF new
<1>3. ASSUME NEW g \in DateFields
      PROVE  /\ new[<<"gte", g>>] = q[<<"gte", g>>] /\ new[<<"lte", g>>] = q[<<"lte", g>>]
             /\ new[<<"interval", g>>] \in Seq(Grains)
  <2>1. new[<<"gte", g>>] = q[<<"gte", g>>] /\ new[<<"lte", g>>] = q[<<"lte", g>>]
    BY <1>2, DateNames
  <2>2. CASE g = f
    BY <1>2, <2>1, <2>2
  <2>3. CASE g # f
    <3>1. <<"interval", g>> # name /\ <<"interval", g>> \in Search!Names
      BY <2>3, DateNames
    <3> QED
      BY <1>2, <2>1, <3>1 DEF QueryFits
  <2> QED
    BY <2>2, <2>3
<1> QED
  BY <1>2, <1>3 DEF QueryFits, new

\* Both ends of a range.
LEMMA SetBothFits ==
  ASSUME NEW q, QueryFits(q), NEW f \in DateFields, NEW gte, NEW lte, Whole(gte, lte)
  PROVE  QueryFits(Search!Set(Search!Set(q, <<"gte", f>>, gte), <<"lte", f>>, lte))
<1> DEFINE half == Search!Set(q, <<"gte", f>>, gte)
           new == Search!Set(half, <<"lte", f>>, lte)
<1>1. /\ half = [n \in Search!Names |-> half[n]] /\ half[<<"gte", f>>] = gte
      /\ \A n \in Search!Names : n # <<"gte", f>> => half[n] = q[n]
  <2>1. <<"gte", f>> \in Search!Names /\ q = [n \in Search!Names |-> q[n]]
    BY DateNames DEF QueryFits
  <2> QED
    BY <2>1, SetOne
<1> HIDE DEF half
<1>2. /\ new = [n \in Search!Names |-> new[n]] /\ new[<<"lte", f>>] = lte
      /\ \A n \in Search!Names : n # <<"lte", f>> => new[n] = half[n]
  <2>1. <<"lte", f>> \in Search!Names /\ half = [n \in Search!Names |-> half[n]]
    BY <1>1, DateNames
  <2> QED
    BY <2>1, SetOne
<1> HIDE DEF new
<1>3. ASSUME NEW g \in DateFields
      PROVE  /\ new[<<"interval", g>>] = q[<<"interval", g>>]
             /\ Whole(new[<<"gte", g>>], new[<<"lte", g>>])
  <2>1. new[<<"interval", g>>] = q[<<"interval", g>>]
    BY <1>1, <1>2, DateNames
  <2>2. CASE g = f
    <3>1. new[<<"gte", f>>] = gte
      BY <1>1, <1>2, DateNames
    <3> QED
      BY <1>2, <2>1, <2>2, <3>1
  <2>3. CASE g # f
    <3>1. new[<<"gte", g>>] = q[<<"gte", g>>]
      BY <1>1, <1>2, <2>3, DateNames
    <3>2. new[<<"lte", g>>] = q[<<"lte", g>>]
      BY <1>1, <1>2, <2>3, DateNames
    <3> QED
      BY <2>1, <3>1, <3>2 DEF QueryFits
  <2> QED
    BY <2>2, <2>3
<1> QED
  BY <1>2, <1>3 DEF QueryFits, new, half

LEMMA AddFits ==
  ASSUME NEW q, QueryFits(q), NEW name \in Search!Names,
         name[1] \notin {"gte", "lte", "interval"}, NEW v
  PROVE  QueryFits(Search!Add(q, name, v)) /\ QueryFits(Search!Toggle(q, name, v))
BY SetFits DEF Search!Add, Search!Toggle

LEMMA WithoutFits ==
  ASSUME NEW s \in Seq(Grains), NEW v
  PROVE  Search!Without(s, v) \in Seq(Grains)
<1>1. \A S : Search!Filtered(s, S) = Filtered(s, S)
  BY DEF Search!Filtered, Filtered, Search!Positions, Positions, Search!Rank, Rank,
         Search!Cardinality, Cardinality, Search!IsFiniteSet, IsFiniteSet
<1>2. \A S : Filtered(s, S) \in Seq(Grains)
  BY FilteredShorter
<1> QED
  BY <1>1, <1>2 DEF Search!Without

LEMMA AddFacetFits ==
  ASSUME NEW q, QueryFits(q), NEW f \in Search!Fields
  PROVE  QueryFits(Search!AddFacet(q, f))
<1> DEFINE more == Search!Add(q, Search!Facets, f)
           sized == Search!Set(more, <<"size", f>>, <<DefaultSize>>)
           name == <<"interval", f>>
<1>1. QueryFits(more)
  BY AddFits, ParameterNames
<1>2. <<"size", f>> \in Search!Names /\ <<"size", f>>[1] = "size"
  BY ParameterNames DEF Search!Kinds
<1> HIDE DEF more
<1>3. QueryFits(sized)
  BY <1>1, <1>2, SetFits
<1> HIDE DEF sized
<1>4. ASSUME f \in DateFields PROVE QueryFits(Search!Add(sized, name, "year"))
  <2>1. sized[name] \in Seq(Grains)
    BY <1>3, <1>4 DEF QueryFits
  <2>2. Append(sized[name], "year") \in Seq(Grains)
    BY <2>1 DEF Grains
  <2>3. QueryFits(Search!Set(sized, name, Append(sized[name], "year")))
    BY <1>3, <1>4, <2>2, SetIntervalFits
  <2> QED
    BY <1>3, <2>3 DEF Search!Add
<1> QED
  BY <1>3, <1>4 DEF Search!AddFacet, sized, more

LEMMA RemoveFacetFits ==
  ASSUME NEW q, QueryFits(q), NEW f \in Search!Fields
  PROVE  QueryFits(Search!RemoveFacet(q, f))
<1> DEFINE a == Search!Without(q[Search!Facets], f)
           b == Search!Without(q[<<"interval", f>>], "year")
           one == Search!Set(q, Search!Facets, a)
           two == Search!Set(one, <<"size", f>>, <<>>)
           new == Search!Set(two, <<"interval", f>>, b)
<1>1. /\ <<"size", f>> \in Search!Names /\ <<"size", f>>[1] = "size"
      /\ <<"interval", f>> \in Search!Names
      /\ Search!Facets \in Search!Names /\ Search!Facets[1] = "facet"
      /\ <<"size", f>> # Search!Facets /\ <<"interval", f>> # Search!Facets
      /\ <<"size", f>> # <<"interval", f>>
  BY ParameterNames DEF Search!Kinds, Search!Facets, Search!Plain
<1>2. q = [n \in Search!Names |-> q[n]]
  BY DEF QueryFits
<1> HIDE DEF a, b
<1>3. QueryFits(one)
  BY <1>1, SetFits
<1>4. QueryFits(two)
  <2> HIDE DEF one
  <2> QED
    BY <1>1, <1>3, SetFits
<1>5. f \in DateFields => b \in Seq(Grains)
  BY WithoutFits DEF QueryFits, b
<1>6. QueryFits(new)
  <2> HIDE DEF two
  <2> QED
    BY <1>4, <1>5, SetIntervalFits
<1>7. Search!RemoveFacet(q, f) =
        [q EXCEPT ![Search!Facets] = a, ![<<"size", f>>] = <<>>, ![<<"interval", f>>] = b]
  BY <1>1, <1>2 DEF Search!RemoveFacet, a, b
<1>8. new = [q EXCEPT ![Search!Facets] = a, ![<<"size", f>>] = <<>>, ![<<"interval", f>>] = b]
  BY DEF Search!Set
<1> QED
  BY <1>6, <1>7, <1>8

LEMMA ClearedFits ==
  ASSUME NEW q, QueryFits(q), NEW f \in DateFields
  PROVE  QueryFits(Search!ClearedDates(q, f))
<1> DEFINE one == Search!Set(q, <<"gte", f>>, <<>>)
           two == Search!Set(one, <<"lte", f>>, <<>>)
           new == Search!Set(two, <<"interval", f>>, <<"year">>)
<1>1. QueryFits(two)
  BY SetBothFits DEF Whole
<1>2. <<"year">> \in Seq(Grains) /\ f \in Search!Fields
  BY ParameterNames DEF Grains
<1>3. QueryFits(new)
  <2> HIDE DEF two
  <2> QED
    BY <1>1, <1>2, SetIntervalFits
<1>4. new = Search!ClearedDates(q, f)
  BY DEF Search!Set, Search!ClearedDates
<1> QED
  BY <1>3, <1>4

LEMMA RemoveAllFits ==
  ASSUME NEW q, QueryFits(q)
  PROVE  QueryFits(Search!RemoveAllFilters(q))
<1> DEFINE new == Search!RemoveAllFilters(q)
<1>1. /\ new = [n \in Search!Names |-> new[n]]
      /\ \A n \in Search!Names :
           new[n] = IF n[1] \in {"filter", "gte", "lte"} THEN <<>> ELSE q[n]
  BY DEF Search!RemoveAllFilters
<1> HIDE DEF new
<1>2. ASSUME NEW f \in DateFields
      PROVE  /\ new[<<"gte", f>>] = <<>> /\ new[<<"lte", f>>] = <<>>
             /\ new[<<"interval", f>>] = q[<<"interval", f>>]
  BY <1>1, DateNames
<1> QED
  BY <1>1, <1>2 DEF QueryFits, Whole, new

\* The bar of a day that starts an interval ends later.
LEMMA IntervalWhole ==
  ASSUME QueryFits(s2), NEW f \in DateFields
  PROVE  /\ Search!Interval(f) \in Grains
         /\ \A d \in Search!FilterDateIntervals(f) :
              /\ d \in Nat /\ Search!End(d, Search!Interval(f)) \in Int
              /\ d <= Search!End(d, Search!Interval(f))
<1>1. s2[<<"interval", f>>] \in Seq(Grains)
  BY DEF QueryFits
<1>2. Search!Interval(f) \in Grains
  BY <1>1 DEF Search!Interval, Search!Get, Grains
<1>3. ASSUME NEW d \in Search!FilterDateIntervals(f)
      PROVE  /\ d \in Nat /\ Search!End(d, Search!Interval(f)) \in Int
             /\ d <= Search!End(d, Search!Interval(f))
  <2>1. d \in Nat /\ d = Search!Start(d, Search!Interval(f))
    BY SearchAssumption DEF Search!FilterDateIntervals
  <2> DEFINE grain == Search!Interval(f)
  <2>2. grain \in Grains
    BY <1>2
  <2> HIDE DEF grain
  <2>3. d = Search!Start(d, grain) => Search!End(d, grain) \in Int /\ d <= Search!End(d, grain)
    <3>1. CASE grain = "year"
      <4>1. Search!End(d, grain) = Search!Start(d, grain) + YearDays - 1
        BY <3>1 DEF Search!End
      <4> QED
        BY <2>1, <4>1, SearchAssumption
    <3>2. CASE grain = "month"
      <4>1. Search!End(d, grain) = Search!Start(d, grain) + MonthDays - 1
        BY <3>2 DEF Search!End
      <4> QED
        BY <2>1, <4>1, SearchAssumption
    <3>3. CASE grain = "day"
      BY <2>1, <3>3 DEF Search!End
    <3> QED
      BY <2>2, <3>1, <3>2, <3>3 DEF Grains
  <2> QED
    BY <2>1, <2>3 DEF grain
<1> QED
  BY <1>2, <1>3

LEMMA SetRangeFits ==
  ASSUME NEW q, QueryFits(q), NEW f \in DateFields, NEW from \in Int, NEW to \in Int,
         from <= to, NEW grain
  PROVE  QueryFits(Search!SetRange(q, f, from, to, grain))
<1> DEFINE gte == <<[day |-> from, grain |-> grain]>>
           lte == <<[day |-> to, grain |-> grain]>>
<1>1. Whole(gte, lte)
  BY DEF Whole
<1> QED
  BY <1>1, SetBothFits DEF Search!SetRange, Search!FormatDateQParam

-----------------------------------------------------------------------------
(* The steps of the search                                                  *)

\* On the facets.
LEMMA FacetsKeep ==
  ASSUME QueryFits(s2), NEW f \in Search!Fields,
         \/ Search!OnToggleFacet(f) \/ Search!ShowMore(f) \/ Search!OnClearDates(f)
         \/ Search!ToggleShownFacet(f) \/ Search!RemoveAllFilterValues
         \/ \E v : Search!OnSelect(f, v) \/ Search!RemoveFilterValue(f, v)
  PROVE  QueryFits(s2')
<1>1. \A kind \in {"filter", "size"} :
        <<kind, f>> \in Search!Names /\ <<kind, f>>[1] \notin {"gte", "lte", "interval"}
  BY ParameterNames DEF Search!Kinds
<1>2. ASSUME NEW q, QueryFits(q), Search!UpdateFacets(q) PROVE QueryFits(s2')
  <2>1. s2' = q
    BY <1>2 DEF Search!UpdateFacets, Search!UpdateQuery
  <2> QED
    BY <1>2, <2>1
<1>3. CASE Search!OnToggleFacet(f)
  <2>1. QueryFits(Search!RemoveFacet(s2, f)) /\ QueryFits(Search!AddFacet(s2, f))
    BY RemoveFacetFits, AddFacetFits
  <2> QED
    BY <1>2, <1>3, <2>1 DEF Search!OnToggleFacet
<1>4. CASE Search!ShowMore(f)
  <2>1. PICK value : Search!UpdateFacets(Search!Set(s2, <<"size", f>>, value))
    BY <1>4 DEF Search!ShowMore
  <2> QED
    BY <1>1, <1>2, <2>1, SetFits
<1>5. CASE Search!OnClearDates(f)
  BY <1>2, <1>5, ClearedFits DEF Search!OnClearDates
<1>6. CASE Search!ToggleShownFacet(f)
  <2> DEFINE sent == Search!AddIncludeFields(s2, Search!CurrentColumns)
  <2>1. QueryFits(sent)
    BY SetFits, ParameterNames DEF Search!AddIncludeFields
  <2>2. s2' = IF Search!IsOpen(f) THEN Search!RemoveFacet(sent, f) ELSE Search!AddFacet(sent, f)
    BY <1>6 DEF Search!ToggleShownFacet, Search!UpdateQuery
  <2> HIDE DEF sent
  <2> QED
    BY <2>1, <2>2, RemoveFacetFits, AddFacetFits
<1>7. CASE Search!RemoveAllFilterValues
  BY <1>2, <1>7, RemoveAllFits DEF Search!RemoveAllFilterValues
<1>8. CASE \E v : Search!OnSelect(f, v)
  <2>1. PICK v : Search!UpdateFacets(Search!Toggle(s2, <<"filter", f>>, v))
    BY <1>8 DEF Search!OnSelect
  <2> QED
    BY <1>1, <1>2, <2>1, AddFits
<1>9. CASE \E v : Search!RemoveFilterValue(f, v)
  <2>1. PICK v : Search!UpdateFacets(
                   IF f \in DateFields THEN Search!ClearedDates(s2, f)
                   ELSE Search!Set(s2, <<"filter", f>>,
                                   Search!Without(s2[<<"filter", f>>], v)))
    BY <1>9 DEF Search!RemoveFilterValue
  <2>2. f \in DateFields => QueryFits(Search!ClearedDates(s2, f))
    BY ClearedFits
  <2>3. QueryFits(Search!Set(s2, <<"filter", f>>, Search!Without(s2[<<"filter", f>>], v)))
    BY <1>1, SetFits
  <2> QED
    BY <1>2, <2>1, <2>2, <2>3
<1> QED
  BY <1>3, <1>4, <1>5, <1>6, <1>7, <1>8, <1>9

\* On the bars of the dates.
LEMMA BarsKeep ==
  ASSUME QueryFits(s2), NEW f \in DateFields, NEW d \in Search!FilterDateIntervals(f),
         \/ Search!OnSelectBar(f, d)
         \/ \E e \in Search!FilterDateIntervals(f) : Search!OnSelectRange(f, d, e)
  PROVE  QueryFits(s2')
<1>1. ASSUME NEW q, QueryFits(q), Search!UpdateFacets(q) PROVE QueryFits(s2')
  <2>1. s2' = q
    BY <1>1 DEF Search!UpdateFacets, Search!UpdateQuery
  <2> QED
    BY <1>1, <2>1
<1>2. CASE Search!OnSelectBar(f, d)
  <2> DEFINE grain == Search!Finer(Search!Interval(f))
             q == Search!Set(s2, <<"interval", f>>, <<grain>>)
             to == Search!End(d, Search!Interval(f))
  <2>1. d \in Int /\ to \in Int /\ d <= to
    BY IntervalWhole
  <2>2. Search!UpdateFacets(Search!SetRange(q, f, d, to, grain))
    BY <1>2 DEF Search!OnSelectBar
  <2>3. <<grain>> \in Seq(Grains)
    <3>1. grain \in Grains
      BY DEF Search!Finer, Grains
    <3> HIDE DEF grain
    <3> QED
      BY <3>1
  <2>4. QueryFits(q)
    <3> HIDE DEF grain
    <3> QED
      BY <2>3, SetIntervalFits, ParameterNames
  <2> HIDE DEF q, to, grain
  <2>5. QueryFits(Search!SetRange(q, f, d, to, grain))
    BY <2>1, <2>4, SetRangeFits
  <2> QED
    BY <1>1, <2>2, <2>5
<1>3. CASE \E e \in Search!FilterDateIntervals(f) : Search!OnSelectRange(f, d, e)
  <2>1. PICK e \in Search!FilterDateIntervals(f) : Search!OnSelectRange(f, d, e)
    BY <1>3
  <2> DEFINE from == IF d < e THEN d ELSE e
             to == IF d < e THEN e ELSE d
  <2>2. from \in Int /\ to \in Int /\ from <= to
    <3>1. d \in Nat /\ e \in Nat
      BY IntervalWhole
    <3> QED
      BY <3>1
  <2>3. Search!UpdateFacets(Search!SetRange(s2, f, from, to, Search!Interval(f)))
    BY <2>1 DEF Search!OnSelectRange
  <2> HIDE DEF from, to
  <2>4. QueryFits(Search!SetRange(s2, f, from, to, Search!Interval(f)))
    BY <2>2, SetRangeFits
  <2> QED
    BY <1>1, <2>3, <2>4
<1> QED
  BY <1>2, <1>3

\* The other steps change the text of the query, its order or the synonyms, or
\* nothing of it.
LEMMA TextsKeep ==
  ASSUME QueryFits(s2),
         \E name \in {Search!Q, Search!Sort, Search!Plain("synonyms")} : \E value :
           s2' = Search!Set(s2, name, value)
  PROVE  QueryFits(s2')
BY SetFits, ParameterNames

LEMMA SearchStep == Search!Inv /\ Search!Next => Search!Inv'
<1> SUFFICES ASSUME QueryFits(s2), Search!Next PROVE QueryFits(s2')
  BY SearchFit, SearchFitNext
<1>1. CASE \E f \in Search!Fields :
             \/ Search!OnToggleFacet(f) \/ Search!ShowMore(f) \/ Search!OnClearDates(f)
             \/ Search!OnFacetEdit(f) \/ Search!ToggleShownFacet(f)
             \/ Search!RemoveFilterValue(f, Search!None)
             \/ \E v \in FacetValues : Search!OnSelect(f, v) \/ Search!RemoveFilterValue(f, v)
  <2>1. PICK f \in Search!Fields :
             \/ Search!OnToggleFacet(f) \/ Search!ShowMore(f) \/ Search!OnClearDates(f)
             \/ Search!OnFacetEdit(f) \/ Search!ToggleShownFacet(f)
             \/ Search!RemoveFilterValue(f, Search!None)
             \/ \E v \in FacetValues : Search!OnSelect(f, v) \/ Search!RemoveFilterValue(f, v)
    BY <1>1
  <2>2. CASE Search!OnFacetEdit(f)
    BY <2>2 DEF Search!OnFacetEdit
  <2> QED
    BY <2>1, <2>2, FacetsKeep
<1>2. CASE Search!RemoveAllFilterValues
  <2>1. s2' = Search!RemoveAllFilters(s2)
    BY <1>2 DEF Search!RemoveAllFilterValues, Search!UpdateFacets, Search!UpdateQuery
  <2> QED
    BY <2>1, RemoveAllFits
<1>3. CASE \E f \in DateFields :
             \E d \in Search!FilterDateIntervals(f) :
               \/ Search!OnSelectBar(f, d)
               \/ \E e \in Search!FilterDateIntervals(f) : Search!OnSelectRange(f, d, e)
  BY <1>3, BarsKeep
<1>4. CASE \/ Search!ToggleShowHidden \/ Search!OnFacetReset \/ Search!ToggleFacets
           \/ Search!CheckMobileWidth \/ Search!OnColumnsReset \/ Search!ResultsAnswered
           \/ Search!GetMoreResults \/ Search!ClosePreview \/ Search!FetchDiscoveryData
  BY <1>4
  DEF Search!ToggleShowHidden, Search!OnFacetReset, Search!ToggleFacets,
      Search!CheckMobileWidth, Search!OnColumnsReset, Search!SetColumnsInHash,
      Search!ResultsAnswered, Search!GetMoreResults, Search!ClosePreview,
      Search!FetchDiscoveryData
<1>5. CASE \E name \in SearchColumns : Search!OnColumnsEdit(name) \/ Search!SortColumn(name)
  <2>1. PICK name \in SearchColumns : Search!OnColumnsEdit(name) \/ Search!SortColumn(name)
    BY <1>5
  <2>2. CASE Search!OnColumnsEdit(name)
    BY <2>2 DEF Search!OnColumnsEdit, Search!SetColumnsInHash
  <2>3. CASE Search!SortColumn(name)
    <3>1. PICK value : s2' = Search!Set(s2, Search!Sort, value)
      BY <2>3 DEF Search!SortColumn, Search!UpdateQuery, Search!SortBy
    <3> QED
      BY <3>1, TextsKeep
  <2> QED
    BY <2>1, <2>2, <2>3
<1>6. CASE \/ \E e \in Search!ToSet(FoundEntities) : Search!TogglePreview(e)
           \/ \E step \in {"next", "previous"} : Search!PreviewNeighbour(step)
           \/ \E text \in s8, T \in SUBSET SearchTerms : Search!TermsAnswered(text, T)
           \/ \E text \in TypedTexts : Search!OnQueryTextChange(text)
  <2>1. CASE \E e \in Search!ToSet(FoundEntities) : Search!TogglePreview(e)
    BY <2>1 DEF Search!TogglePreview
  <2>2. CASE \E step \in {"next", "previous"} : Search!PreviewNeighbour(step)
    BY <2>2 DEF Search!PreviewNeighbour
  <2>3. CASE \E text \in s8, T \in SUBSET SearchTerms : Search!TermsAnswered(text, T)
    BY <2>3, Zenon DEF Search!TermsAnswered
  <2>4. CASE \E text \in TypedTexts : Search!OnQueryTextChange(text)
    BY <2>4 DEF Search!OnQueryTextChange
  <2> QED
    BY <1>6, <2>1, <2>2, <2>3, <2>4
<1>7. CASE \/ \E i \in 1..MaxText : Search!RemovePhrase(i)
           \/ \E t \in SearchTerms : Search!HandleTermClick(t)
  <2>1. PICK text : Search!ChangeText(text)
    BY <1>7 DEF Search!RemovePhrase, Search!HandleTermClick
  <2>2. PICK value : s2' = Search!Set(s2, Search!Q, value)
    BY <2>1 DEF Search!ChangeText, Search!WithText
  <2> QED
    BY <2>2, TextsKeep
<1>8. CASE \E key \in Search!FormFields :
             \/ \E w \in Words : Search!AddWord(key, w)
             \/ \E i \in 1..MaxTerms : Search!RemoveWord(key, i)
  BY <1>8 DEF Search!AddWord, Search!RemoveWord
<1>9. CASE Search!SubmitForm \/ Search!OnSearchSubmit
  <2>1. PICK text : Search!ShowText(text)
    BY <1>9 DEF Search!SubmitForm, Search!OnSearchSubmit
  <2>2. PICK value : s2' = Search!Set(s2, Search!Q, value)
    BY <2>1 DEF Search!ShowText
  <2> QED
    BY <2>2, TextsKeep
<1>10. CASE Search!OnClear
  <2>1. s2' = Search!Set(s2, Search!Q, <<>>)
    BY <1>10 DEF Search!OnClear
  <2> QED
    BY <2>1, TextsKeep
<1>11. CASE Search!OnSynonymsChange
  <2>1. PICK value : s2' = Search!Set(s2, Search!Plain("synonyms"), value)
    BY <1>11 DEF Search!OnSynonymsChange, Search!Clear
  <2> QED
    BY <2>1, TextsKeep
<1> QED
  BY <1>1, <1>2, <1>3, <1>4, <1>5, <1>6, <1>7, <1>8, <1>9, <1>10, <1>11
  DEF Search!Next

LEMMA SearchStay == Search!Inv /\ UNCHANGED vars => Search!Inv'
BY SearchFit, SearchFitNext DEF vars

LEMMA SearchInit == Search!Init => Search!Inv
<1> SUFFICES ASSUME Search!Init PROVE QueryFits(s2)
  BY SearchFit
<1>1. <<>> \in Seq(Grains)
  OBVIOUS
<1>2. QueryFits(Search!NoSearch)
  <2>1. /\ Search!NoSearch = [n \in Search!Names |-> Search!NoSearch[n]]
        /\ \A n \in Search!Names : Search!NoSearch[n] = <<>>
    BY DEF Search!NoSearch
  <2> QED
    BY <1>1, <2>1, DateNames DEF QueryFits, Whole
<1>3. s2 = Search!NoSearch \/ \E value : s2 = Search!Set(Search!NoSearch, Search!Q, value)
  <2>1. CASE s1 = "terms"
    <3>1. PICK t \in SearchTerms, u \in SearchTerms :
            s2 = Search!Set(Search!NoSearch, Search!Q,
                            <<t \o <<Search!Space>> \o Search!Quoted(u)>>)
      BY <2>1, Zenon DEF Search!Init
    <3> QED
      BY <3>1
  <2>2. CASE s1 # "terms"
    BY <2>2 DEF Search!Init
  <2> QED
    BY <2>1, <2>2
<1> QED
  BY <1>2, <1>3, SetFits, ParameterNames

LEMMA SearchShow == Search!Inv => Search!RangesWhole
BY DEF Search!Inv

-----------------------------------------------------------------------------
(* The viewers: the explorer of a table                                     *)

\* The parts of the invariant of the explorer, for its values.
NoError(st, out) == st # "error" /\ ~Viewers!Has(out, "error")

ColumnsFit(st, tb, out, db) ==
  IF Viewers!Has(out, "ready")
  THEN \A i \in DOMAIN out : Viewers!Last(out, "ready", i) => out[i].columns = db.columns
  ELSE st = "table" /\ tb.columns = db.columns

RowsFit(tb, out, a) ==
  IF Viewers!Has(out, "results")
  THEN \A i \in DOMAIN out :
         Viewers!Last(out, "results", i) => out[i].rows = a.rows /\ out[i].total = a.total
  ELSE tb.rows = a.rows /\ tb.total = a.total

Boxes(q, in, out) ==
  /\ in \in Seq(Viewers!ToSet(in)) /\ out \in Seq(Viewers!ToSet(out))
  /\ \A i \in DOMAIN in : Viewers!Last(in, "query", i) => in[i].query = q
  /\ \A i \in DOMAIN out : out[i].type \in {"ready", "results", "error"}

Columns(st, tb, out, db) ==
  NoError(st, out) =>
    IF db.made THEN ColumnsFit(st, tb, out, db)
    ELSE st = "loading" /\ ~Viewers!Has(out, "ready") /\ ~Viewers!Has(out, "results")

Rows(st, tb, in, out, db, a) ==
  NoError(st, out) /\ db.made /\ ~Viewers!Has(out, "ready") /\ ~Viewers!Has(in, "query") =>
    RowsFit(tb, out, a)

TableShape(tb) == tb = [columns |-> tb.columns, rows |-> tb.rows, total |-> tb.total]

WorkerShape(w) ==
  w = [text |-> w.text, settings |-> w.settings, asked |-> w.asked,
       fetching |-> w.fetching, jobs |-> w.jobs, db |-> w.db]

ExplorerFits(st, q, tb, in, out, w) ==
  /\ Boxes(q, in, out)
  /\ TableShape(tb) /\ WorkerShape(w)
  /\ Columns(st, tb, out, w.db)
  /\ Rows(st, tb, in, out, w.db, Viewers!Answer(w.db, q))

LEMMA ExplorerFit == Viewers!ExplorerKept <=> ExplorerFits(s2, s4, s5, s7, s8, s10)
BY DEF Viewers!ExplorerKept, ExplorerFits, Boxes, TableShape, WorkerShape, Columns,
       Rows, ColumnsFit, RowsFit, NoError, Viewers!Ok, Viewers!LastColumns,
       Viewers!LastRows

LEMMA ExplorerFitNext == Viewers!ExplorerKept' <=> ExplorerFits(s2', s4', s5', s7', s8', s10')
<1>1. Viewers!Answer(s10.db, s4)' = Viewers!Answer(s10'.db, s4')
  OBVIOUS
<1> QED
BY <1>1 DEF Viewers!ExplorerKept, ExplorerFits, Boxes, TableShape, WorkerShape, Columns,
       Rows, ColumnsFit, RowsFit, NoError, Viewers!Ok, Viewers!LastColumns,
       Viewers!LastRows, Viewers!Has, Viewers!Last, Viewers!ToSet

\* t is s with m put at its end.
PutAt(s, m, t) ==
  /\ t \in Seq(Viewers!ToSet(t))
  /\ \A i \in DOMAIN t : (i \in DOMAIN s /\ t[i] = s[i]) \/ t[i] = m
  /\ \A type : Viewers!Has(t, type) <=> Viewers!Has(s, type) \/ m.type = type
  /\ \A type, i : Viewers!Last(t, type, i) =>
       IF m.type = type THEN t[i] = m ELSE Viewers!Last(s, type, i) /\ t[i] = s[i]

LEMMA PutLast ==
  ASSUME NEW s, s \in Seq(Viewers!ToSet(s)), NEW m
  PROVE  PutAt(s, m, Append(s, m))
<1> DEFINE S == Viewers!ToSet(s) \cup {m}
           n == Len(s)
           t == Append(s, m)
<1>1. s \in Seq(S)
  <2>1. Viewers!ToSet(s) \subseteq S
    OBVIOUS
  <2> HIDE DEF S
  <2>2. \A i \in 1..Len(s) : s[i] \in S
    BY <2>1
  <2> QED
    BY <2>2
<1>2. /\ t \in Seq(S) /\ n \in Nat /\ DOMAIN s = 1..n /\ DOMAIN t = 1..(n + 1)
      /\ Len(t) = n + 1
      /\ \A i \in 1..n : t[i] = s[i]
      /\ t[n + 1] = m
  <2>1. m \in S
    OBVIOUS
  <2> HIDE DEF S
  <2> QED
    BY <1>1, <2>1
<1> HIDE DEF t, n
<1>3. t \in Seq(Viewers!ToSet(t))
  <2>1. \A i \in DOMAIN t : t[i] \in Viewers!ToSet(t)
    BY DEF Viewers!ToSet
  <2> QED
    BY <1>2, <2>1
<1>4. \A i \in 1..(n + 1) : i \in 1..n \/ i = n + 1
  BY <1>2
<1>5. \A i \in DOMAIN t : (i \in DOMAIN s /\ t[i] = s[i]) \/ t[i] = m
  BY <1>2, <1>4
<1>6. ASSUME NEW type
      PROVE  Viewers!Has(t, type) <=> Viewers!Has(s, type) \/ m.type = type
  <2>1. n + 1 \in DOMAIN t /\ \A i \in DOMAIN s : i \in DOMAIN t
    BY <1>2
  <2> QED
    BY <1>2, <1>5, <2>1 DEF Viewers!Has
<1>7. ASSUME NEW type, NEW i, Viewers!Last(t, type, i)
      PROVE  IF m.type = type THEN t[i] = m ELSE Viewers!Last(s, type, i) /\ t[i] = s[i]
  <2>1. /\ i \in 1..(n + 1) /\ t[i].type = type
        /\ \A j \in 1..(n + 1) : t[j].type = type => j <= i
    BY <1>2, <1>7 DEF Viewers!Last
  <2>2. CASE m.type = type
    <3>1. n + 1 \in 1..(n + 1) /\ t[n + 1].type = type
      BY <1>2, <2>2
    <3>2. n + 1 <= i
      BY <2>1, <3>1
    <3>3. i = n + 1
      BY <1>2, <2>1, <3>2
    <3> QED
      BY <1>2, <2>2, <3>3
  <2>3. CASE m.type # type
    <3>1. i # n + 1
      BY <1>2, <2>1, <2>3
    <3>2. i \in 1..n
      BY <1>4, <2>1, <3>1
    <3>3. \A j \in 1..n : j \in 1..(n + 1)
      BY <1>2
    <3> QED
      BY <1>2, <2>1, <2>3, <3>2, <3>3 DEF Viewers!Last
  <2> QED
    BY <2>2, <2>3
<1> QED
  BY <1>3, <1>5, <1>6, <1>7 DEF t, PutAt

\* t is s without m, its first.
TakenFrom(s, m, t) ==
  /\ t \in Seq(Viewers!ToSet(t))
  /\ 1 \in DOMAIN s /\ s[1] = m
  /\ \A i \in DOMAIN t : i + 1 \in DOMAIN s /\ t[i] = s[i + 1]
  /\ \A type : Viewers!Has(s, type) <=> Viewers!Has(t, type) \/ m.type = type
  /\ \A type, i : Viewers!Last(t, type, i) => Viewers!Last(s, type, i + 1)
  /\ \A type : m.type = type /\ ~Viewers!Has(t, type) => Viewers!Last(s, type, 1)

LEMMA TakeFirst ==
  ASSUME NEW s, s \in Seq(Viewers!ToSet(s)), s # <<>>
  PROVE  TakenFrom(s, Head(s), Tail(s))
<1> DEFINE S == Viewers!ToSet(s)
           n == Len(s)
           t == Tail(s)
           m == Head(s)
<1>1. /\ t \in Seq(S) /\ n \in Nat /\ DOMAIN s = 1..n /\ DOMAIN t = 1..(n - 1)
      /\ n >= 1 /\ m = s[1]
      /\ \A i \in 1..(n - 1) : t[i] = s[i + 1]
  <2> HIDE DEF S
  <2>1. s \in Seq(S)
    BY DEF S
  <2> QED
    BY <2>1
<1> HIDE DEF t, n, m
<1>2. t \in Seq(Viewers!ToSet(t))
  <2>1. \A i \in DOMAIN t : t[i] \in Viewers!ToSet(t)
    BY DEF Viewers!ToSet
  <2> QED
    BY <1>1, <2>1
<1>3. \A i \in DOMAIN t : i \in Nat /\ i + 1 \in DOMAIN s /\ t[i] = s[i + 1]
  BY <1>1
<1>4. 1 \in DOMAIN s /\ \A i \in DOMAIN s : i = 1 \/ (i - 1 \in DOMAIN t /\ i = (i - 1) + 1)
  BY <1>1
<1>5. ASSUME NEW type
      PROVE  Viewers!Has(s, type) <=> Viewers!Has(t, type) \/ m.type = type
  <2>1. ASSUME NEW i \in DOMAIN s, s[i].type = type PROVE Viewers!Has(t, type) \/ m.type = type
    <3>1. CASE i = 1
      BY <1>1, <2>1, <3>1
    <3>2. CASE i # 1
      <4>1. i - 1 \in DOMAIN t /\ t[i - 1] = s[i]
        BY <1>3, <1>4, <3>2
      <4> QED
        BY <2>1, <4>1 DEF Viewers!Has
    <3> QED
      BY <3>1, <3>2
  <2> QED
    BY <1>1, <1>3, <1>4, <2>1 DEF Viewers!Has
<1>6. ASSUME NEW type, NEW i, Viewers!Last(t, type, i)
      PROVE  Viewers!Last(s, type, i + 1)
  <2>1. i \in DOMAIN t /\ t[i].type = type /\ \A j \in DOMAIN t : t[j].type = type => j <= i
    BY <1>6 DEF Viewers!Last
  <2>2. i \in Nat /\ i + 1 \in DOMAIN s /\ s[i + 1].type = type
    BY <1>3, <2>1
  <2>3. ASSUME NEW j \in DOMAIN s, s[j].type = type PROVE j <= i + 1
    <3>1. CASE j = 1
      BY <2>2, <3>1
    <3>2. CASE j # 1
      <4>1. j - 1 \in DOMAIN t /\ t[j - 1] = s[j] /\ j - 1 \in Nat /\ j = (j - 1) + 1
        BY <1>3, <1>4, <3>2
      <4>2. j - 1 <= i
        BY <2>1, <2>3, <4>1
      <4> QED
        BY <1>1, <2>2, <4>1, <4>2
    <3> QED
      BY <3>1, <3>2
  <2> QED
    BY <2>2, <2>3 DEF Viewers!Last
<1>7. ASSUME NEW type, m.type = type, ~Viewers!Has(t, type)
      PROVE  Viewers!Last(s, type, 1)
  <2>1. ASSUME NEW j \in DOMAIN s, s[j].type = type PROVE j = 1
    <3>1. CASE j # 1
      <4>1. j - 1 \in DOMAIN t /\ t[j - 1] = s[j]
        BY <1>3, <1>4, <3>1
      <4> QED
        BY <1>7, <2>1, <4>1 DEF Viewers!Has
    <3> QED
      BY <3>1
  <2>2. s[1].type = type
    BY <1>1, <1>7
  <2>3. \A j \in DOMAIN s : s[j].type = type => j <= 1
    BY <2>1
  <2> QED
    BY <1>4, <2>2, <2>3 DEF Viewers!Last
<1> QED
  BY <1>1, <1>2, <1>3, <1>4, <1>5, <1>6, <1>7 DEF t, m, TakenFrom

\* The query is sent, or something else is.
LEMMA QuerySent ==
  ASSUME NEW st, NEW q, NEW tb, NEW in, NEW out, NEW w, ExplorerFits(st, q, tb, in, out, w),
         NEW r, NEW m, m.type = "query", m.query = r
  PROVE  ExplorerFits(st, r, tb, Append(in, m), out, w)
<1> DEFINE in2 == Append(in, m)
<1>1. in \in Seq(Viewers!ToSet(in))
  BY DEF ExplorerFits, Boxes
<1>2. PutAt(in, m, in2)
  BY <1>1, PutLast
<1> HIDE DEF in2
<1>3. Boxes(r, in2, out)
  BY <1>2 DEF ExplorerFits, Boxes, PutAt
<1>4. \A a : Rows(st, tb, in2, out, w.db, a)
  BY <1>2 DEF Rows, PutAt
<1>5. ExplorerFits(st, r, tb, in2, out, w)
  BY <1>3, <1>4 DEF ExplorerFits
<1> QED
  BY <1>5 DEF in2

LEMMA OtherSent ==
  ASSUME NEW st, NEW q, NEW tb, NEW in, NEW out, NEW w, ExplorerFits(st, q, tb, in, out, w),
         NEW m, m.type # "query"
  PROVE  ExplorerFits(st, q, tb, Append(in, m), out, w)
<1> DEFINE in2 == Append(in, m)
<1>1. in \in Seq(Viewers!ToSet(in))
  BY DEF ExplorerFits, Boxes
<1> HIDE DEF in2
<1>2. /\ in2 \in Seq(Viewers!ToSet(in2))
      /\ Viewers!Has(in2, "query") <=> Viewers!Has(in, "query")
      /\ \A i : Viewers!Last(in2, "query", i) => Viewers!Last(in, "query", i) /\ in2[i] = in[i]
  <2>1. PutAt(in, m, in2)
    BY <1>1, PutLast DEF in2
  <2> QED
    BY <2>1 DEF PutAt
<1>3. Boxes(q, in2, out)
  <2>1. \A i : Viewers!Last(in, "query", i) => i \in DOMAIN in
    BY DEF Viewers!Last
  <2> QED
    BY <1>2, <2>1 DEF ExplorerFits, Boxes
<1>4. \A a : Rows(st, tb, in, out, w.db, a) => Rows(st, tb, in2, out, w.db, a)
  BY <1>2 DEF Rows
<1>5. ExplorerFits(st, q, tb, in2, out, w)
  BY <1>3, <1>4 DEF ExplorerFits
<1> QED
  BY <1>5 DEF in2

\* Nothing is promised about a table after an error.
LEMMA AfterError ==
  ASSUME NEW st, NEW q, NEW tb, NEW in, NEW out, NEW w,
         Boxes(q, in, out), TableShape(tb), WorkerShape(w),
         st = "error" \/ Viewers!Has(out, "error")
  PROVE  ExplorerFits(st, q, tb, in, out, w)
BY DEF ExplorerFits, Columns, Rows, NoError

\* A message for the explorer is put behind the others.
LEMMA MessagePut ==
  ASSUME NEW q, NEW in, NEW out, Boxes(q, in, out),
         NEW m, m.type \in {"ready", "results", "error"}
  PROVE  Boxes(q, in, Append(out, m)) /\ PutAt(out, m, Append(out, m))
<1> DEFINE out2 == Append(out, m)
<1>1. out \in Seq(Viewers!ToSet(out))
  BY DEF Boxes
<1>2. PutAt(out, m, out2)
  BY <1>1, PutLast
<1> HIDE DEF out2
<1>3. Boxes(q, in, out2)
  BY <1>2 DEF Boxes, PutAt
<1> QED
  BY <1>2, <1>3 DEF out2

\* The worker answers a query, if it has the file, or takes another message.
LEMMA WorkerTakes ==
  ASSUME NEW st, NEW q, NEW tb, NEW in, NEW out, NEW w, ExplorerFits(st, q, tb, in, out, w),
         in # <<>>
  PROVE  LET m == Head(in)
         IN /\ m.type = "query" /\ w.db.made =>
                 ExplorerFits(st, q, tb, Tail(in),
                              Append(out, Viewers!Answer(w.db, m.query)), w)
            /\ m.type = "query" /\ ~w.db.made => ExplorerFits(st, q, tb, Tail(in), out, w)
            /\ m.type # "query" => ExplorerFits(st, q, tb, Tail(in), out, w)
<1> DEFINE m == Head(in)
           in2 == Tail(in)
<1>1. in \in Seq(Viewers!ToSet(in))
  BY DEF ExplorerFits, Boxes
<1>2. TakenFrom(in, m, in2)
  BY <1>1, TakeFirst
<1> HIDE DEF m, in2
<1>3. Boxes(q, in2, out)
  <2>1. \A i : Viewers!Last(in, "query", i) => in[i].query = q
    BY DEF Viewers!Last, ExplorerFits, Boxes
  <2> QED
    BY <1>2, <2>1 DEF ExplorerFits, Boxes, TakenFrom, Viewers!Last
<1>4. CASE m.type = "query" /\ w.db.made
  <2> DEFINE a == Viewers!Answer(w.db, m.query)
             out2 == Append(out, a)
  <2>1. a.type = "results"
    BY DEF Viewers!Answer, Viewers!Message
  <2>2. ~Viewers!Has(in2, "query") => m.query = q
    BY <1>2, <1>4 DEF Viewers!Last, ExplorerFits, Boxes, TakenFrom
  <2> HIDE DEF a
  <2>3. /\ Boxes(q, in2, out2)
        /\ \A type : Viewers!Has(out2, type) <=> Viewers!Has(out, type) \/ type = "results"
        /\ \A type, i : Viewers!Last(out2, type, i) =>
             IF type = "results" THEN out2[i] = a
             ELSE Viewers!Last(out, type, i) /\ out2[i] = out[i]
    <3>1. Boxes(q, in2, out2) /\ PutAt(out, a, out2)
      BY <1>3, <2>1, MessagePut
    <3> HIDE DEF out2
    <3> QED
      BY <2>1, <3>1 DEF PutAt
  <2> HIDE DEF out2
  <2>4. Columns(st, tb, out2, w.db)
    <3> SUFFICES ASSUME NoError(st, out2) PROVE ColumnsFit(st, tb, out2, w.db)
      BY <1>4 DEF Columns
    <3>1. NoError(st, out) /\ (Viewers!Has(out2, "ready") <=> Viewers!Has(out, "ready"))
      BY <2>3 DEF NoError
    <3>2. ColumnsFit(st, tb, out, w.db)
      BY <1>4, <3>1 DEF ExplorerFits, Columns
    <3>3. \A i : Viewers!Last(out2, "ready", i) => /\ Viewers!Last(out, "ready", i)
                                                   /\ i \in DOMAIN out /\ out2[i] = out[i]
      BY <2>3 DEF Viewers!Last
    <3> QED
      BY <3>1, <3>2, <3>3 DEF ColumnsFit
  <2>5. Rows(st, tb, in2, out2, w.db, Viewers!Answer(w.db, q))
    <3> SUFFICES ASSUME ~Viewers!Has(in2, "query")
                 PROVE RowsFit(tb, out2, Viewers!Answer(w.db, q))
      BY DEF Rows
    <3>1. Viewers!Answer(w.db, q) = a
      BY <2>2 DEF a
    <3> QED
      BY <2>3, <3>1 DEF RowsFit
  <2>6. ExplorerFits(st, q, tb, in2, out2, w)
    BY <2>3, <2>4, <2>5 DEF ExplorerFits
  <2> QED
    BY <1>4, <2>6 DEF a, out2, m, in2
<1>5. CASE ~(m.type = "query" /\ w.db.made)
  <2>1. \A a : Rows(st, tb, in, out, w.db, a) => Rows(st, tb, in2, out, w.db, a)
    BY <1>2, <1>5 DEF Rows, TakenFrom
  <2>2. ExplorerFits(st, q, tb, in2, out, w)
    BY <1>3, <2>1 DEF ExplorerFits
  <2> QED
    BY <1>5, <2>2 DEF m, in2
<1> QED
  BY <1>4, <1>5

\* What the worker does besides: it is told settings, and fetches the file.
LEMMA WorkerSame ==
  ASSUME NEW st, NEW q, NEW tb, NEW in, NEW out, NEW w, ExplorerFits(st, q, tb, in, out, w),
         NEW w2, WorkerShape(w2), w2.db = w.db
  PROVE  ExplorerFits(st, q, tb, in, out, w2)
BY DEF ExplorerFits

\* It reads the file, and the columns are on their way.
LEMMA FileRead ==
  ASSUME NEW st, NEW q, NEW tb, NEW in, NEW out, NEW w, ExplorerFits(st, q, tb, in, out, w),
         NEW w2, WorkerShape(w2), w2.db.made,
         NEW m, m.type = "ready", m.columns = w2.db.columns
  PROVE  ExplorerFits(st, q, tb, in, Append(out, m), w2)
<1> DEFINE out2 == Append(out, m)
<1>1. Boxes(q, in, out2) /\ PutAt(out, m, out2)
  BY MessagePut DEF ExplorerFits
<1> HIDE DEF out2
<1>2. Viewers!Has(out2, "ready") /\ \A i : Viewers!Last(out2, "ready", i) => out2[i] = m
  BY <1>1 DEF PutAt
<1>3. Columns(st, tb, out2, w2.db)
  BY <1>2 DEF Columns, ColumnsFit
<1>4. Rows(st, tb, in, out2, w2.db, Viewers!Answer(w2.db, q))
  BY <1>2 DEF Rows
<1>5. ExplorerFits(st, q, tb, in, out2, w2)
  BY <1>1, <1>3, <1>4 DEF ExplorerFits
<1> QED
  BY <1>5 DEF out2

\* Something failed.
LEMMA FileNotRead ==
  ASSUME NEW st, NEW q, NEW tb, NEW in, NEW out, NEW w, ExplorerFits(st, q, tb, in, out, w),
         NEW w2, WorkerShape(w2), NEW m, m.type = "error"
  PROVE  ExplorerFits(st, q, tb, in, Append(out, m), w2)
<1> DEFINE out2 == Append(out, m)
<1>1. Boxes(q, in, out2) /\ PutAt(out, m, out2)
  BY MessagePut DEF ExplorerFits
<1> HIDE DEF out2
<1>2. Viewers!Has(out2, "error")
  BY <1>1 DEF PutAt
<1>3. ExplorerFits(st, q, tb, in, out2, w2)
  BY <1>1, <1>2, AfterError DEF ExplorerFits
<1> QED
  BY <1>3 DEF out2

\* The explorer takes a message from the worker.
LEMMA MessageTaken ==
  ASSUME NEW st, NEW q, NEW tb, NEW in, NEW out, NEW w, ExplorerFits(st, q, tb, in, out, w),
         out # <<>>
  PROVE  Boxes(q, in, Tail(out)) /\ TakenFrom(out, Head(out), Tail(out))
<1> DEFINE m == Head(out)
           out2 == Tail(out)
<1>1. out \in Seq(Viewers!ToSet(out))
  BY DEF ExplorerFits, Boxes
<1>2. TakenFrom(out, m, out2)
  BY <1>1, TakeFirst
<1> HIDE DEF m, out2
<1>3. Boxes(q, in, out2)
  BY <1>2 DEF TakenFrom, ExplorerFits, Boxes
<1> QED
  BY <1>2, <1>3 DEF m, out2

LEMMA ReadyTaken ==
  ASSUME NEW st, NEW q, NEW tb, NEW in, NEW out, NEW w, ExplorerFits(st, q, tb, in, out, w),
         NEW out2, NEW m, TakenFrom(out, m, out2), Boxes(q, in, out2), m.type = "ready",
         NEW tb2, TableShape(tb2), tb2.columns = m.columns,
         NEW n, n.type = "query", n.query = q
  PROVE  ExplorerFits(IF st = "error" THEN "error" ELSE "table", q, tb2, Append(in, n), out2, w)
<1> DEFINE st2 == IF st = "error" THEN "error" ELSE "table"
<1>1. Columns(st2, tb2, out2, w.db)
  <2> SUFFICES ASSUME NoError(st2, out2)
               PROVE  w.db.made /\ ColumnsFit(st2, tb2, out2, w.db)
    BY DEF Columns
  <2>1. NoError(st, out) /\ st2 = "table" /\ Viewers!Has(out, "ready")
    BY DEF NoError, TakenFrom
  <2>2. w.db.made /\ ColumnsFit(st, tb, out, w.db)
    BY <2>1 DEF ExplorerFits, Columns
  <2>3. \A i \in DOMAIN out : Viewers!Last(out, "ready", i) => out[i].columns = w.db.columns
    BY <2>1, <2>2 DEF ColumnsFit
  <2>4. CASE Viewers!Has(out2, "ready")
    <3>1. \A i \in DOMAIN out2 : Viewers!Last(out2, "ready", i) =>
            i + 1 \in DOMAIN out /\ Viewers!Last(out, "ready", i + 1) /\ out2[i] = out[i + 1]
      BY DEF TakenFrom
    <3> QED
      BY <2>2, <2>3, <2>4, <3>1 DEF ColumnsFit
  <2>5. CASE ~Viewers!Has(out2, "ready")
    <3>1. Viewers!Last(out, "ready", 1) /\ 1 \in DOMAIN out /\ out[1] = m
      BY <2>5 DEF TakenFrom
    <3>2. m.columns = w.db.columns
      BY <2>3, <3>1
    <3> QED
      BY <2>1, <2>2, <2>5, <3>2 DEF ColumnsFit
  <2> QED
    BY <2>4, <2>5
<1> DEFINE in2 == Append(in, n)
<1>2. PutAt(in, n, in2)
  <2>1. in \in Seq(Viewers!ToSet(in))
    BY DEF ExplorerFits, Boxes
  <2> QED
    BY <2>1, PutLast
<1> HIDE DEF in2, st2
<1>3. Boxes(q, in2, out2)
  BY <1>2 DEF Boxes, PutAt
<1>4. \A a : Rows(st2, tb2, in2, out2, w.db, a)
  BY <1>2 DEF Rows, PutAt
<1>5. ExplorerFits(st2, q, tb2, in2, out2, w)
  BY <1>1, <1>3, <1>4 DEF ExplorerFits
<1> QED
  BY <1>5 DEF in2, st2

LEMMA ResultsTaken ==
  ASSUME NEW st, NEW q, NEW tb, NEW in, NEW out, NEW w, ExplorerFits(st, q, tb, in, out, w),
         NEW out2, NEW m, TakenFrom(out, m, out2), Boxes(q, in, out2), m.type = "results",
         NEW tb2, TableShape(tb2), tb2.columns = tb.columns,
         tb2.rows = m.rows, tb2.total = m.total
  PROVE  ExplorerFits(st, q, tb2, in, out2, w)
<1>1. /\ NoError(st, out2) => NoError(st, out)
      /\ Viewers!Has(out, "results")
      /\ Viewers!Has(out, "ready") <=> Viewers!Has(out2, "ready")
  BY DEF NoError, TakenFrom
<1>2. ASSUME NEW type, NEW i \in DOMAIN out2, Viewers!Last(out2, type, i)
      PROVE  i + 1 \in DOMAIN out /\ Viewers!Last(out, type, i + 1) /\ out2[i] = out[i + 1]
  BY <1>2 DEF TakenFrom
<1>3. Columns(st, tb2, out2, w.db)
  <2> SUFFICES ASSUME NoError(st, out2)
               PROVE  w.db.made /\ ColumnsFit(st, tb2, out2, w.db)
    BY DEF Columns
  <2>1. w.db.made /\ ColumnsFit(st, tb, out, w.db)
    BY <1>1 DEF ExplorerFits, Columns
  <2> QED
    BY <1>1, <1>2, <2>1 DEF ColumnsFit
<1>4. ASSUME NEW a, Rows(st, tb, in, out, w.db, a)
      PROVE  Rows(st, tb2, in, out2, w.db, a)
  <2> SUFFICES ASSUME NoError(st, out2), w.db.made, ~Viewers!Has(out2, "ready"),
                      ~Viewers!Has(in, "query")
               PROVE  RowsFit(tb2, out2, a)
    BY DEF Rows
  <2>1. RowsFit(tb, out, a)
    BY <1>1, <1>4 DEF Rows
  <2>2. \A i \in DOMAIN out :
          Viewers!Last(out, "results", i) => out[i].rows = a.rows /\ out[i].total = a.total
    BY <1>1, <2>1 DEF RowsFit
  <2>3. CASE Viewers!Has(out2, "results")
    BY <1>2, <2>2, <2>3 DEF RowsFit
  <2>4. CASE ~Viewers!Has(out2, "results")
    <3>1. Viewers!Last(out, "results", 1) /\ 1 \in DOMAIN out /\ out[1] = m
      BY <2>4 DEF TakenFrom
    <3> QED
      BY <2>2, <2>4, <3>1 DEF RowsFit
  <2> QED
    BY <2>3, <2>4
<1> QED
  BY <1>3, <1>4 DEF ExplorerFits

\* The explorer's steps.
LEMMA LinkStep ==
  ASSUME ExplorerFits(s2, s4, s5, s7, s8, s10), Viewers!Link
  PROVE  ExplorerFits(s2', s4', s5', s7', s8', s10')
<1>1. s4' = s4 /\ s5' = s5 /\ s8' = s8 /\ s10' = s10
  BY DEF Viewers!Link
<1>2. CASE s2' = "error" /\ s7' = s7
  BY <1>1, <1>2, AfterError DEF ExplorerFits
<1>3. CASE Viewers!Post([Viewers!InitMessage EXCEPT !.settings = Viewers!Defaults]) /\ s2' = s2
  <2> DEFINE m == [Viewers!InitMessage EXCEPT !.settings = Viewers!Defaults]
  <2>1. s7' = Append(s7, m)
    BY <1>3 DEF Viewers!Post
  <2>2. m.type = "init"
    BY DEF Viewers!InitMessage
  <2> HIDE DEF m
  <2> QED
    BY <1>1, <1>3, <2>1, <2>2, OtherSent
<1> QED
  BY <1>2, <1>3 DEF Viewers!Link

LEMMA OnMessageStep ==
  ASSUME ExplorerFits(s2, s4, s5, s7, s8, s10), Viewers!OnMessage
  PROVE  ExplorerFits(s2', s4', s5', s7', s8', s10')
<1> DEFINE m == Head(s8)
<1>1. /\ s8 # <<>> /\ s8' = Tail(s8) /\ s4' = s4 /\ s10' = s10
      /\ Viewers!Receive(m)
  BY DEF Viewers!OnMessage
<1>2. Boxes(s4, s7, s8') /\ TakenFrom(s8, m, s8')
  BY <1>1, MessageTaken
<1>3. m.type \in {"ready", "results", "error"} /\ TableShape(s5) /\ WorkerShape(s10)
  BY <1>2 DEF ExplorerFits, Boxes, TakenFrom
<1> HIDE DEF m
<1>4. CASE m.type = "ready"
  <2> DEFINE n == Viewers!QueryMessage(s4)
  <2>1. /\ s5' = [columns |-> m.columns, rows |-> s5.rows, total |-> m.total]
        /\ s2' = IF s2 = "error" THEN "error" ELSE "table"
        /\ s7' = Append(s7, n)
    BY <1>1, <1>4 DEF Viewers!Receive, Viewers!Post
  <2>2. n.type = "query" /\ n.query = s4
    BY DEF Viewers!QueryMessage
  <2>3. TableShape(s5') /\ s5'.columns = m.columns
    BY <2>1 DEF TableShape
  <2> HIDE DEF n
  <2> QED
    BY <1>1, <1>2, <1>4, <2>1, <2>2, <2>3, ReadyTaken
<1>5. CASE m.type = "results"
  <2>1. /\ s5' = [s5 EXCEPT !.rows = m.rows, !.total = m.total]
        /\ s2' = s2 /\ s7' = s7
    BY <1>1, <1>5 DEF Viewers!Receive
  <2>2. /\ TableShape(s5') /\ s5'.columns = s5.columns
        /\ s5'.rows = m.rows /\ s5'.total = m.total
    BY <1>3, <2>1 DEF TableShape
  <2> QED
    BY <1>1, <1>2, <1>5, <2>1, <2>2, ResultsTaken
<1>6. CASE m.type = "error"
  <2>1. s5' = s5 /\ s2' = "error" /\ s7' = s7
    BY <1>1, <1>6 DEF Viewers!Receive
  <2> QED
    BY <1>1, <1>2, <1>3, <2>1, AfterError
<1> QED
  BY <1>3, <1>4, <1>5, <1>6

LEMMA WorkerReceivesStep ==
  ASSUME ExplorerFits(s2, s4, s5, s7, s8, s10), Viewers!WorkerReceives
  PROVE  ExplorerFits(s2', s4', s5', s7', s8', s10')
<1> DEFINE m == Head(s7)
<1>1. /\ s7 # <<>> /\ s7' = Tail(s7) /\ s2' = s2 /\ s4' = s4 /\ s5' = s5
      /\ WorkerShape(s10)
  BY DEF Viewers!WorkerReceives, ExplorerFits
<1>2. CASE m.type \in {"init", "updateSettings"}
  <2>1. s8' = s8 /\ WorkerShape(s10') /\ s10'.db = s10.db
    <3>1. CASE m.type = "init" /\ Viewers!WorkerInit(m) /\ s8' = s8
      BY <1>1, <3>1 DEF Viewers!WorkerInit, WorkerShape
    <3>2. CASE m.type = "updateSettings" /\ Viewers!WorkerUpdate(m) /\ s8' = s8
      BY <1>1, <3>2 DEF Viewers!WorkerUpdate, WorkerShape
    <3> QED
      BY <1>2, <3>1, <3>2 DEF Viewers!WorkerReceives
  <2>2. ExplorerFits(s2, s4, s5, s7', s8, s10)
    BY <1>1, <1>2, WorkerTakes
  <2> QED
    BY <1>1, <2>1, <2>2, WorkerSame
<1>3. CASE m.type = "query"
  <2>1. /\ s10' = s10
        /\ s8' = IF s10.db.made THEN Append(s8, Viewers!Answer(s10.db, m.query)) ELSE s8
    BY <1>3 DEF Viewers!WorkerReceives
  <2>2. CASE s10.db.made
    BY <1>1, <1>3, <2>1, <2>2, WorkerTakes
  <2>3. CASE ~s10.db.made
    BY <1>1, <1>3, <2>1, <2>3, WorkerTakes
  <2> QED
    BY <2>2, <2>3
<1> QED
  BY <1>2, <1>3 DEF Viewers!WorkerReceives

LEMMA WorkerFetchesStep ==
  ASSUME ExplorerFits(s2, s4, s5, s7, s8, s10), Viewers!WorkerFetches
  PROVE  ExplorerFits(s2', s4', s5', s7', s8', s10')
<1>1. s2' = s2 /\ s4' = s4 /\ s5' = s5 /\ s7' = s7 /\ WorkerShape(s10)
  BY DEF Viewers!WorkerFetches, ExplorerFits
<1>2. CASE /\ s10' = [s10 EXCEPT !.fetching = FALSE, !.text = TRUE,
                        !.settings = s10.asked, !.jobs = Append(@, s10.asked)]
           /\ s8' = s8
  <2>1. WorkerShape(s10') /\ s10'.db = s10.db
    BY <1>1, <1>2 DEF WorkerShape
  <2> QED
    BY <1>1, <1>2, <2>1, WorkerSame
<1>3. CASE /\ s10' = [s10 EXCEPT !.fetching = FALSE]
           /\ s8' = Append(s8, Viewers!Message("error"))
  <2>1. WorkerShape(s10') /\ Viewers!Message("error").type = "error"
    BY <1>1, <1>3 DEF WorkerShape, Viewers!Message
  <2> QED
    BY <1>1, <1>3, <2>1, FileNotRead
<1> QED
  BY <1>2, <1>3 DEF Viewers!WorkerFetches

LEMMA ProcessCSVStep ==
  ASSUME ExplorerFits(s2, s4, s5, s7, s8, s10), Viewers!ProcessCSV
  PROVE  ExplorerFits(s2', s4', s5', s7', s8', s10')
<1> DEFINE s == Head(s10.jobs)
           readable == s10.text /\ s.skip < Len(TableFile)
<1>1. /\ s2' = s2 /\ s4' = s4 /\ s5' = s5 /\ s7' = s7 /\ WorkerShape(s10)
      /\ s10' = [s10 EXCEPT !.jobs = Tail(@),
                            !.db = IF readable THEN Viewers!Database(s) ELSE Viewers!NoDb]
      /\ s8' = Append(s8, IF readable THEN Viewers!Ready(s) ELSE Viewers!Message("error"))
  BY DEF Viewers!ProcessCSV, ExplorerFits
<1> HIDE DEF s, readable
<1>2. /\ WorkerShape(s10')
      /\ s10'.db = IF readable THEN Viewers!Database(s) ELSE Viewers!NoDb
  BY <1>1 DEF WorkerShape
<1>3. CASE readable
  <2>1. /\ Viewers!Ready(s).type = "ready" /\ Viewers!Ready(s).columns = Viewers!Header(s)
        /\ Viewers!Database(s).made /\ Viewers!Database(s).columns = Viewers!Header(s)
    BY DEF Viewers!Ready, Viewers!Message, Viewers!Database
  <2> QED
    BY <1>1, <1>2, <1>3, <2>1, FileRead
<1>4. CASE ~readable
  <2>1. Viewers!Message("error").type = "error"
    BY DEF Viewers!Message
  <2> QED
    BY <1>1, <1>2, <1>4, <2>1, FileNotRead
<1> QED
  BY <1>3, <1>4

\* The user's steps: a query or a change of the settings is sent.
LEMMA RunQueryStep ==
  ASSUME ExplorerFits(s2, s4, s5, s7, s8, s10), NEW q, Viewers!RunQuery(q)
  PROVE  ExplorerFits(s2', s4', s5', s7', s8', s10')
<1> DEFINE m == Viewers!QueryMessage(q)
<1>1. /\ s4' = q /\ s7' = Append(s7, m)
      /\ s2' = s2 /\ s5' = s5 /\ s8' = s8 /\ s10' = s10
  BY DEF Viewers!RunQuery, Viewers!Post
<1>2. m.type = "query" /\ m.query = q
  BY DEF Viewers!QueryMessage
<1> HIDE DEF m
<1> QED
  BY <1>1, <1>2, QuerySent

LEMMA SettingsStep ==
  ASSUME ExplorerFits(s2, s4, s5, s7, s8, s10), NEW s, NEW patch,
         Viewers!OnSettingsChange(s, patch)
  PROVE  ExplorerFits(s2', s4', s5', s7', s8', s10')
<1> DEFINE m == Viewers!SettingsMessage(patch)
<1>1. /\ s7' = Append(s7, m) /\ s4' = s4
      /\ s2' = s2 /\ s5' = s5 /\ s8' = s8 /\ s10' = s10
  BY DEF Viewers!OnSettingsChange, Viewers!Post
<1>2. m.type = "updateSettings"
  BY DEF Viewers!SettingsMessage
<1> HIDE DEF m
<1> QED
  BY <1>1, <1>2, OtherSent

LEMMA ExplorerStep ==
  ASSUME ExplorerFits(s2, s4, s5, s7, s8, s10), Viewers!Explorer
  PROVE  ExplorerFits(s2', s4', s5', s7', s8', s10')
<1>1. CASE \E q : Viewers!RunQuery(q)
  BY <1>1, RunQueryStep
<1>2. CASE \E s, patch : Viewers!OnSettingsChange(s, patch)
  BY <1>2, SettingsStep
<1>3. Viewers!OnSearch => \E q : Viewers!RunQuery(q)
  BY DEF Viewers!OnSearch
<1>4. Viewers!TableActions => \E q : Viewers!RunQuery(q)
  <2>1. Viewers!OnPage => \E q : Viewers!RunQuery(q)
    BY DEF Viewers!OnPage
  <2>2. ASSUME NEW col PROVE Viewers!OnSort(col) => \E q : Viewers!RunQuery(q)
    BY DEF Viewers!OnSort
  <2> QED
    BY <2>1, <2>2 DEF Viewers!TableActions
<1>5. Viewers!FilterBar => \E q : Viewers!RunQuery(q)
  <2>1. Viewers!OnApplyFilter => \E q : Viewers!RunQuery(q)
    BY DEF Viewers!OnApplyFilter
  <2>2. Viewers!RemoveFilter => \E q : Viewers!RunQuery(q)
    BY DEF Viewers!RemoveFilter
  <2> QED
    BY <2>1, <2>2 DEF Viewers!FilterBar
<1>6. Viewers!Settings => \E s, patch : Viewers!OnSettingsChange(s, patch)
  BY DEF Viewers!Settings
<1>7. \/ Viewers!Link \/ Viewers!OnMessage \/ Viewers!WorkerReceives
      \/ Viewers!WorkerFetches \/ Viewers!ProcessCSV
      \/ Viewers!OnSearch \/ Viewers!TableActions \/ Viewers!FilterBar \/ Viewers!Settings
  BY DEF Viewers!Explorer
<1> QED
  BY <1>1, <1>2, <1>3, <1>4, <1>5, <1>6, <1>7, LinkStep, OnMessageStep,
     WorkerReceivesStep, WorkerFetchesStep, ProcessCSVStep

-----------------------------------------------------------------------------
(* The viewer of a PDF                                                      *)

PdfFits(a, res, data, rot) ==
  /\ res # Viewers!None => res = a.doc
  /\ data # <<>> => rot = Viewers!Normal(Turned[data[1]][data[2]] + a.rotate)

LEMMA PdfFit == Viewers!PdfKept <=> PdfFits(s11, s16, s17, s18)
BY DEF Viewers!PdfKept, PdfFits

LEMMA PdfFitNext == Viewers!PdfKept' <=> PdfFits(s11', s16', s17', s18')
BY DEF Viewers!PdfKept, PdfFits, Viewers!Normal, Viewers!None

\* Another address.
LEMMA FollowFits ==
  ASSUME PdfFits(s11, s16, s17, s18), NEW a, Viewers!Follow(a)
  PROVE  PdfFits(s11', s16', s17', s18')
<1>1. s11' = a
  BY DEF Viewers!Follow
<1>2. CASE /\ IF a.doc = s11.doc THEN UNCHANGED <<s16, s15>>
              ELSE s16' = Viewers!None /\ s15' = s15 \cup {a.doc}
           /\ s18' = IF a.rotate # s11.rotate THEN Viewers!SetRotation(s17, a) ELSE s18
           /\ s17' = s17
  <2>1. s16' # Viewers!None => s16' = a.doc
    BY <1>2 DEF PdfFits
  <2>2. s17' # <<>> => s18' = Viewers!Normal(Turned[s17[1]][s17[2]] + a.rotate)
    <3>1. CASE a.rotate # s11.rotate
      BY <1>2, <3>1 DEF Viewers!SetRotation
    <3>2. CASE a.rotate = s11.rotate
      BY <1>2, <3>2 DEF PdfFits
    <3> QED
      BY <3>1, <3>2
  <2> QED
    BY <1>1, <1>2, <2>1, <2>2 DEF PdfFits
<1>3. CASE s16' = Viewers!None /\ s17' = <<>>
  BY <1>3 DEF PdfFits
<1> QED
  BY <1>2, <1>3 DEF Viewers!Follow, Viewers!Mount

LEMMA PdfStep ==
  ASSUME PdfFits(s11, s16, s17, s18), Viewers!Pdf
  PROVE  PdfFits(s11', s16', s17', s18')
<1>1. CASE \E a : Viewers!Follow(a)
  BY <1>1, FollowFits
<1>2. CASE Viewers!ResolvePdfUrl
  <2>1. PICK d : /\ Viewers!Resolved(d) \/ s16' = s16
                 /\ s11' = s11 /\ s17' = s17 /\ s18' = s18
    BY <1>2 DEF Viewers!ResolvePdfUrl
  <2> QED
    BY <2>1 DEF Viewers!Resolved, PdfFits
<1>3. CASE Viewers!Counted \/ Viewers!FetchComponents
  BY <1>3 DEF Viewers!Counted, Viewers!FetchComponents, PdfFits
<1>4. CASE Viewers!OnPageLoad
  <2>1. /\ s11' = s11 /\ s16' = s16 /\ s17' = <<s16, Viewers!Page>>
        /\ s18' = Viewers!SetRotation(s17', s11)
    BY <1>4 DEF Viewers!OnPageLoad
  <2>2. s17' # <<>>
    BY <2>1
  <2> QED
    BY <2>1, <2>2 DEF PdfFits, Viewers!SetRotation
<1>5. Viewers!TogglePreview => \E a : Viewers!Follow(a)
  <2>1. ASSUME NEW d,
               IF d # s11.doc THEN Viewers!Follow([s11 EXCEPT !.doc = d, !.q = s11.search])
               ELSE Viewers!Follow([s11 EXCEPT !.doc = Viewers!None, !.q = Viewers!None])
        PROVE  \E a : Viewers!Follow(a)
    BY <2>1
  <2>2. Viewers!Follow([s11 EXCEPT !.doc = Viewers!None, !.page = 0, !.q = Viewers!None])
        => \E a : Viewers!Follow(a)
    OBVIOUS
  <2> QED
    BY <2>1, <2>2, Zenon DEF Viewers!TogglePreview
<1>6. Viewers!OnDocumentSearch => \E a : Viewers!Follow(a)
  BY DEF Viewers!OnDocumentSearch
<1>7. Viewers!ChooseHit => \E a : Viewers!Follow(a)
  BY DEF Viewers!ChooseHit
<1>8. Viewers!PagingButtons => \E a : Viewers!Follow(a)
  BY DEF Viewers!PagingButtons, Viewers!GoToPage
<1> QED
  BY <1>1, <1>2, <1>3, <1>4, <1>5, <1>6, <1>7, <1>8 DEF Viewers!Pdf

\* What is on the screen follows the address.
LEMMA PdfShows == PdfFits(s11, s16, s17, s18) => Viewers!PdfFollowsAddress
<1> SUFFICES ASSUME PdfFits(s11, s16, s17, s18) PROVE Viewers!PdfFollowsAddress
  OBVIOUS
<1>1. ASSUME s17 = <<s11.doc, Viewers!Page>>
      PROVE  s18 = Viewers!Normal(Turned[s11.doc][Viewers!Page] + s11.rotate)
  <2>1. s17 # <<>> /\ s17[1] = s11.doc /\ s17[2] = Viewers!Page
    BY <1>1
  <2> QED
    BY <2>1 DEF PdfFits
<1> QED
  BY <1>1 DEF Viewers!PdfFollowsAddress, PdfFits

-----------------------------------------------------------------------------
(* The plain table                                                          *)

Parsers == [doc : Docs, given : Nat, paused : BOOLEAN]

TypedStream(c) ==
  /\ c \in [doc : Docs, url : Docs, waiting : Seq(Docs), requested : Nat, rows : Seq(Docs),
            parser : Nat, streams : Seq(Parsers)]
  /\ c.parser <= Len(c.streams)

StreamFits(c) ==
  /\ TypedStream(c)
  /\ c.parser # 0 /\ c.streams[c.parser].paused => Len(c.rows) >= c.requested

LEMMA StreamFit == Viewers!StreamTyped /\ Viewers!NeverStalls <=> StreamFits(s19)
BY DEF Viewers!StreamTyped, Viewers!NeverStalls, StreamFits, TypedStream, Parsers

LEMMA StreamFitNext == (Viewers!StreamTyped /\ Viewers!NeverStalls)' <=> StreamFits(s19')
BY DEF Viewers!StreamTyped, Viewers!NeverStalls, StreamFits, TypedStream, Parsers

\* After each change the parser goes on if rows are missing.
LEMMA ResumeFits ==
  ASSUME NEW c, TypedStream(c)
  PROVE  StreamFits(Viewers!Resume(c))
<1>1. /\ c.parser \in Nat /\ c.streams \in Seq(Parsers) /\ c.parser <= Len(c.streams)
      /\ Len(c.rows) \in Nat /\ c.requested \in Nat
  BY DEF TypedStream
<1>2. CASE Len(c.rows) < c.requested /\ c.parser # 0
  <2> DEFINE d == [c EXCEPT !.streams[c.parser].paused = FALSE]
             p == [c.streams[c.parser] EXCEPT !.paused = FALSE]
             ss == [c.streams EXCEPT ![c.parser] = p]
  <2>1. d = [c EXCEPT !.streams = ss]
    BY DEF TypedStream
  <2>2. c.parser \in DOMAIN c.streams
    BY <1>1, <1>2
  <2>3. p \in Parsers /\ p.paused = FALSE
    <3>1. c.streams[c.parser] \in Parsers
      BY <1>1, <2>2
    <3> QED
      BY <3>1 DEF Parsers
  <2> HIDE DEF p
  <2>4. ss \in Seq(Parsers) /\ Len(ss) = Len(c.streams) /\ ss[c.parser] = p
    BY <1>1, <2>2, <2>3
  <2> HIDE DEF ss, d
  <2>5. TypedStream(d) /\ d.streams = ss /\ d.parser = c.parser
    BY <1>1, <2>1, <2>4 DEF TypedStream
  <2>6. StreamFits(d)
    BY <2>3, <2>4, <2>5 DEF StreamFits
  <2> QED
    BY <1>2, <2>6 DEF Viewers!Resume, d
<1>3. CASE ~(Len(c.rows) < c.requested /\ c.parser # 0)
  BY <1>1, <1>3 DEF Viewers!Resume, StreamFits
<1> QED
  BY <1>2, <1>3

LEMMA DidUpdateFits ==
  ASSUME NEW c, TypedStream(c)
  PROVE  StreamFits(Viewers!DidUpdate(c))
<1> DEFINE r == Viewers!Resume(c)
<1>1. StreamFits(r)
  BY ResumeFits
<1> HIDE DEF r
<1>2. CASE r.url # r.doc
  <2> DEFINE u == [r EXCEPT !.url = r.doc, !.waiting = Append(@, r.doc)]
  <2>1. Append(r.waiting, r.doc) \in Seq(Docs)
    <3>1. r.waiting \in Seq(Docs) /\ r.doc \in Docs
      BY <1>1 DEF StreamFits, TypedStream
    <3> QED
      BY <3>1
  <2>2. /\ u.parser = r.parser /\ u.streams = r.streams /\ u.rows = r.rows
        /\ u.requested = r.requested
        /\ TypedStream(u)
    BY <1>1, <2>1 DEF StreamFits, TypedStream
  <2> HIDE DEF u
  <2>3. StreamFits(u)
    BY <1>1, <2>2 DEF StreamFits
  <2> QED
    BY <1>2, <2>3 DEF Viewers!DidUpdate, u, r
<1>3. CASE r.url = r.doc
  BY <1>1, <1>3 DEF Viewers!DidUpdate, r
<1> QED
  BY <1>2, <1>3

LEMMA FetchCsvStep ==
  ASSUME StreamFits(s19), Viewers!FetchCsv
  PROVE  StreamFits(s19')
<1>1. PICK i \in DOMAIN s19.waiting :
        LET url == s19.waiting[i]
            rest == [s19 EXCEPT !.waiting = Viewers!RemoveAt(@, i)] IN
        \/ s19' = rest
        \/ /\ url = s19.url
           /\ s19' = [rest EXCEPT !.streams =
                        Append(@, [doc |-> url, given |-> 0, paused |-> FALSE])]
  BY Zenon DEF Viewers!FetchCsv
<1> DEFINE rest == [s19 EXCEPT !.waiting = Viewers!RemoveAt(@, i)]
           one == [doc |-> s19.waiting[i], given |-> 0, paused |-> FALSE]
<1>2. s19.waiting \in Seq(Docs) /\ s19.waiting[i] \in Docs /\ one \in Parsers
  BY DEF StreamFits, TypedStream, Parsers
<1>3. Viewers!RemoveAt(s19.waiting, i) \in Seq(Docs)
  BY <1>2, RemovedPosition DEF Viewers!RemoveAt
<1>4. StreamFits(rest) /\ rest.streams = s19.streams
  BY <1>3 DEF StreamFits, TypedStream
<1> HIDE DEF rest, one
<1>5. CASE s19' = rest
  BY <1>4, <1>5
<1>6. CASE s19' = [rest EXCEPT !.streams = Append(@, one)]
  <2> DEFINE ss == Append(rest.streams, one)
  <2>1. /\ rest.streams \in Seq(Parsers) /\ rest.parser \in Nat
        /\ rest.parser <= Len(rest.streams)
    BY <1>4 DEF StreamFits, TypedStream
  <2>2. /\ ss \in Seq(Parsers) /\ rest.parser <= Len(ss)
        /\ rest.parser # 0 => ss[rest.parser] = rest.streams[rest.parser]
    BY <1>2, <2>1
  <2>3. s19' = [rest EXCEPT !.streams = ss]
    BY <1>6
  <2> HIDE DEF ss
  <2>4. /\ TypedStream(s19') /\ s19'.streams = ss /\ s19'.parser = rest.parser
        /\ s19'.rows = rest.rows /\ s19'.requested = rest.requested
    BY <1>4, <2>2, <2>3 DEF StreamFits, TypedStream
  <2> QED
    BY <1>4, <2>2, <2>4 DEF StreamFits
<1> QED
  BY <1>1, <1>5, <1>6 DEF rest, one

LEMMA ProcessCsvStep ==
  ASSUME StreamFits(s19), Viewers!ProcessCsvResults
  PROVE  StreamFits(s19')
<1>1. PICK i \in DOMAIN s19.streams :
        LET s == s19.streams[i]
            n == IF s.given + Chunk > FileRows[s.doc] THEN FileRows[s.doc] - s.given ELSE Chunk
            rows == s19.rows \o [j \in 1..n |-> s.doc] IN
        /\ s.given < FileRows[s.doc]
        /\ s19' = Viewers!DidUpdate([s19 EXCEPT !.rows = rows, !.parser = i,
                       !.streams[i].given = @ + n,
                       !.streams[i].paused = Len(rows) > s19.requested])
  BY Zenon DEF Viewers!ProcessCsvResults
<1> DEFINE s == s19.streams[i]
           n == IF s.given + Chunk > FileRows[s.doc] THEN FileRows[s.doc] - s.given ELSE Chunk
           rows == s19.rows \o [j \in 1..n |-> s.doc]
           c == [s19 EXCEPT !.rows = rows, !.parser = i,
                            !.streams[i].given = @ + n,
                            !.streams[i].paused = Len(rows) > s19.requested]
<1>2. s19' = Viewers!DidUpdate(c) /\ s.given < FileRows[s.doc]
  BY <1>1
<1>3. /\ s19.streams \in Seq(Parsers) /\ i \in 1..Len(s19.streams) /\ Len(s19.streams) \in Nat
      /\ s \in Parsers /\ s19.rows \in Seq(Docs)
  BY DEF StreamFits, TypedStream
<1>4. s.doc \in Docs /\ s.given \in Nat /\ FileRows[s.doc] \in Nat /\ Chunk \in Nat
  BY <1>3, ViewersAssumption DEF Parsers
<1>5. n \in Nat
  <2> HIDE DEF s
  <2>1. ASSUME NEW g \in Nat, NEW f \in Nat, NEW k \in Nat, g < f
        PROVE  (IF g + k > f THEN f - g ELSE k) \in Nat
    BY <2>1
  <2> QED
    BY <1>2, <1>4, <2>1
<1> HIDE DEF n, s
<1>6. rows \in Seq(Docs)
  <2>1. [j \in 1..n |-> s.doc] \in Seq(Docs)
    BY <1>4, <1>5
  <2> QED
    BY <1>3, <2>1, JoinedPosition
<1> HIDE DEF rows
<1> DEFINE paused == Len(rows) > s19.requested
           p == [s EXCEPT !.given = @ + n, !.paused = paused]
           ss == [s19.streams EXCEPT ![i] = p]
<1>7. p \in Parsers
  <2>1. s.given + n \in Nat
    BY <1>4, <1>5
  <2>2. paused \in BOOLEAN
    OBVIOUS
  <2> HIDE DEF paused
  <2> QED
    BY <1>3, <2>1, <2>2 DEF Parsers
<1>8. c = [s19 EXCEPT !.rows = rows, !.parser = i, !.streams = ss]
  BY <1>3 DEF StreamFits, TypedStream, s
<1> HIDE DEF p, c
<1>9. ss \in Seq(Parsers) /\ Len(ss) = Len(s19.streams)
  BY <1>3, <1>7
<1> HIDE DEF ss
<1>10. TypedStream(c)
  <2>1. i \in Nat /\ i <= Len(ss)
    BY <1>3, <1>9
  <2>2. c.parser = i /\ c.streams = ss /\ c.rows = rows
    BY <1>8 DEF StreamFits, TypedStream
  <2> QED
    BY <1>6, <1>8, <1>9, <2>1, <2>2 DEF StreamFits, TypedStream
<1> QED
  BY <1>2, <1>10, DidUpdateFits

LEMMA PlainTableStep ==
  ASSUME StreamFits(s19), Viewers!PlainTable
  PROVE  StreamFits(s19')
<1>1. CASE Viewers!ShowDocument
  <2>1. PICK d \in Docs : s19' = Viewers!DidUpdate([s19 EXCEPT !.doc = d])
    BY <1>1, Zenon DEF Viewers!ShowDocument
  <2>2. TypedStream([s19 EXCEPT !.doc = d])
    BY DEF StreamFits, TypedStream
  <2> QED
    BY <2>1, <2>2, DidUpdateFits
<1>2. CASE Viewers!FetchMoreRows
  <2>1. PICK k : k > s19.requested /\ s19' = Viewers!DidUpdate([s19 EXCEPT !.requested = k])
                 /\ (k = Viewers!RowTotal \/ k = s19.requested + MoreRows)
    BY <1>2 DEF Viewers!FetchMoreRows
  <2>2. k \in Nat
    <3>1. s19.doc \in Docs /\ s19.rows \in Seq(Docs) /\ s19.requested \in Nat /\ MoreRows \in Nat
      BY ViewersAssumption DEF StreamFits, TypedStream
    <3>2. RowCount[s19.doc] \in Nat /\ Len(s19.rows) \in Nat
      BY <3>1, ViewersAssumption
    <3> QED
      BY <2>1, <3>1, <3>2 DEF Viewers!RowTotal
  <2>3. TypedStream([s19 EXCEPT !.requested = k])
    BY <2>2 DEF StreamFits, TypedStream
  <2> QED
    BY <2>1, <2>3, DidUpdateFits
<1> QED
  BY <1>1, <1>2, FetchCsvStep, ProcessCsvStep DEF Viewers!PlainTable

-----------------------------------------------------------------------------
(* The three viewers                                                        *)

LEMMA ViewersFit ==
  Viewers!Inv <=> /\ ExplorerFits(s2, s4, s5, s7, s8, s10)
                  /\ PdfFits(s11, s16, s17, s18)
                  /\ StreamFits(s19)
BY ExplorerFit, PdfFit, StreamFit DEF Viewers!Inv

LEMMA ViewersFitNext ==
  Viewers!Inv' <=> /\ ExplorerFits(s2', s4', s5', s7', s8', s10')
                   /\ PdfFits(s11', s16', s17', s18')
                   /\ StreamFits(s19')
BY ExplorerFitNext, PdfFitNext, StreamFitNext DEF Viewers!Inv

LEMMA ViewersStay == Viewers!Inv /\ UNCHANGED vars => Viewers!Inv'
BY ViewersFit, ViewersFitNext DEF vars

LEMMA ViewersInit == Viewers!Init => Viewers!Inv
<1> SUFFICES ASSUME Viewers!Init
             PROVE  /\ ExplorerFits(s2, s4, s5, s7, s8, s10)
                    /\ PdfFits(s11, s16, s17, s18)
                    /\ StreamFits(s19)
  BY ViewersFit
<1>1. ExplorerFits(s2, s4, s5, s7, s8, s10)
  <2>1. /\ s2 = "loading" /\ s7 = <<>> /\ s8 = <<>> /\ s10 = Viewers!NewWorker
        /\ s5 = [columns |-> <<>>, rows |-> <<>>, total |-> 0]
    BY DEF Viewers!Init, Viewers!NewExplorer
  <2>2. s7 \in Seq(Viewers!ToSet(s7)) /\ s8 \in Seq(Viewers!ToSet(s8))
        /\ DOMAIN s7 = {} /\ DOMAIN s8 = {}
    BY <2>1
  <2>3. Boxes(s4, s7, s8) /\ ~Viewers!Has(s8, "ready") /\ ~Viewers!Has(s8, "results")
    BY <2>2 DEF Boxes, Viewers!Has
  <2>4. WorkerShape(s10) /\ ~s10.db.made /\ TableShape(s5)
    BY <2>1 DEF Viewers!NewWorker, Viewers!NoDb, WorkerShape, TableShape
  <2> QED
    BY <2>1, <2>3, <2>4 DEF ExplorerFits, Columns, Rows
<1>2. PdfFits(s11, s16, s17, s18)
  BY DEF Viewers!Init, PdfFits
<1>3. StreamFits(s19)
  <2>1. Viewers!FirstDoc \in Docs /\ Requested \in Nat
    BY ViewersAssumption DEF Viewers!FirstDoc
  <2>2. s19 = Viewers!NewStream
    BY DEF Viewers!Init
  <2>3. s19.streams = <<>> /\ s19.parser = 0
    BY <2>2 DEF Viewers!NewStream
  <2>4. /\ <<Viewers!FirstDoc>> \in Seq(Docs) /\ <<>> \in Seq(Docs) /\ <<>> \in Seq(Parsers)
        /\ Len(s19.streams) = 0
    BY <2>1, <2>3
  <2> QED
    BY <2>1, <2>2, <2>4 DEF Viewers!NewStream, StreamFits, TypedStream
<1> QED
  BY <1>1, <1>2, <1>3

LEMMA ViewersStep == Viewers!Inv /\ Viewers!Next => Viewers!Inv'
<1> SUFFICES ASSUME ExplorerFits(s2, s4, s5, s7, s8, s10), PdfFits(s11, s16, s17, s18),
                    StreamFits(s19), Viewers!Next
             PROVE  /\ ExplorerFits(s2', s4', s5', s7', s8', s10')
                    /\ PdfFits(s11', s16', s17', s18')
                    /\ StreamFits(s19')
  BY ViewersFit, ViewersFitNext
<1>1. CASE Viewers!Explorer
  <2>1. s11' = s11 /\ s16' = s16 /\ s17' = s17 /\ s18' = s18 /\ s19' = s19
    BY <1>1 DEF Viewers!Explorer, Viewers!pdf
  <2> QED
    BY <1>1, <2>1, ExplorerStep
<1>2. CASE Viewers!Pdf
  <2>1. /\ s2' = s2 /\ s4' = s4 /\ s5' = s5 /\ s7' = s7 /\ s8' = s8 /\ s10' = s10
        /\ s19' = s19
    BY <1>2 DEF Viewers!Pdf, Viewers!explorer
  <2> QED
    BY <1>2, <2>1, PdfStep
<1>3. CASE Viewers!PlainTable
  <2>1. /\ s2' = s2 /\ s4' = s4 /\ s5' = s5 /\ s7' = s7 /\ s8' = s8 /\ s10' = s10
        /\ s11' = s11 /\ s16' = s16 /\ s17' = s17 /\ s18' = s18
    BY <1>3 DEF Viewers!PlainTable, Viewers!explorer, Viewers!pdf
  <2> QED
    BY <1>3, <2>1, PlainTableStep
<1> QED
  BY <1>1, <1>2, <1>3 DEF Viewers!Next, Viewers!Steps

\* When all is quiet, the table is the answer to what is shown.
LEMMA ViewersShow == Viewers!Inv => Viewers!ViewersFollow
<1> SUFFICES ASSUME Viewers!Inv PROVE Viewers!ViewersFollow
  OBVIOUS
<1>1. ExplorerFits(s2, s4, s5, s7, s8, s10) /\ PdfFits(s11, s16, s17, s18)
  BY ViewersFit
<1>2. Viewers!TableAnswersQuery
  <2> SUFFICES ASSUME s7 = <<>>, s8 = <<>>, s2 = "table"
               PROVE  LET a == Viewers!Answer(s10.db, s4) IN
                      s5 = [columns |-> s10.db.columns, rows |-> a.rows, total |-> a.total]
    BY DEF Viewers!TableAnswersQuery, Viewers!Quiet
  <2> DEFINE a == Viewers!Answer(s10.db, s4)
  <2>1. DOMAIN s7 = {} /\ DOMAIN s8 = {}
    OBVIOUS
  <2>2. /\ NoError(s2, s8) /\ ~Viewers!Has(s8, "ready") /\ ~Viewers!Has(s8, "results")
        /\ ~Viewers!Has(s7, "query")
    BY <2>1 DEF NoError, Viewers!Has
  <2> HIDE DEF a
  <2>3. s10.db.made /\ s5.columns = s10.db.columns
    BY <1>1, <2>2 DEF ExplorerFits, Columns, ColumnsFit
  <2>4. s5.rows = a.rows /\ s5.total = a.total
    BY <1>1, <2>2, <2>3 DEF ExplorerFits, Rows, RowsFit, a
  <2>5. TableShape(s5)
    BY <1>1 DEF ExplorerFits
  <2> QED
    BY <2>3, <2>4, <2>5 DEF TableShape, a
<1> QED
  BY <1>1, <1>2, PdfShows DEF Viewers!ViewersFollow, Viewers!Inv

-----------------------------------------------------------------------------
(* The invariants of the pages.  Only the steps of a page itself change its *)
(* state, and no step leaves the page.                                      *)

\* A step on another page, or none.
LEMMA PageStays ==
  [Next]_vars => /\ page' = page
                 /\ \/ UNCHANGED vars
                    \/ InSearch \/ InViewers \/ InUploads \/ InDialogs
                    \/ InDecisions \/ InEntityPage \/ InProperties \/ InSession
BY DEF Next, vars, InSearch, InViewers, InUploads, InDialogs, InDecisions,
       InEntityPage, InProperties, InSession

LEMMA PropertiesInvariant == Spec => [](page = "properties" => Properties!Inv)
<1> DEFINE Inv == page = "properties" => Properties!Inv
<1>1. Init => Inv
  BY PropertiesInit DEF Init
<1>2. Inv /\ [Next]_vars => Inv'
  BY PageStays, PropertiesStay, PropertiesStep
  DEF InSearch, InViewers, InUploads, InDialogs, InDecisions, InEntityPage,
      InProperties, InSession
<1> QED
  BY <1>1, <1>2, PTL DEF Spec

\* Whatever is typed, chosen, created or deleted, in an editor that stayed open
\* when another entity was selected too, an entity keeps what it must have, its
\* values stay valid and an edge keeps one end on each side
\* (PropertyEditor.tsx, validate.ts).
THEOREM PropertiesAlwaysHold == Spec => []PropertiesHold
<1>1. (page = "properties" => Properties!Inv) => PropertiesHold
  BY PropertiesShow DEF PropertiesHold
<1> QED
  BY <1>1, PropertiesInvariant, PTL

LEMMA DialogsInvariant == Spec => [](page = "dialogs" => Dialogs!Inv)
<1> DEFINE Inv == page = "dialogs" => Dialogs!Inv
<1>1. Init => Inv
  BY DialogsInit DEF Init
<1>2. Inv /\ [Next]_vars => Inv'
  BY PageStays, DialogsStay, DialogsStep
  DEF InSearch, InViewers, InUploads, InDialogs, InDecisions, InEntityPage,
      InProperties, InSession
<1> QED
  BY <1>1, <1>2, PTL DEF Spec

LEMMA UploadsInvariant == Spec => [](page = "uploads" => Uploads!Inv)
<1> DEFINE Inv == page = "uploads" => Uploads!Inv
<1>1. Init => Inv
  BY UploadsInit DEF Init
<1>2. Inv /\ [Next]_vars => Inv'
  BY PageStays, UploadsStay, UploadsStep
  DEF InSearch, InViewers, InUploads, InDialogs, InDecisions, InEntityPage,
      InProperties, InSession
<1> QED
  BY <1>1, <1>2, PTL DEF Spec

\* Whatever files are chosen, in whatever order the answers come, with retries
\* and cancellation, no more requests are in flight than the limit allows and
\* none is left waiting, folders come before their content, and a file that did
\* not arrive is listed with its error or a folder's; and a dialog is blocked
\* while it waits for its answer, and not longer (DocumentUploadDialog.jsx,
\* dialogs/).
THEOREM FormsAlwaysSettle == Spec => []FormsSettle
<1>1. /\ page = "uploads" => Uploads!Inv
      /\ page = "dialogs" => Dialogs!Inv
      => FormsSettle
  BY UploadsShow, DialogsShow DEF FormsSettle
<1> QED
  BY <1>1, UploadsInvariant, DialogsInvariant, PTL

\* No step deletes another document after one could not be deleted, and none
\* deletes a collection whose present name is not in the field
\* (EntityDeleteDialog.jsx, DeleteDialog.tsx).
THEOREM DeletionsAlwaysHold == Spec => DeletionsHold
<1> DEFINE Held == /\ page = "uploads" => Uploads!StopsAtError
                   /\ page = "dialogs" => Dialogs!Confirms
<1>1. (page = "dialogs" => Dialogs!Inv) /\ [Next]_vars => [Held]_vars
  BY PageStays, UploadsStop, DialogsConfirm
  DEF InSearch, InViewers, InUploads, InDialogs, InDecisions, InEntityPage,
      InProperties, InSession
<1> QED
  BY <1>1, DialogsInvariant, PTL DEF Spec, DeletionsHold

LEMMA SessionInvariant == Spec => [](page = "session" => Session!Inv)
<1> DEFINE Inv == page = "session" => Session!Inv
<1>1. Init => Inv
  BY SessionInit DEF Init
<1>2. Inv /\ [Next]_vars => Inv'
  BY PageStays, SessionStay, SessionStep
  DEF InSearch, InViewers, InUploads, InDialogs, InDecisions, InEntityPage,
      InProperties, InSession
<1> QED
  BY <1>1, <1>2, PTL DEF Spec

\* Whatever is answered, refused or lost with the page, and in whatever order:
\* somebody is signed in exactly if there is a token, a session that the server
\* has refused is being ended, what is marked as being loaded has been asked
\* for, only complete forms are sent, for their own user, and the page of the
\* tasks goes on being loaded (App.jsx, session.js, SettingsScreen.jsx,
\* SystemStatusScreen.jsx).
THEOREM SessionAlwaysHolds == Spec => []SessionHolds
<1>1. (page = "session" => Session!Inv) => SessionHolds
  BY SessionShow DEF SessionHolds
<1> QED
  BY <1>1, SessionInvariant, PTL

LEMMA EntityInvariant == Spec => [](page = "entity" => EntityPage!Inv)
<1> DEFINE Inv == page = "entity" => EntityPage!Inv
<1>1. Init => Inv
  BY EntityInit DEF Init
<1>2. Inv /\ [Next]_vars => Inv'
  BY PageStays, EntityStay, EntityStep
  DEF InSearch, InViewers, InUploads, InDialogs, InDecisions, InEntityPage,
      InProperties, InSession
<1> QED
  BY <1>1, <1>2, PTL DEF Spec

LEMMA DecisionsInvariant == Spec => [](page = "decisions" => Decisions!Inv)
<1> DEFINE Inv == page = "decisions" => Decisions!Inv
<1>1. Init => Inv
  BY DecisionsInit DEF Init
<1>2. Inv /\ [Next]_vars => Inv'
  BY PageStays, DecisionsStay, DecisionsStep
  DEF InSearch, InViewers, InUploads, InDialogs, InDecisions, InEntityPage,
      InProperties, InSession
<1> QED
  BY <1>1, <1>2, PTL DEF Spec

\* A click or a key is a decision that is drawn at once and sent later: when the
\* last request for a match has been answered, what is drawn is what was decided,
\* unless a request failed or was overtaken; a profile that is gone redirects no
\* more than twice; and on the page of an entity no tab is drawn that is neither
\* loaded nor going to be, a term in the address stands beside a preview, and
\* what a tag waits for is on its way (EntityDecisionHotkeys.jsx,
\* EntityScreen.jsx, EntityViews.jsx, EntityTags.tsx).
THEOREM EntityScreensAlwaysHold == Spec => []EntityScreensHold
<1>1. /\ page = "entity" => EntityPage!Inv
      /\ page = "decisions" => Decisions!Inv
      => EntityScreensHold
  BY EntityShow, DecisionsShow DEF EntityScreensHold
<1> QED
  BY <1>1, EntityInvariant, DecisionsInvariant, PTL

LEMMA SearchInvariant == Spec => [](page = "search" => Search!Inv)
<1> DEFINE Inv == page = "search" => Search!Inv
<1>1. Init => Inv
  BY SearchInit DEF Init
<1>2. Inv /\ [Next]_vars => Inv'
  BY PageStays, SearchStay, SearchStep
  DEF InSearch, InViewers, InUploads, InDialogs, InDecisions, InEntityPage,
      InProperties, InSession
<1> QED
  BY <1>1, <1>2, PTL DEF Spec

\* Whatever is typed, ticked, clicked in the histogram or taken back, in
\* whatever order, a range of dates in the address has both its ends or neither,
\* and they are rounded alike and in order (QueryTags.jsx, DateFacet.jsx).
THEOREM SearchAlwaysHolds == Spec => []SearchHolds
<1>1. (page = "search" => Search!Inv) => SearchHolds
  BY SearchShow DEF SearchHolds
<1> QED
  BY <1>1, SearchInvariant, PTL

LEMMA ViewersInvariant == Spec => [](page = "viewers" => Viewers!Inv)
<1> DEFINE Inv == page = "viewers" => Viewers!Inv
<1>1. Init => Inv
  BY ViewersInit DEF Init
<1>2. Inv /\ [Next]_vars => Inv'
  BY PageStays, ViewersStay, ViewersStep
  DEF InSearch, InViewers, InUploads, InDialogs, InDecisions, InEntityPage,
      InProperties, InSession
<1> QED
  BY <1>1, <1>2, PTL DEF Spec

\* However often the query and the settings change while the worker still reads
\* the file, the table that is left when all is quiet is the answer to the query
\* that is shown; the PDF on the screen is that of the document in the address,
\* turned as it says; and a parser that was paused has read the rows that are
\* wanted (CSVExplorer.jsx, sqlWorker.js, PdfViewer.jsx, csvContextLoader.jsx).
THEOREM ViewersAlwaysHold == Spec => []ViewersHold
<1>1. (page = "viewers" => Viewers!Inv) => ViewersHold
  BY ViewersShow DEF ViewersHold
<1> QED
  BY <1>1, ViewersInvariant, PTL
=============================================================================
