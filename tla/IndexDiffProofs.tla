--------------------------- MODULE IndexDiffProofs ---------------------------
(***************************************************************************)
(* IndexDiff for every set of ids and every batch size: type correctness,  *)
(* that the comparison is exact when one store holds all the other does,   *)
(* and that it loses at most one id of each kind otherwise.                *)
(***************************************************************************)
EXTENDS IndexDiff, TLAPS, FiniteSetTheorems

\* An upcoming id is in its stream, or None if the stream has ended.
LEMMA UpcomingType ==
  ASSUME NEW stream, NEW x \in Upcoming(stream)
  PROVE  \/ stream = {} /\ x = None
         \/ stream # {} /\ x \in stream /\ \A y \in stream : x <= y
BY DEF Upcoming

\* The end of a stream is no id.
LEMMA NoneNotId == None \notin Ids
BY IdsOrdered

\* A reported missing id is in the batch or has gone to the indexer.
LEMMA YieldMissingEffect ==
  ASSUME NEW id, YieldMissing(id)
  PROVE  /\ missing' = missing \cup {id}
         /\ indexed' \cup batch' = indexed \cup batch \cup {id}
         /\ indexed \subseteq indexed'
         /\ batch' \subseteq batch \cup {id}
         /\ UNCHANGED <<orphaned, both>>
BY DEF YieldMissing

\* While one stream catches up, the id it is at comes from its store.
PendingFromStores ==
  /\ pc \in {"aggregator_behind", "index_behind"} =>
       aggregator_id \in aggregator /\ index_id \in index

DiffTypeInv == TypeOK /\ PendingFromStores

\* Every step keeps the types, and where the compared ids come from.
LEMMA DiffTypeInvariant == Spec => []DiffTypeInv
<1>1. Init => DiffTypeInv
  BY DEF Init, DiffTypeInv, TypeOK, PendingFromStores
<1>2. DiffTypeInv /\ [Next]_vars => DiffTypeInv'
  <2> SUFFICES ASSUME DiffTypeInv, [Next]_vars
               PROVE  DiffTypeInv'
    OBVIOUS
  <2> USE DEF DiffTypeInv, TypeOK, PendingFromStores
  <2>1. ASSUME NEW x \in Ids, AggregatorEnded(x)
        PROVE  DiffTypeInv'
    BY <2>1, UpcomingType DEF AggregatorEnded, Pull, Compare, YieldOrphaned,
                              stores
  <2>2. ASSUME NEW x \in Ids, IndexEnded(x)
        PROVE  DiffTypeInv'
    BY <2>2, UpcomingType, YieldMissingEffect
    DEF IndexEnded, Pull, Compare, stores
  <2>3. ASSUME NEW x \in Ids, SameId(x)
        PROVE  DiffTypeInv'
    BY <2>3, UpcomingType DEF SameId, Pull, Compare, YieldBoth, stores
  <2>4. ASSUME NEW x \in Ids, NEW y \in Ids, DifferentIds(x, y)
        PROVE  DiffTypeInv'
    BY <2>4, UpcomingType DEF DifferentIds, Pull, Compare, YieldNothing, stores
  <2>5. ASSUME NEW x \in Ids \cup {None}, CatchUpAggregator(x)
        PROVE  DiffTypeInv'
    BY <2>5, UpcomingType, YieldMissingEffect
    DEF CatchUpAggregator, Compare, stores
  <2>6. ASSUME NEW x \in Ids \cup {None}, CatchUpIndex(x)
        PROVE  DiffTypeInv'
    BY <2>6, UpcomingType DEF CatchUpIndex, Compare, YieldOrphaned, stores
  <2>7. ASSUME NEW x \in Ids, RestOfAggregator(x)
        PROVE  DiffTypeInv'
    BY <2>7, UpcomingType, YieldMissingEffect DEF RestOfAggregator, stores
  <2>8. ASSUME NEW x \in Ids, RestOfIndex(x)
        PROVE  DiffTypeInv'
    BY <2>8, UpcomingType DEF RestOfIndex, YieldOrphaned, stores
  <2>9. CASE Finish
    BY <2>9 DEF Finish, stores
  <2>10. CASE UNCHANGED vars
    BY <2>10 DEF vars
  <2> HIDE DEF DiffTypeInv
  <2> QED
    BY <2>1, <2>2, <2>3, <2>4, <2>5, <2>6, <2>7, <2>8, <2>9, <2>10 DEF Next
<1> QED
  BY <1>1, <1>2, PTL DEF Spec

(***************************************************************************)
(* Every variable keeps its type; in particular what is reported missing   *)
(* is in the aggregator, an orphan in the index, and a common id in both   *)
(* (index_diff).                                                           *)
(***************************************************************************)
THEOREM DiffTypeCorrect == Spec => []TypeOK
<1>1. DiffTypeInv => TypeOK
  BY DEF DiffTypeInv
<1> QED
  BY <1>1, DiffTypeInvariant, PTL

-----------------------------------------------------------------------------
(* When the index is part of the aggregator, the aggregator's stream never *)
(* runs out first and never gets ahead: what it has still to deliver holds *)
(* exactly the index ids still to come.                                    *)

Pending == IF pc = "aggregator_behind" THEN index_ids \cup {index_id}
           ELSE index_ids

Aligned ==
  /\ pc \in {"pull", "aggregator_behind", "aggregator_rest", "done"}
  /\ index \cap aggregator_ids = Pending
  /\ Pending \subseteq aggregator_ids
  /\ pc = "aggregator_behind" =>
       /\ aggregator_id < index_id
       /\ aggregator_id \in aggregator \ (aggregator_ids \cup index)
       /\ \A y \in index_ids : index_id < y
  /\ pc # "aggregator_behind" => aggregator_id = None
  /\ pc = "aggregator_rest" => index_ids = {}
  /\ pc = "done" => aggregator_ids = {}

ReportedSoFar ==
  /\ orphaned = {}
  /\ missing = (aggregator \ (aggregator_ids \cup {aggregator_id})) \ index
  /\ indexed \cup batch = index \cup missing
  /\ pc = "done" => batch = {}

DiffInv == index \subseteq aggregator => Aligned /\ ReportedSoFar

(***************************************************************************)
(* A diff-only reindex is complete when the index is part of the           *)
(* aggregator.                                                             *)
(***************************************************************************)
THEOREM DiffReindexIsComplete == Spec => []DiffReindexComplete
<1>1. Init => DiffInv
  BY NoneNotId DEF Init, DiffInv, Aligned, Pending, ReportedSoFar
<1>2. TypeOK /\ TypeOK' /\ DiffInv /\ [Next]_vars => DiffInv'
  <2> SUFFICES ASSUME TypeOK, TypeOK', DiffInv, [Next]_vars,
                      index' \subseteq aggregator'
               PROVE  Aligned' /\ ReportedSoFar'
    BY DEF DiffInv
  <2>0. UNCHANGED stores
    BY DEF Next, AggregatorEnded, IndexEnded, SameId, DifferentIds, Pull,
           RestOfAggregator, RestOfIndex, CatchUpAggregator, CatchUpIndex,
           Finish, vars, stores
  <2>a. Aligned /\ ReportedSoFar /\ index \subseteq aggregator
    BY <2>0 DEF DiffInv, stores
  <2> USE IdsOrdered, NoneNotId DEF TypeOK, stores
  <2>1. ASSUME NEW x \in Ids, AggregatorEnded(x)
        PROVE  FALSE
    BY <2>1, <2>a, UpcomingType DEF AggregatorEnded, Pull, Aligned, Pending
  <2>2. ASSUME NEW x \in Ids, IndexEnded(x)
        PROVE  Aligned' /\ ReportedSoFar'
    <3>1. /\ pc = "pull" /\ index_ids = {} /\ x \in aggregator_ids
          /\ aggregator_ids' = aggregator_ids \ {x} /\ index_ids' = {}
          /\ pc' = "aggregator_rest" /\ aggregator_id' = None
      BY <2>2, UpcomingType DEF IndexEnded, Pull, Compare
    <3>2. x \notin index
      BY <2>a, <3>1 DEF Aligned, Pending
    <3>3. Aligned'
      BY <2>0, <2>a, <3>1 DEF Aligned, Pending
    <3>4. ReportedSoFar'
      BY <2>0, <2>2, <2>a, <3>1, <3>2, YieldMissingEffect
      DEF Aligned, ReportedSoFar, IndexEnded
    <3> QED
      BY <3>3, <3>4
  <2>3. ASSUME NEW x \in Ids, SameId(x)
        PROVE  Aligned' /\ ReportedSoFar'
    BY <2>0, <2>3, <2>a, UpcomingType
    DEF SameId, Pull, Compare, YieldBoth, Aligned, Pending, ReportedSoFar
  <2>4. ASSUME NEW x \in Ids, NEW y \in Ids, DifferentIds(x, y)
        PROVE  Aligned' /\ ReportedSoFar'
    <3>1. /\ pc = "pull" /\ x \in aggregator_ids /\ y \in index_ids /\ x # y
          /\ aggregator_ids' = aggregator_ids \ {x}
          /\ index_ids' = index_ids \ {y}
          /\ \A z \in aggregator_ids : x <= z
          /\ \A z \in index_ids : y <= z
          /\ aggregator_id' = x /\ index_id' = y
      BY <2>4, UpcomingType DEF DifferentIds, Pull, Compare
    <3>2. y \in aggregator_ids /\ x < y
      BY <2>a, <3>1 DEF Aligned, Pending
    <3>3. pc' = "aggregator_behind"
      BY <2>4, <3>2 DEF DifferentIds, Compare
    <3>4. x \notin index_ids /\ \A z \in index_ids' : y < z
      BY <3>1, <3>2
    <3>5. Aligned'
      BY <2>0, <2>a, <3>1, <3>2, <3>3, <3>4 DEF Aligned, Pending
    <3>6. ReportedSoFar'
      BY <2>0, <2>4, <2>a, <3>1, <3>3
      DEF DifferentIds, YieldNothing, Aligned, ReportedSoFar
    <3> QED
      BY <3>5, <3>6
  <2>5. ASSUME NEW x \in Ids \cup {None}, CatchUpAggregator(x)
        PROVE  Aligned' /\ ReportedSoFar'
    <3>1. /\ pc = "aggregator_behind" /\ index_ids' = index_ids
          /\ aggregator_ids' = aggregator_ids \ {x}
          /\ index_id \in aggregator_ids
      BY <2>5, <2>a DEF CatchUpAggregator, Aligned, Pending
    <3>2. x \in aggregator_ids /\ x <= index_id /\ x \in Ids
      BY <2>5, <3>1, UpcomingType DEF CatchUpAggregator
    <3>3. CASE x = index_id
      <4>1. pc' = "pull" /\ aggregator_id' = None
        BY <2>5, <3>3 DEF CatchUpAggregator, Compare
      <4>2. Aligned'
        BY <2>0, <2>a, <3>1, <3>2, <3>3, <4>1 DEF Aligned, Pending
      <4>3. ReportedSoFar'
        BY <2>0, <2>5, <2>a, <3>1, <3>3, <4>1, YieldMissingEffect
        DEF CatchUpAggregator, Aligned, Pending, ReportedSoFar
      <4> QED
        BY <4>2, <4>3
    <3>4. CASE x # index_id
      <4>1. /\ pc' = "aggregator_behind" /\ aggregator_id' = x
            /\ index_id' = index_id
        BY <2>5, <3>1, <3>2, <3>4 DEF CatchUpAggregator, Compare
      <4>2. x < index_id /\ x \notin index
        BY <2>a, <3>1, <3>2, <3>4 DEF Aligned, Pending
      <4>3. Aligned'
        BY <2>0, <2>a, <3>1, <3>2, <3>4, <4>1, <4>2 DEF Aligned, Pending
      <4>4. ReportedSoFar'
        BY <2>0, <2>5, <2>a, <3>1, <3>2, <4>1, YieldMissingEffect
        DEF CatchUpAggregator, Aligned, Pending, ReportedSoFar
      <4> QED
        BY <4>3, <4>4
    <3> QED
      BY <3>3, <3>4
  <2>6. ASSUME NEW x \in Ids \cup {None}, CatchUpIndex(x)
        PROVE  FALSE
    BY <2>6, <2>a DEF CatchUpIndex, Aligned
  <2>7. ASSUME NEW x \in Ids, RestOfAggregator(x)
        PROVE  Aligned' /\ ReportedSoFar'
    <3>1. /\ pc = "aggregator_rest" /\ pc' = pc /\ index_ids = {}
          /\ index_ids' = {} /\ x \in aggregator_ids
          /\ aggregator_ids' = aggregator_ids \ {x}
          /\ aggregator_id = None /\ aggregator_id' = None
      BY <2>7, <2>a, UpcomingType DEF RestOfAggregator, Aligned
    <3>2. x \notin index
      BY <2>a, <3>1 DEF Aligned, Pending
    <3>3. Aligned'
      BY <2>0, <2>a, <3>1 DEF Aligned, Pending
    <3>4. ReportedSoFar'
      BY <2>0, <2>7, <2>a, <3>1, <3>2, YieldMissingEffect
      DEF RestOfAggregator, ReportedSoFar
    <3> QED
      BY <3>3, <3>4
  <2>8. ASSUME NEW x \in Ids, RestOfIndex(x)
        PROVE  FALSE
    BY <2>8, <2>a DEF RestOfIndex, Aligned
  <2>9. CASE Finish
    BY <2>0, <2>9, <2>a DEF Finish, Aligned, Pending, ReportedSoFar
  <2>10. CASE UNCHANGED vars
    BY <2>10, <2>a DEF vars, Aligned, Pending, ReportedSoFar
  <2> QED
    BY <2>1, <2>2, <2>3, <2>4, <2>5, <2>6, <2>7, <2>8, <2>9, <2>10 DEF Next
<1>3. TypeOK /\ DiffInv => DiffReindexComplete
  BY NoneNotId DEF TypeOK, DiffInv, Aligned, Pending, ReportedSoFar,
                   DiffReindexComplete
<1> QED
  BY <1>1, <1>2, <1>3, DiffTypeCorrect, PTL DEF Spec

-----------------------------------------------------------------------------
(* The same with the stores exchanged: when the aggregator is part of the  *)
(* index, the index's stream never runs out first and never gets ahead.    *)

Awaited == IF pc = "index_behind" THEN aggregator_ids \cup {aggregator_id}
           ELSE aggregator_ids

AlignedBack ==
  /\ pc \in {"pull", "index_behind", "index_rest", "done"}
  /\ aggregator \cap index_ids = Awaited
  /\ Awaited \subseteq index_ids
  /\ pc = "index_behind" =>
       /\ index_id < aggregator_id
       /\ index_id \in index \ (index_ids \cup aggregator)
       /\ \A y \in aggregator_ids : aggregator_id < y
  /\ pc # "index_behind" => index_id = None
  /\ pc = "index_rest" => aggregator_ids = {}
  /\ pc = "done" => index_ids = {}

OrphansSoFar ==
  /\ missing = {} /\ batch = {} /\ indexed = index
  /\ orphaned = (index \ (index_ids \cup {index_id})) \ aggregator

OrphansInv == aggregator \subseteq index => AlignedBack /\ OrphansSoFar

(***************************************************************************)
(* The orphans are exact, and nothing is written, when the aggregator is   *)
(* part of the index (index_diff).                                         *)
(***************************************************************************)
THEOREM OrphansAlwaysExact == Spec => []OrphansExact
<1>1. Init => OrphansInv
  BY NoneNotId DEF Init, OrphansInv, AlignedBack, Awaited, OrphansSoFar
<1>2. TypeOK /\ TypeOK' /\ OrphansInv /\ [Next]_vars => OrphansInv'
  <2> SUFFICES ASSUME TypeOK, TypeOK', OrphansInv, [Next]_vars,
                      aggregator' \subseteq index'
               PROVE  AlignedBack' /\ OrphansSoFar'
    BY DEF OrphansInv
  <2>0. UNCHANGED stores
    BY DEF Next, AggregatorEnded, IndexEnded, SameId, DifferentIds, Pull,
           RestOfAggregator, RestOfIndex, CatchUpAggregator, CatchUpIndex,
           Finish, vars, stores
  <2>a. AlignedBack /\ OrphansSoFar /\ aggregator \subseteq index
    BY <2>0 DEF OrphansInv, stores
  <2> USE IdsOrdered, NoneNotId DEF TypeOK, stores
  <2>1. ASSUME NEW x \in Ids, IndexEnded(x)
        PROVE  FALSE
    BY <2>1, <2>a, UpcomingType DEF IndexEnded, Pull, AlignedBack, Awaited
  <2>2. ASSUME NEW x \in Ids, AggregatorEnded(x)
        PROVE  AlignedBack' /\ OrphansSoFar'
    <3>1. /\ pc = "pull" /\ aggregator_ids = {} /\ x \in index_ids
          /\ index_ids' = index_ids \ {x} /\ aggregator_ids' = {}
          /\ pc' = "index_rest" /\ index_id' = None /\ index_id = None
      BY <2>2, <2>a, UpcomingType
      DEF AggregatorEnded, Pull, Compare, AlignedBack
    <3>2. x \notin aggregator
      BY <2>a, <3>1 DEF AlignedBack, Awaited
    <3>3. AlignedBack'
      BY <2>0, <2>a, <3>1 DEF AlignedBack, Awaited
    <3>4. OrphansSoFar'
      BY <2>0, <2>2, <2>a, <3>1, <3>2
      DEF OrphansSoFar, AggregatorEnded, YieldOrphaned
    <3> QED
      BY <3>3, <3>4
  <2>3. ASSUME NEW x \in Ids, SameId(x)
        PROVE  AlignedBack' /\ OrphansSoFar'
    BY <2>0, <2>3, <2>a, UpcomingType
    DEF SameId, Pull, Compare, YieldBoth, AlignedBack, Awaited, OrphansSoFar
  <2>4. ASSUME NEW x \in Ids, NEW y \in Ids, DifferentIds(x, y)
        PROVE  AlignedBack' /\ OrphansSoFar'
    <3>1. /\ pc = "pull" /\ x \in aggregator_ids /\ y \in index_ids /\ x # y
          /\ aggregator_ids' = aggregator_ids \ {x}
          /\ index_ids' = index_ids \ {y}
          /\ \A z \in aggregator_ids : x <= z
          /\ \A z \in index_ids : y <= z
          /\ aggregator_id' = x /\ index_id' = y
      BY <2>4, UpcomingType DEF DifferentIds, Pull, Compare
    <3>2. x \in index_ids /\ y < x
      BY <2>a, <3>1 DEF AlignedBack, Awaited
    <3>3. pc' = "index_behind"
      BY <2>4, <3>2 DEF DifferentIds, Compare
    <3>4. y \notin aggregator_ids /\ \A z \in aggregator_ids' : x < z
      BY <3>1, <3>2
    <3>5. AlignedBack'
      BY <2>0, <2>a, <3>1, <3>2, <3>3, <3>4 DEF AlignedBack, Awaited
    <3>6. OrphansSoFar'
      BY <2>0, <2>4, <2>a, <3>1, <3>3
      DEF DifferentIds, YieldNothing, AlignedBack, OrphansSoFar
    <3> QED
      BY <3>5, <3>6
  <2>5. ASSUME NEW x \in Ids \cup {None}, CatchUpIndex(x)
        PROVE  AlignedBack' /\ OrphansSoFar'
    <3>1. /\ pc = "index_behind" /\ aggregator_ids' = aggregator_ids
          /\ index_ids' = index_ids \ {x}
          /\ aggregator_id \in index_ids
          /\ orphaned' = orphaned \cup {index_id}
          /\ UNCHANGED <<missing, both, batch, indexed>>
      BY <2>5, <2>a DEF CatchUpIndex, YieldOrphaned, AlignedBack, Awaited
    <3>2. x \in index_ids /\ x <= aggregator_id /\ x \in Ids
      BY <2>5, <3>1, UpcomingType DEF CatchUpIndex
    <3>3. CASE x = aggregator_id
      <4>1. pc' = "pull" /\ index_id' = None
        BY <2>5, <3>3 DEF CatchUpIndex, Compare
      <4>2. AlignedBack'
        BY <2>0, <2>a, <3>1, <3>2, <3>3, <4>1 DEF AlignedBack, Awaited
      <4>3. OrphansSoFar'
        BY <2>0, <2>a, <3>1, <3>3, <4>1
        DEF AlignedBack, Awaited, OrphansSoFar
      <4> QED
        BY <4>2, <4>3
    <3>4. CASE x # aggregator_id
      <4>1. /\ pc' = "index_behind" /\ index_id' = x
            /\ aggregator_id' = aggregator_id
        BY <2>5, <3>1, <3>2, <3>4 DEF CatchUpIndex, Compare
      <4>2. x < aggregator_id /\ x \notin aggregator
        BY <2>a, <3>1, <3>2, <3>4 DEF AlignedBack, Awaited
      <4>3. AlignedBack'
        BY <2>0, <2>a, <3>1, <3>2, <3>4, <4>1, <4>2 DEF AlignedBack, Awaited
      <4>4. OrphansSoFar'
        BY <2>0, <2>a, <3>1, <3>2, <4>1
        DEF AlignedBack, Awaited, OrphansSoFar
      <4> QED
        BY <4>3, <4>4
    <3> QED
      BY <3>3, <3>4
  <2>6. ASSUME NEW x \in Ids \cup {None}, CatchUpAggregator(x)
        PROVE  FALSE
    BY <2>6, <2>a DEF CatchUpAggregator, AlignedBack
  <2>7. ASSUME NEW x \in Ids, RestOfIndex(x)
        PROVE  AlignedBack' /\ OrphansSoFar'
    <3>1. /\ pc = "index_rest" /\ pc' = pc /\ aggregator_ids = {}
          /\ aggregator_ids' = {} /\ x \in index_ids
          /\ index_ids' = index_ids \ {x}
          /\ index_id = None /\ index_id' = None
      BY <2>7, <2>a, UpcomingType DEF RestOfIndex, AlignedBack
    <3>2. x \notin aggregator
      BY <2>a, <3>1 DEF AlignedBack, Awaited
    <3>3. AlignedBack'
      BY <2>0, <2>a, <3>1 DEF AlignedBack, Awaited
    <3>4. OrphansSoFar'
      BY <2>0, <2>7, <2>a, <3>1, <3>2
      DEF RestOfIndex, YieldOrphaned, OrphansSoFar
    <3> QED
      BY <3>3, <3>4
  <2>8. ASSUME NEW x \in Ids, RestOfAggregator(x)
        PROVE  FALSE
    BY <2>8, <2>a DEF RestOfAggregator, AlignedBack
  <2>9. CASE Finish
    BY <2>0, <2>9, <2>a DEF Finish, AlignedBack, Awaited, OrphansSoFar
  <2>10. CASE UNCHANGED vars
    BY <2>10, <2>a DEF vars, AlignedBack, Awaited, OrphansSoFar
  <2> QED
    BY <2>1, <2>2, <2>3, <2>4, <2>5, <2>6, <2>7, <2>8, <2>9, <2>10 DEF Next
<1>3. TypeOK /\ OrphansInv => OrphansExact
  BY NoneNotId DEF TypeOK, OrphansInv, AlignedBack, Awaited, OrphansSoFar,
                   OrphansExact
<1> QED
  BY <1>1, <1>2, <1>3, DiffTypeCorrect, PTL DEF Spec

-----------------------------------------------------------------------------
(* For any two stores: an id that its stream has delivered and that is not *)
(* under comparison any more was reported, but for one.  That one was      *)
(* dropped when the other stream ran out, so nothing is dropped after it.  *)

Behind == pc \in {"aggregator_behind", "index_behind"}

UnreportedMissing ==
  ((aggregator \ index) \ missing)
    \ (aggregator_ids \cup IF Behind THEN {aggregator_id} ELSE {})

UnreportedOrphans ==
  ((index \ aggregator) \ orphaned)
    \ (index_ids \cup IF Behind THEN {index_id} ELSE {})

MissingInv ==
  /\ \E z : UnreportedMissing \subseteq {z}
  /\ UnreportedMissing # {} =>
       index_ids = {} /\ pc \in {"pull", "aggregator_rest", "done"}
  /\ pc \in {"index_rest", "done"} => aggregator_ids = {}

OrphanInv ==
  /\ \E z : UnreportedOrphans \subseteq {z}
  /\ UnreportedOrphans # {} =>
       aggregator_ids = {} /\ pc \in {"pull", "index_rest", "done"}
  /\ pc \in {"aggregator_rest", "done"} => index_ids = {}

\* A part of a singleton has at most one element.
LEMMA AtMostOne ==
  ASSUME NEW S, NEW z, S \subseteq {z}
  PROVE  Cardinality(S) <= 1
<1>1. IsFiniteSet({z}) /\ Cardinality({z}) = 1
  BY FS_Singleton
<1> QED
  BY <1>1, FS_Subset, FS_CardinalityType

\* The aggregator's side.
LEMMA MissingStep ==
  ASSUME TypeOK, TypeOK', PendingFromStores, MissingInv, OrphanInv, [Next]_vars
  PROVE  MissingInv'
<1>0. UNCHANGED stores
  BY DEF Next, AggregatorEnded, IndexEnded, SameId, DifferentIds, Pull,
         RestOfAggregator, RestOfIndex, CatchUpAggregator, CatchUpIndex,
         Finish, vars, stores
<1> USE IdsOrdered, NoneNotId DEF TypeOK, stores
<1>1. ASSUME NEW x \in Ids, AggregatorEnded(x)
      PROVE  MissingInv'
  BY <1>0, <1>1, UpcomingType
  DEF AggregatorEnded, Pull, Compare, YieldOrphaned, MissingInv,
      UnreportedMissing, Behind
<1>2. ASSUME NEW x \in Ids, IndexEnded(x)
      PROVE  MissingInv'
  BY <1>0, <1>2, UpcomingType, YieldMissingEffect
  DEF IndexEnded, Pull, Compare, MissingInv, UnreportedMissing, Behind
<1>3. ASSUME NEW x \in Ids, SameId(x)
      PROVE  MissingInv'
  BY <1>0, <1>3, UpcomingType
  DEF SameId, Pull, Compare, YieldBoth, MissingInv, UnreportedMissing, Behind
<1>4. ASSUME NEW x \in Ids, NEW y \in Ids, DifferentIds(x, y)
      PROVE  MissingInv'
  BY <1>0, <1>4, UpcomingType
  DEF DifferentIds, Pull, Compare, YieldNothing, MissingInv,
      UnreportedMissing, Behind
<1>5. ASSUME NEW x \in Ids \cup {None}, CatchUpAggregator(x)
      PROVE  MissingInv'
  BY <1>0, <1>5, UpcomingType, YieldMissingEffect
  DEF CatchUpAggregator, Compare, MissingInv, UnreportedMissing, Behind,
      PendingFromStores
<1>6. ASSUME NEW x \in Ids \cup {None}, CatchUpIndex(x)
      PROVE  MissingInv'
  BY <1>0, <1>6, UpcomingType
  DEF CatchUpIndex, YieldOrphaned, Compare, MissingInv, UnreportedMissing,
      Behind, PendingFromStores
<1>7. ASSUME NEW x \in Ids, RestOfAggregator(x)
      PROVE  MissingInv'
  BY <1>0, <1>7, UpcomingType, YieldMissingEffect
  DEF RestOfAggregator, MissingInv, UnreportedMissing, Behind
<1>8. ASSUME NEW x \in Ids, RestOfIndex(x)
      PROVE  MissingInv'
  BY <1>0, <1>8, UpcomingType
  DEF RestOfIndex, YieldOrphaned, MissingInv, UnreportedMissing, Behind
<1>9. CASE Finish
  BY <1>0, <1>9 DEF Finish, MissingInv, OrphanInv, UnreportedMissing, Behind
<1>10. CASE UNCHANGED vars
  BY <1>10 DEF vars, MissingInv, UnreportedMissing, Behind
<1> QED
  BY <1>1, <1>2, <1>3, <1>4, <1>5, <1>6, <1>7, <1>8, <1>9, <1>10 DEF Next

\* The index's side.
LEMMA OrphanStep ==
  ASSUME TypeOK, TypeOK', PendingFromStores, MissingInv, OrphanInv, [Next]_vars
  PROVE  OrphanInv'
<1>0. UNCHANGED stores
  BY DEF Next, AggregatorEnded, IndexEnded, SameId, DifferentIds, Pull,
         RestOfAggregator, RestOfIndex, CatchUpAggregator, CatchUpIndex,
         Finish, vars, stores
<1> USE IdsOrdered, NoneNotId DEF TypeOK, stores
<1>1. ASSUME NEW x \in Ids, AggregatorEnded(x)
      PROVE  OrphanInv'
  BY <1>0, <1>1, UpcomingType
  DEF AggregatorEnded, Pull, Compare, YieldOrphaned, OrphanInv,
      UnreportedOrphans, Behind
<1>2. ASSUME NEW x \in Ids, IndexEnded(x)
      PROVE  OrphanInv'
  BY <1>0, <1>2, UpcomingType, YieldMissingEffect
  DEF IndexEnded, Pull, Compare, OrphanInv, UnreportedOrphans, Behind
<1>3. ASSUME NEW x \in Ids, SameId(x)
      PROVE  OrphanInv'
  BY <1>0, <1>3, UpcomingType
  DEF SameId, Pull, Compare, YieldBoth, OrphanInv, UnreportedOrphans, Behind
<1>4. ASSUME NEW x \in Ids, NEW y \in Ids, DifferentIds(x, y)
      PROVE  OrphanInv'
  BY <1>0, <1>4, UpcomingType
  DEF DifferentIds, Pull, Compare, YieldNothing, OrphanInv,
      UnreportedOrphans, Behind
<1>5. ASSUME NEW x \in Ids \cup {None}, CatchUpAggregator(x)
      PROVE  OrphanInv'
  BY <1>0, <1>5, UpcomingType, YieldMissingEffect
  DEF CatchUpAggregator, Compare, OrphanInv, UnreportedOrphans, Behind,
      PendingFromStores
<1>6. ASSUME NEW x \in Ids \cup {None}, CatchUpIndex(x)
      PROVE  OrphanInv'
  BY <1>0, <1>6, UpcomingType
  DEF CatchUpIndex, YieldOrphaned, Compare, OrphanInv, UnreportedOrphans,
      Behind, PendingFromStores
<1>7. ASSUME NEW x \in Ids, RestOfAggregator(x)
      PROVE  OrphanInv'
  BY <1>0, <1>7, UpcomingType, YieldMissingEffect
  DEF RestOfAggregator, OrphanInv, UnreportedOrphans, Behind
<1>8. ASSUME NEW x \in Ids, RestOfIndex(x)
      PROVE  OrphanInv'
  BY <1>0, <1>8, UpcomingType
  DEF RestOfIndex, YieldOrphaned, OrphanInv, UnreportedOrphans, Behind
<1>9. CASE Finish
  BY <1>0, <1>9 DEF Finish, MissingInv, OrphanInv, UnreportedOrphans, Behind
<1>10. CASE UNCHANGED vars
  BY <1>10 DEF vars, OrphanInv, UnreportedOrphans, Behind
<1> QED
  BY <1>1, <1>2, <1>3, <1>4, <1>5, <1>6, <1>7, <1>8, <1>9, <1>10 DEF Next

(***************************************************************************)
(* For any two stores the comparison loses at most one missing id and one  *)
(* orphan (index_diff).                                                    *)
(***************************************************************************)
THEOREM AlwaysLosesAtMostOne == Spec => []LosesAtMostOne
<1>1. Init => DiffTypeInv /\ MissingInv /\ OrphanInv
  BY DEF Init, DiffTypeInv, TypeOK, PendingFromStores, MissingInv, OrphanInv,
         UnreportedMissing, UnreportedOrphans, Behind
<1>2. /\ DiffTypeInv /\ DiffTypeInv' /\ MissingInv /\ OrphanInv /\ [Next]_vars
      => MissingInv' /\ OrphanInv'
  BY MissingStep, OrphanStep DEF DiffTypeInv
<1>3. DiffTypeInv /\ MissingInv /\ OrphanInv => LosesAtMostOne
  <2> SUFFICES ASSUME DiffTypeInv, MissingInv, OrphanInv, pc = "done"
               PROVE  /\ Cardinality((aggregator \ index) \ missing) <= 1
                      /\ Cardinality((index \ aggregator) \ orphaned) <= 1
    BY DEF LosesAtMostOne
  <2>1. PICK z : (aggregator \ index) \ missing \subseteq {z}
    BY DEF MissingInv, UnreportedMissing, Behind
  <2>2. PICK y : (index \ aggregator) \ orphaned \subseteq {y}
    BY DEF OrphanInv, UnreportedOrphans, Behind
  <2> QED
    BY <2>1, <2>2, AtMostOne
<1> QED
  BY <1>1, <1>2, <1>3, DiffTypeInvariant, PTL DEF Spec
=============================================================================
