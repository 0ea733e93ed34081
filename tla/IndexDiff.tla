------------------------------ MODULE IndexDiff ------------------------------
(***************************************************************************)
(* index_diff (aleph/logic/collections.py) reads the sorted entity ids of  *)
(* the aggregator and of the search index side by side and reports each id *)
(* as in both, missing from the index, or orphaned in the index.  A        *)
(* diff-only reindex then writes the missing entities to the index, in     *)
(* batches (_get_diff_reindex_batches, reindex_collection).                *)
(*                                                                         *)
(* A stream of sorted ids is the set of the ids still to come; both        *)
(* streams are snapshots taken when the comparison starts.                 *)
(***************************************************************************)
EXTENDS Integers, FiniteSets

CONSTANTS
  Ids,        \* entity ids, ordered as integers
  BatchSize,  \* ids in a batch
  None        \* what next(stream, None) returns at the end of a stream

ASSUME IdsOrdered == Ids \subseteq Int /\ None \notin Int
ASSUME BatchSizePositive == BatchSize \in Nat \ {0}

VARIABLES
  aggregator, index,           \* the ids each store holds at the start
  aggregator_ids, index_ids,   \* the ids each stream has still to deliver
  aggregator_id, index_id,     \* the ids under comparison while catching up
  pc,
  missing, orphaned, both,     \* the ids reported so far
  batch,                       \* missing ids not handed to the indexer yet
  indexed                      \* the ids in the index by now

stores == <<aggregator, index>>
vars == <<aggregator, index, aggregator_ids, index_ids, aggregator_id,
          index_id, pc, missing, orphaned, both, batch, indexed>>

TypeOK ==
  /\ aggregator \subseteq Ids /\ index \subseteq Ids
  /\ aggregator_ids \subseteq aggregator /\ index_ids \subseteq index
  /\ aggregator_id \in Ids \cup {None} /\ index_id \in Ids \cup {None}
  /\ pc \in {"pull", "aggregator_behind", "index_behind", "aggregator_rest",
             "index_rest", "done"}
  /\ missing \subseteq aggregator /\ orphaned \subseteq index
  /\ both \subseteq aggregator \cap index
  /\ batch \subseteq missing
  /\ indexed \subseteq Ids

Init ==
  /\ aggregator \in SUBSET Ids /\ index \in SUBSET Ids
  /\ aggregator_ids = aggregator /\ index_ids = index
  /\ aggregator_id = None /\ index_id = None
  /\ pc = "pull"
  /\ missing = {} /\ orphaned = {} /\ both = {}
  /\ batch = {}
  /\ indexed = index

\* next(stream, None): the smallest id to come, or None.
Upcoming(stream) ==
  IF stream = {} THEN {None}
  ELSE {x \in stream : \A y \in stream : x <= y}

\* An id that is in the aggregator only: it joins the batch, and a full batch
\* goes to the indexer.
YieldMissing(id) ==
  /\ missing' = missing \cup {id}
  /\ IF Cardinality(batch \cup {id}) >= BatchSize
     THEN indexed' = indexed \cup batch \cup {id} /\ batch' = {}
     ELSE batch' = batch \cup {id} /\ UNCHANGED indexed
  /\ UNCHANGED <<orphaned, both>>

YieldOrphaned(id) ==
  /\ orphaned' = orphaned \cup {id}
  /\ UNCHANGED <<missing, both, batch, indexed>>

YieldBoth(id) ==
  /\ both' = both \cup {id}
  /\ UNCHANGED <<missing, orphaned, batch, indexed>>

YieldNothing == UNCHANGED <<missing, orphaned, both, batch, indexed>>

\* Take the next id of each stream.
Pull(a, i) ==
  /\ pc = "pull"
  /\ a \in Upcoming(aggregator_ids)
  /\ i \in Upcoming(index_ids)
  /\ aggregator_ids' = aggregator_ids \ {a}
  /\ index_ids' = index_ids \ {i}
  /\ UNCHANGED stores

Compare(a, i, next) ==
  pc' = next /\ aggregator_id' = a /\ index_id' = i

\* Mutant: only the pending orphan is reported, not the remaining ones.
AggregatorEndedAll(i) ==
  /\ i # None
  /\ Pull(None, i)
  /\ YieldOrphaned(i)
  /\ Compare(None, None, "done")

AggregatorEnded(i) ==
  /\ i # None
  /\ Pull(None, i)
  /\ YieldOrphaned(i)
  /\ Compare(None, None, "index_rest")

IndexEnded(a) ==
  /\ a # None
  /\ Pull(a, None)
  /\ YieldMissing(a)
  /\ Compare(None, None, "aggregator_rest")

\* Mutant: an id of both stores is reported as missing.
SameIdMissing(a) ==
  /\ a # None
  /\ Pull(a, a)
  /\ YieldMissing(a)
  /\ Compare(None, None, "pull")

SameId(a) ==
  /\ a # None
  /\ Pull(a, a)
  /\ YieldBoth(a)
  /\ Compare(None, None, "pull")

DifferentIds(a, i) ==
  /\ a # None /\ i # None /\ a # i
  /\ Pull(a, i)
  /\ YieldNothing
  /\ Compare(a, i, IF a < i THEN "aggregator_behind" ELSE "index_behind")

\* Mutant: the wrong one of the two pending ids is reported.
CatchUpWrongId(next) ==
  /\ pc = "aggregator_behind"
  /\ next \in Upcoming(aggregator_ids)
  /\ YieldMissing(index_id)
  /\ aggregator_ids' = aggregator_ids \ {next}
  /\ IF next \in {None, index_id} THEN Compare(None, None, "pull")
     ELSE Compare(next, index_id, pc)
  /\ UNCHANGED <<stores, index_ids>>

\* Mutant: the end of the stream does not end the catching up.
CatchUpForever(next) ==
  /\ pc = "aggregator_behind"
  /\ next \in Upcoming(aggregator_ids)
  /\ YieldMissing(aggregator_id)
  /\ aggregator_ids' = aggregator_ids \ {next}
  /\ IF next = index_id THEN Compare(None, None, "pull")
     ELSE Compare(next, index_id, pc)
  /\ UNCHANGED <<stores, index_ids>>

\* Report aggregator ids until one equals the pending index id, or none is
\* left; either way the pending index id is not reported.
CatchUpAggregator(next) ==
  /\ pc = "aggregator_behind"
  /\ next \in Upcoming(aggregator_ids)
  /\ YieldMissing(aggregator_id)
  /\ aggregator_ids' = aggregator_ids \ {next}
  /\ IF next \in {None, index_id} THEN Compare(None, None, "pull")
     ELSE Compare(next, index_id, pc)
  /\ UNCHANGED <<stores, index_ids>>

\* The same with the stores exchanged.
CatchUpIndex(next) ==
  /\ pc = "index_behind"
  /\ next \in Upcoming(index_ids)
  /\ YieldOrphaned(index_id)
  /\ index_ids' = index_ids \ {next}
  /\ IF next \in {None, aggregator_id} THEN Compare(None, None, "pull")
     ELSE Compare(aggregator_id, next, pc)
  /\ UNCHANGED <<stores, aggregator_ids>>

RestOfAggregator(a) ==
  /\ pc = "aggregator_rest"
  /\ a \in Upcoming(aggregator_ids) \ {None}
  /\ YieldMissing(a)
  /\ aggregator_ids' = aggregator_ids \ {a}
  /\ UNCHANGED <<stores, index_ids, pc, aggregator_id, index_id>>

RestOfIndex(i) ==
  /\ pc = "index_rest"
  /\ i \in Upcoming(index_ids) \ {None}
  /\ YieldOrphaned(i)
  /\ index_ids' = index_ids \ {i}
  /\ UNCHANGED <<stores, aggregator_ids, pc, aggregator_id, index_id>>

\* Mutant: the partial batch is forgotten.
FinishBatchless ==
  /\ \/ pc = "pull" /\ aggregator_ids = {} /\ index_ids = {}
     \/ pc = "aggregator_rest" /\ aggregator_ids = {}
     \/ pc = "index_rest" /\ index_ids = {}
  /\ pc' = "done"
  /\ UNCHANGED <<stores, aggregator_ids, index_ids, aggregator_id, index_id,
                 missing, orphaned, both, batch, indexed>>

\* Both streams are read: the last, partial batch goes to the indexer.
Finish ==
  /\ \/ pc = "pull" /\ aggregator_ids = {} /\ index_ids = {}
     \/ pc = "aggregator_rest" /\ aggregator_ids = {}
     \/ pc = "index_rest" /\ index_ids = {}
  /\ pc' = "done"
  /\ indexed' = indexed \cup batch
  /\ batch' = {}
  /\ UNCHANGED <<stores, aggregator_ids, index_ids, aggregator_id, index_id,
                 missing, orphaned, both>>

Next ==
  \/ \E x \in Ids :
       \/ AggregatorEnded(x) \/ IndexEnded(x) \/ SameId(x)
       \/ RestOfAggregator(x) \/ RestOfIndex(x)
       \/ \E y \in Ids : DifferentIds(x, y)
  \/ \E x \in Ids \cup {None} : CatchUpAggregator(x) \/ CatchUpIndex(x)
  \/ Finish

Spec == Init /\ [][Next]_vars /\ WF_vars(Next)

-----------------------------------------------------------------------------
(* When the index holds nothing but entities of the aggregator, the diff   *)
(* reports exactly the ids the index lacks and no orphan, and a diff-only  *)
(* reindex leaves the index with every entity of the aggregator: the case  *)
(* a diff-only reindex is made for (reindex_collection, diff_only).        *)
DiffReindexComplete ==
  pc = "done" /\ index \subseteq aggregator =>
    /\ missing = aggregator \ index
    /\ orphaned = {}
    /\ indexed = aggregator

(* When the aggregator holds nothing the index lacks, the diff reports     *)
(* exactly the orphans, and a diff-only reindex writes nothing.            *)
OrphansExact ==
  pc = "done" /\ aggregator \subseteq index =>
    /\ orphaned = index \ aggregator
    /\ missing = {}
    /\ indexed = index

(* For any two stores, at most one missing id goes unreported, and at most *)
(* one orphan: the id that was pending when the other stream ran out.      *)
LosesAtMostOne ==
  pc = "done" =>
    /\ Cardinality((aggregator \ index) \ missing) <= 1
    /\ Cardinality((index \ aggregator) \ orphaned) <= 1

(* The comparison ends, whatever the two streams hold: no catching up runs *)
(* on for ever.                                                            *)
DiffEnds == <>(pc = "done")

-----------------------------------------------------------------------------
(* What the documentation says of the diff, for any two stores.            *)

(* "(aggregator_id, index_id) (which are the same) or if 1 of the values   *)
(* is None, it means the entity is missing either in the aggregator or in  *)
(* the index": each id is reported, and for what it is (index_diff).       *)
DiffExact ==
  pc = "done" =>
    /\ missing = aggregator \ index
    /\ orphaned = index \ aggregator
    /\ both = aggregator \cap index
=============================================================================
