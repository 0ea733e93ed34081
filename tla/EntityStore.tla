----------------------------- MODULE EntityStore -----------------------------
(***************************************************************************)
(* The entities of one collection and their three copies: rows in the      *)
(* database, fragments in the aggregator, documents in the search index    *)
(* (aleph/logic/entities.py, aleph/logic/collections.py).  Requests edit   *)
(* and delete entities, jobs follow up on them, and a reindex rebuilds     *)
(* the copies from the rows.                                               *)
(*                                                                         *)
(* The aggregator and the index are written at once, the database at the   *)
(* commit.  The contents of an entity are the number of the edit that      *)
(* wrote them.  The entities are in no profile, so that profile_fragments  *)
(* finds none to write; Profiles has them.                                 *)
(***************************************************************************)
EXTENDS Naturals, FiniteSets

CONSTANTS
  Entity,
  References,  \* which entities an entity refers to
  Request,
  MaxEdits,    \* bound on the number of edits
  MaxDisturbed,\* bound on the number of reindexes, failed requests and jobs
  None

ASSUME ReferencesType == References \in [Entity -> SUBSET Entity]
ASSUME BoundsType == {MaxEdits, MaxDisturbed} \subseteq Nat

Edit == 1 .. MaxEdits
ASSUME NoneIsNoEdit == None \notin Edit

Extracted == 0   \* a document without the contents of an edit
Job == [op : {"update", "analyze", "index", "prune"}, entity : Entity]

VARIABLES
  row,       \* committed rows: the edit an entity's row holds, or None
  fragment,  \* fragments of origin "model": the edit they hold, or None
  named,     \* entities with a fragment "names", of origin "model" as well
  derived,   \* entities with fragments of other origins
  document,  \* the edit an index document holds, Extracted, or None
  request,   \* what each request is doing
  jobs,      \* queued jobs
  indexing,  \* what running index jobs have read of an entity, not yet written
  reindex,   \* what the reindex is doing
  edits, reindexes, failures,  \* how many there have been
  raced,     \* entities that overlapping operations have worked on
  overlap    \* those of them since the reindex began

stores == <<row, fragment, named, derived, document>>
queue == <<jobs, indexing>>
bounds == <<edits, reindexes, failures>>
history == <<raced, overlap>>
vars == <<stores, request, queue, reindex, bounds, history>>

RequestState == [pc : {"idle"}] \cup [pc : {"deleting"}, entity : Entity] \cup
  [pc : {"emptied", "fragments", "indexed"}, entity : Entity, edit : Edit]
ReindexState == [pc : {"idle"}] \cup
  [pc : {"model"}, flush : BOOLEAN, todo : [Entity -> Edit \cup {None}],
   bulk : [Entity -> Edit \cup {None}]] \cup
  [pc : {"flush", "batches"}, flush : BOOLEAN, model : BOOLEAN]

TypeOK ==
  /\ row \in [Entity -> Edit \cup {None}]
  /\ fragment \in [Entity -> Edit \cup {None}]
  /\ named \subseteq Entity /\ derived \subseteq Entity
  /\ document \in [Entity -> Edit \cup {None, Extracted}]
  /\ request \in [Request -> RequestState]
  /\ jobs \subseteq Job
  /\ indexing \in [Entity -> SUBSET (Edit \cup {Extracted})]
  /\ edits \in 0 .. MaxEdits
  /\ {reindexes, failures} \subseteq Nat /\ reindexes + failures <= MaxDisturbed
  /\ reindex \in ReindexState
  /\ overlap \subseteq Entity
  /\ raced \subseteq Entity

Nothing == [e \in Entity |-> None]
Idle == [pc |-> "idle"]

Init ==
  /\ row = Nothing /\ fragment = Nothing /\ document = Nothing
  /\ named = {} /\ derived = {}
  /\ edits = 0 /\ reindexes = 0 /\ failures = 0
  /\ request = [r \in Request |-> Idle]
  /\ jobs = {}
  /\ indexing = [e \in Entity |-> {}]
  /\ reindex = Idle
  /\ raced = {} /\ overlap = {}

-----------------------------------------------------------------------------
(* Overlapping operations on one entity are recorded, not prevented.       *)

Requested(e) == \E r \in Request : request[r] # Idle /\ request[r].entity = e
Queued(e) == indexing[e] # {} \/ \E j \in jobs : j.entity = e
PrunePending(e) == [op |-> "prune", entity |-> e] \in jobs
Emptied(e) == \E r \in Request : request[r].pc = "emptied" /\ request[r].entity = e
Aggregating == reindex.pc = "model"
Overlapped(e) == Requested(e) \/ Queued(e) \/ reindex # Idle

Race(E) == raced' = raced \cup E /\ overlap' = overlap \cup E
NoRace == UNCHANGED history

MayDisturb == reindexes + failures < MaxDisturbed
Fail == MayDisturb /\ failures' = failures + 1

EnqueueTogether(op, E) == {[op |-> op, entity |-> E]}  \* mutant: one job for all
Enqueue(op, E) == {[op |-> op, entity |-> e] : e \in E}

\* A job is done, unless its worker dies before it has queued what follows or
\* before it says so: then it is retried (periodic_retry_stalled).
Done(job, next) ==
  \/ jobs' = (jobs \ {job}) \cup next /\ UNCHANGED failures
  \/ jobs' \in {jobs, jobs \cup next} /\ Fail

\* mutant: only the fragments of origin "model" go
DropModelFragments(e) ==
  /\ fragment' = [fragment EXCEPT ![e] = None] /\ named' = named \ {e}
  /\ UNCHANGED derived

\* aggregator.delete(entity_id): whatever their origin.
DropFragments(e) ==
  /\ fragment' = [fragment EXCEPT ![e] = None]
  /\ named' = named \ {e} /\ derived' = derived \ {e}

HasFragments(e) == fragment[e] # None \/ e \in named \cup derived

-----------------------------------------------------------------------------
(* upsert_entity and the commit of its request.                            *)

\* The old fragments, of every origin, are dropped before the edit's are put.
UpsertDrop(r, e) ==
  /\ request[r] = Idle
  /\ edits < MaxEdits
  /\ edits' = edits + 1
  /\ DropFragments(e)
  /\ request' = [request EXCEPT ![r] =
       [pc |-> "emptied", entity |-> e, edit |-> edits']]
  /\ Race(IF Requested(e) \/ PrunePending(e) \/ Aggregating \/ indexing[e] # {}
          THEN {e} ELSE {})
  /\ UNCHANGED <<row, document, queue, reindex, reindexes, failures>>

UpsertFragments(r) ==
  /\ request[r].pc = "emptied"
  /\ fragment' = [fragment EXCEPT ![request[r].entity] = request[r].edit]
  /\ request' = [request EXCEPT ![r].pc = "fragments"]
  /\ NoRace
  /\ UNCHANGED <<row, named, derived, document, queue, reindex, bounds>>

\* The query for profiles flushes the session, which locks the row of the
\* collection (touch) until the commit.
UpsertDocument(r) ==
  /\ request[r].pc = "fragments"
  /\ \A q \in Request : request[q].pc # "indexed"
  /\ document' = [document EXCEPT ![request[r].entity] = request[r].edit]
  /\ jobs' = jobs \cup Enqueue("update", {request[r].entity})
  /\ request' = [request EXCEPT ![r].pc = "indexed"]
  /\ NoRace
  /\ UNCHANGED <<row, fragment, named, derived, indexing, reindex, bounds>>

CommitUpsert(r) ==
  /\ request[r].pc = "indexed"
  /\ row' = [row EXCEPT ![request[r].entity] = request[r].edit]
  /\ request' = [request EXCEPT ![r] = Idle]
  /\ NoRace
  /\ UNCHANGED <<fragment, named, derived, document, queue, reindex, bounds>>

\* The request fails between two of its steps: the row is not written or no
\* prune is queued, the other stores stay written.
FailRequest(r) ==
  /\ request[r] # Idle
  /\ Fail
  /\ Race({request[r].entity})
  /\ request' = [request EXCEPT ![r] = Idle]
  /\ UNCHANGED <<stores, queue, reindex, edits, reindexes>>

-----------------------------------------------------------------------------
(* Deleting an entity.                                                     *)

\* delete_entity: the document goes, then a job is queued for the rest.
Delete(r, e) ==
  /\ request[r] = Idle
  /\ document[e] # None
  /\ document' = [document EXCEPT ![e] = None]
  /\ request' = [request EXCEPT ![r] = [pc |-> "deleting", entity |-> e]]
  /\ Race(IF Overlapped(e) THEN {e} ELSE {})
  /\ UNCHANGED <<row, fragment, named, derived, queue, reindex, bounds>>

QueuePrune(r) ==
  /\ request[r].pc = "deleting"
  /\ jobs' = jobs \cup Enqueue("prune", {request[r].entity})
  /\ request' = [request EXCEPT ![r] = Idle]
  /\ NoRace
  /\ UNCHANGED <<stores, indexing, reindex, bounds>>

\* The entities that refer to e, as far as the index knows.
Adjacent(e) == {a \in Entity \ {e} : document[a] # None /\ e \in References[a]}

WithoutDocuments(E) ==
  document' = [a \in Entity |-> IF a \in E THEN None ELSE document[a]]

\* prune_entity: delete the adjacent entities, the fragments and the row.
Prune(e) ==
  LET prune == [op |-> "prune", entity |-> e]
      next == Enqueue("prune", Adjacent(e))
  IN /\ PrunePending(e)
     /\ WithoutDocuments(Adjacent(e))
     /\ DropFragments(e)
     /\ row' = [row EXCEPT ![e] = None]
     /\ \/ jobs' = (jobs \ {prune}) \cup next /\ UNCHANGED failures
        \/ jobs' = jobs \cup next /\ Fail
     /\ Race({a \in Adjacent(e) : Overlapped(a)} \cup
             (IF Requested(e) \/ Aggregating THEN {e} ELSE {}))
     /\ UNCHANGED <<request, indexing, reindex, edits, reindexes>>

\* It dies before it commits: of the adjacent entities some lost their
\* documents, and all of these but the last have a job of their own.
PruneDies(e) ==
  /\ PrunePending(e)
  /\ \E gone \in SUBSET Adjacent(e) : \E queued \in SUBSET gone :
       /\ Cardinality(gone \ queued) <= 1
       /\ WithoutDocuments(gone)
       /\ jobs' = jobs \cup Enqueue("prune", queued)
       /\ \/ queued = Adjacent(e) /\ DropFragments(e)
          \/ UNCHANGED <<fragment, named, derived>>
       /\ Race({a \in gone : Overlapped(a)} \cup (gone \ queued) \cup
               (IF Requested(e) \/ Aggregating THEN {e} ELSE {}))
  /\ Fail
  /\ UNCHANGED <<row, request, indexing, reindex, edits, reindexes>>

-----------------------------------------------------------------------------
(* The other jobs.                                                         *)

\* update_entity works on the document; without one it fails.  It may put the
\* names of the entities that e refers to (inline_names).
Update(e) ==
  LET update == [op |-> "update", entity |-> e]
  IN /\ update \in jobs
     /\ \/ UNCHANGED named
        \/ /\ document[e] # None /\ \E a \in References[e] : document[a] # None
           /\ named' = named \cup {e}
     /\ Done(update, IF document[e] = None THEN {} ELSE Enqueue("analyze", {e}))
     /\ NoRace
     /\ UNCHANGED <<row, fragment, derived, document, request, indexing, reindex,
                    edits, reindexes>>

\* The analyzer, another service, adds fragments and has the entity indexed.
Analyze(e) ==
  LET analyze == [op |-> "analyze", entity |-> e]
  IN /\ analyze \in jobs
     /\ derived' = derived \cup {e}
     /\ Done(analyze, Enqueue("index", {e}))
     /\ NoRace
     /\ UNCHANGED <<row, fragment, named, document, request, indexing, reindex,
                    edits, reindexes>>

\* index_aggregator for one entity, as far as reading its fragments.
IndexRead(e) ==
  LET index == [op |-> "index", entity |-> e]
      read == IF fragment[e] # None THEN fragment[e] ELSE Extracted
  IN /\ index \in jobs
     /\ HasFragments(e)
     /\ indexing' = [indexing EXCEPT ![e] = @ \cup {read}]
     /\ jobs' = jobs \ {index}
     /\ Race(IF PrunePending(e) \/ Aggregating \/ Emptied(e) THEN {e} ELSE {})
     /\ UNCHANGED <<stores, request, reindex, bounds>>

\* An entity without fragments is not indexed.
IndexNothing(e) ==
  LET index == [op |-> "index", entity |-> e]
  IN /\ index \in jobs
     /\ ~HasFragments(e)
     /\ Done(index, {})
     /\ NoRace
     /\ UNCHANGED <<stores, request, indexing, reindex, edits, reindexes>>

\* The bulk request that stores what was read, whatever happened since.  A
\* worker that dies before or after it leaves the job to be retried.
IndexWrite(e) ==
  \E read \in indexing[e] :
    /\ indexing' = [indexing EXCEPT ![e] = @ \ {read}]
    /\ \/ document' = [document EXCEPT ![e] = read] /\ UNCHANGED <<jobs, failures>>
       \/ /\ document' \in {document, [document EXCEPT ![e] = read]}
          /\ jobs' = jobs \cup Enqueue("index", {e}) /\ Fail
    /\ NoRace
    /\ UNCHANGED <<row, fragment, named, derived, request, reindex, edits,
                   reindexes>>

-----------------------------------------------------------------------------
(* reindex_collection, one at a time.                                      *)

BeginReindex ==
  /\ reindex = Idle
  /\ MayDisturb
  /\ reindexes' = reindexes + 1
  /\ overlap' = {e \in Entity : Requested(e)}
  /\ raced' = raced \cup overlap'

\* aggregate_model drops the fragments of origin "model", and reads the rows.
StartReindex(flush) ==
  /\ BeginReindex
  /\ fragment' = Nothing /\ named' = {}
  /\ reindex' = [pc |-> "model", flush |-> flush, todo |-> row,
                 bulk |-> Nothing]
  /\ UNCHANGED <<row, derived, document, request, queue, edits, failures>>

\* Each row's fragments are dropped, and gathered for the bulk writer.
AggregateRow(e) ==
  /\ Aggregating
  /\ reindex.todo[e] # None
  /\ DropFragments(e)
  /\ reindex' = [reindex EXCEPT !.todo[e] = None,
                                !.bulk[e] = reindex.todo[e]]
  /\ NoRace
  /\ UNCHANGED <<row, document, request, queue, bounds>>

WriteBulk ==
  /\ Aggregating
  /\ reindex.todo = Nothing
  /\ fragment' = [e \in Entity |-> IF reindex.bulk[e] # None
                                   THEN reindex.bulk[e] ELSE fragment[e]]
  /\ reindex' = [pc |-> "flush", flush |-> reindex.flush, model |-> TRUE]
  /\ NoRace
  /\ UNCHANGED <<row, named, derived, document, request, queue, bounds>>

\* A reindex that leaves the model fragments as they are.
StartWithoutModel(flush) ==
  /\ BeginReindex
  /\ reindex' = [pc |-> "flush", flush |-> flush, model |-> FALSE]
  /\ UNCHANGED <<stores, request, queue, edits, failures>>

\* All documents go, if asked for; what raced before the reindex is repaired.
FlushIndex ==
  /\ reindex.pc = "flush"
  /\ reindex' = [reindex EXCEPT !.pc = "batches"]
  /\ document' = IF reindex.flush THEN Nothing ELSE document
  /\ raced' = IF reindex.flush /\ reindex.model
              THEN overlap \cup {e \in raced :
                     \/ Requested(e) \/ Queued(e)
                     \/ e \in named \cup derived /\ fragment[e] = None}
              ELSE raced
  /\ UNCHANGED <<row, fragment, named, derived, request, queue, bounds, overlap>>

\* Jobs index whatever has fragments.
QueueBatches ==
  /\ reindex.pc = "batches"
  /\ reindex' = Idle
  /\ jobs' = jobs \cup Enqueue("index", {e \in Entity : HasFragments(e)})
  /\ overlap' = {}
  /\ UNCHANGED <<stores, request, indexing, bounds, raced>>

\* The reindex dies half way.
FailReindex ==
  /\ reindex # Idle
  /\ reindex' = Idle
  /\ raced' = Entity /\ overlap' = {}
  /\ UNCHANGED <<stores, request, queue, bounds>>

Next ==
  \/ \E r \in Request :
       \/ \E e \in Entity : UpsertDrop(r, e) \/ Delete(r, e)
       \/ UpsertFragments(r) \/ UpsertDocument(r) \/ CommitUpsert(r)
       \/ QueuePrune(r) \/ FailRequest(r)
  \/ \E e \in Entity :
       \/ Prune(e) \/ PruneDies(e) \/ Update(e) \/ Analyze(e)
       \/ IndexRead(e) \/ IndexNothing(e) \/ IndexWrite(e)
  \/ \E flush \in BOOLEAN : StartReindex(flush) \/ StartWithoutModel(flush)
  \/ \E e \in Entity : AggregateRow(e)
  \/ WriteBulk \/ FlushIndex \/ QueueBatches \/ FailReindex

Spec == Init /\ [][Next]_vars

-----------------------------------------------------------------------------
\* Nothing is being done about an entity.
Quiet(e) == ~Requested(e) /\ ~Queued(e) /\ reindex = Idle

(* Once all work on an entity is done, its row, its fragments and its      *)
(* document hold the same edit, or are all gone, unless operations on that *)
(* very entity overlapped or failed half way; and a reindex that flushes   *)
(* the index makes up for those that did before it (upsert_entity,         *)
(* prune_entity, index_aggregator, reindex_collection).                    *)
StoresAgree ==
  \A e \in Entity \ raced :
    Quiet(e) =>
      /\ fragment[e] = row[e]
      /\ document[e] = row[e]
      /\ e \in named \cup derived => row[e] # None

(* "Prune handles the full deletion of an entity": a prune that leaves no  *)
(* other work on the entity leaves nothing of it in any store              *)
(* (prune_entity).                                                         *)
PruneIsFull ==
  [][\A e \in Entity : Prune(e) /\ Quiet(e)' =>
       /\ row'[e] = None /\ fragment'[e] = None /\ document'[e] = None
       /\ e \notin named' \cup derived']_vars
=============================================================================
