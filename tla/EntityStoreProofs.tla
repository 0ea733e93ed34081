------------------------- MODULE EntityStoreProofs --------------------------
(* Proofs about EntityStore: types, and the agreement of the stores, for   *)
(* any entities and references, any number of requests, edits, failures    *)
(* and reindexes.  The invariant has one part about the fragments, which   *)
(* the reindex replaces, and one about the documents and the jobs that     *)
(* follow up; both speak of one entity at a time.                          *)
EXTENDS EntityStore, TLAPS

-----------------------------------------------------------------------------
(* Types.                                                                  *)

\* What a request is doing tells which fields its record has.
LEMMA RequestCases ==
  ASSUME TypeOK, NEW r \in Request
  PROVE  \/ request[r] = Idle /\ request[r].pc = "idle"
         \/ /\ request[r] # Idle
            /\ request[r].pc = "deleting" /\ request[r].entity \in Entity
         \/ /\ request[r] # Idle
            /\ request[r].pc \in {"emptied", "fragments", "indexed"}
            /\ request[r].entity \in Entity
            /\ request[r].edit \in Edit
            /\ request[r] = [pc |-> request[r].pc, entity |-> request[r].entity,
                             edit |-> request[r].edit]
  <1>1. request[r] \in RequestState
    BY DEF TypeOK
  <1>2. CASE request[r] \in [pc : {"idle"}]
    BY <1>2 DEF Idle
  <1>3. CASE request[r] \in [pc : {"deleting"}, entity : Entity]
    BY <1>3 DEF Idle
  <1>4. CASE request[r] \in [pc : {"emptied", "fragments", "indexed"}, entity : Entity,
                             edit : Edit]
    BY <1>4 DEF Idle
  <1> QED
    BY <1>1, <1>2, <1>3, <1>4 DEF RequestState

\* The same of the reindex.
LEMMA ReindexCases ==
  ASSUME TypeOK
  PROVE  \/ reindex = Idle /\ reindex.pc = "idle"
         \/ /\ reindex # Idle /\ reindex.pc = "model"
            /\ reindex.flush \in BOOLEAN
            /\ reindex.todo \in [Entity -> Edit \cup {None}]
            /\ reindex.bulk \in [Entity -> Edit \cup {None}]
            /\ reindex = [pc |-> "model", flush |-> reindex.flush,
                          todo |-> reindex.todo, bulk |-> reindex.bulk]
         \/ /\ reindex # Idle /\ reindex.pc \in {"flush", "batches"}
            /\ reindex.flush \in BOOLEAN /\ reindex.model \in BOOLEAN
            /\ reindex = [pc |-> reindex.pc, flush |-> reindex.flush,
                          model |-> reindex.model]
  <1>1. reindex \in ReindexState
    BY DEF TypeOK
  <1>2. CASE reindex \in [pc : {"idle"}]
    BY <1>2 DEF Idle
  <1>3. CASE reindex \in [pc : {"model"}, flush : BOOLEAN, todo : [Entity -> Edit \cup {None}],
                          bulk : [Entity -> Edit \cup {None}]]
    BY <1>3 DEF Idle
  <1>4. CASE reindex \in [pc : {"flush", "batches"}, flush : BOOLEAN, model : BOOLEAN]
    BY <1>4 DEF Idle
  <1> QED
    BY <1>1, <1>2, <1>3, <1>4 DEF ReindexState

\* What is queued are jobs.
LEMMA EnqueueType ==
  ASSUME NEW op \in {"update", "analyze", "index", "prune"},
         NEW E \in SUBSET Entity
  PROVE  Enqueue(op, E) \subseteq Job
  BY DEF Enqueue, Job

\* Every action keeps the types.
LEMMA TypeInvariant == Spec => []TypeOK
<1> USE DEF TypeOK
<1>1. Init => TypeOK
  <2> SUFFICES ASSUME Init PROVE TypeOK
    OBVIOUS
  <2>1. Nothing \in [Entity -> Edit \cup {None}] /\ Nothing \in [Entity -> Edit \cup {None, Extracted}]
    BY DEF Nothing
  <2>2. Idle \in RequestState /\ Idle \in ReindexState
    BY DEF Idle, RequestState, ReindexState
  <2> QED
    BY <2>1, <2>2, BoundsType DEF Init
<1>2. TypeOK /\ [Next]_vars => TypeOK'
  <2> SUFFICES ASSUME TypeOK, [Next]_vars PROVE TypeOK'
    OBVIOUS
  <2> USE DEF history, stores, queue, bounds, Race, NoRace, Fail, MayDisturb, Done, DropFragments
  <2>e. Edit \subseteq Nat /\ MaxEdits \in Nat /\ MaxDisturbed \in Nat
    BY BoundsType DEF Edit
  <2>1. ASSUME NEW r \in Request, NEW e \in Entity, UpsertDrop(r, e)
        PROVE  TypeOK'
    <3>1. edits' \in Edit /\ edits' \in 0 .. MaxEdits
      BY <2>1, <2>e DEF UpsertDrop, Edit
    <3>2. [pc |-> "emptied", entity |-> e, edit |-> edits'] \in RequestState
      BY <3>1 DEF RequestState
    <3> QED
      BY <2>1, <3>1, <3>2 DEF UpsertDrop
  <2>20. ASSUME NEW r \in Request, UpsertFragments(r) PROVE TypeOK'
    <3>1. request[r].entity \in Entity /\ request[r].edit \in Edit
          /\ [request[r] EXCEPT !.pc = "fragments"] \in RequestState
      BY <2>20, RequestCases DEF UpsertFragments, RequestState
    <3> QED
      BY <2>20, <3>1 DEF UpsertFragments
  <2>2. ASSUME NEW r \in Request, UpsertDocument(r) PROVE TypeOK'
    <3>1. request[r].entity \in Entity /\ request[r].edit \in Edit
          /\ [request[r] EXCEPT !.pc = "indexed"] \in RequestState
      BY <2>2, RequestCases DEF UpsertDocument, RequestState
    <3>2. Enqueue("update", {request[r].entity}) \subseteq Job
      BY <3>1, EnqueueType
    <3> QED
      BY <2>2, <3>1, <3>2 DEF UpsertDocument
  <2>3. ASSUME NEW r \in Request, CommitUpsert(r) PROVE TypeOK'
    <3>1. request[r].entity \in Entity /\ request[r].edit \in Edit
      BY <2>3, RequestCases DEF CommitUpsert
    <3>2. Idle \in RequestState
      BY DEF Idle, RequestState
    <3> QED
      BY <2>3, <3>1, <3>2 DEF CommitUpsert
  <2>4. ASSUME NEW r \in Request, FailRequest(r) PROVE TypeOK'
    <3>1. request[r].entity \in Entity
      BY <2>4, RequestCases DEF FailRequest
    <3>2. Idle \in RequestState
      BY DEF Idle, RequestState
    <3> QED
      BY <2>4, <2>e, <3>1, <3>2 DEF FailRequest
  <2>5. ASSUME NEW r \in Request, NEW e \in Entity, Delete(r, e) PROVE TypeOK'
    <3>1. [pc |-> "deleting", entity |-> e] \in RequestState
      BY DEF RequestState
    <3> QED
      BY <2>5, <3>1 DEF Delete
  <2>21. ASSUME NEW r \in Request, QueuePrune(r) PROVE TypeOK'
    <3>1. request[r].entity \in Entity
      BY <2>21, RequestCases DEF QueuePrune
    <3>2. Enqueue("prune", {request[r].entity}) \subseteq Job /\ Idle \in RequestState
      BY <3>1, EnqueueType DEF Idle, RequestState
    <3> QED
      BY <2>21, <3>2 DEF QueuePrune
  <2>6. ASSUME NEW e \in Entity, Prune(e) PROVE TypeOK'
    <3>1. Adjacent(e) \subseteq Entity
      BY DEF Adjacent
    <3>2. Enqueue("prune", Adjacent(e)) \subseteq Job
      BY <3>1, EnqueueType
    <3> QED
      BY <2>6, <2>e, <3>1, <3>2 DEF Prune, WithoutDocuments
  <2>22. ASSUME NEW e \in Entity, PruneDies(e) PROVE TypeOK'
    <3>1. PICK gone \in SUBSET Adjacent(e) : \E queued \in SUBSET gone :
            /\ WithoutDocuments(gone)
            /\ jobs' = jobs \cup Enqueue("prune", queued)
            /\ DropFragments(e) \/ UNCHANGED <<fragment, named, derived>>
            /\ Race({a \in gone : Overlapped(a)} \cup (gone \ queued) \cup
                    (IF Requested(e) \/ Aggregating THEN {e} ELSE {}))
      BY <2>22 DEF PruneDies
    <3>2. PICK queued \in SUBSET gone :
            /\ WithoutDocuments(gone)
            /\ jobs' = jobs \cup Enqueue("prune", queued)
            /\ DropFragments(e) \/ UNCHANGED <<fragment, named, derived>>
            /\ Race({a \in gone : Overlapped(a)} \cup (gone \ queued) \cup
                    (IF Requested(e) \/ Aggregating THEN {e} ELSE {}))
      BY <3>1
    <3>3. gone \subseteq Entity
      BY DEF Adjacent
    <3>4. Enqueue("prune", queued) \subseteq Job
      BY <3>3, EnqueueType
    <3>5. jobs' \subseteq Job /\ document' \in [Entity -> Edit \cup {None, Extracted}]
      BY <3>2, <3>4 DEF WithoutDocuments
    <3>6. fragment' \in [Entity -> Edit \cup {None}] /\ named' \subseteq Entity
          /\ derived' \subseteq Entity
      BY <3>2
    <3>7. overlap' \subseteq Entity /\ raced' \subseteq Entity
      BY <3>2, <3>3
    <3>8. {reindexes', failures'} \subseteq Nat /\ reindexes' + failures' <= MaxDisturbed
      BY <2>22, <2>e DEF PruneDies
    <3> QED
      BY <2>22, <3>5, <3>6, <3>7, <3>8 DEF PruneDies
  <2>7. ASSUME NEW e \in Entity, Update(e) PROVE TypeOK'
    <3>1. Enqueue("analyze", {e}) \subseteq Job
      BY EnqueueType
    <3>2. jobs' \subseteq Job
      BY <2>7, <3>1 DEF Update
    <3>3. {reindexes', failures'} \subseteq Nat /\ reindexes' + failures' <= MaxDisturbed
      BY <2>7, <2>e DEF Update
    <3> QED
      BY <2>7, <3>2, <3>3 DEF Update
  <2>8. ASSUME NEW e \in Entity, Analyze(e) PROVE TypeOK'
    <3>1. Enqueue("index", {e}) \subseteq Job
      BY EnqueueType
    <3>2. jobs' \subseteq Job
      BY <2>8, <3>1 DEF Analyze
    <3>3. {reindexes', failures'} \subseteq Nat /\ reindexes' + failures' <= MaxDisturbed
      BY <2>8, <2>e DEF Analyze
    <3> QED
      BY <2>8, <3>2, <3>3 DEF Analyze
  <2>9. ASSUME NEW e \in Entity, IndexRead(e) PROVE TypeOK'
    BY <2>9 DEF IndexRead
  <2>10. ASSUME NEW e \in Entity, IndexNothing(e) PROVE TypeOK'
    BY <2>10, <2>e DEF IndexNothing
  <2>11. ASSUME NEW e \in Entity, IndexWrite(e) PROVE TypeOK'
    <3>1. Enqueue("index", {e}) \subseteq Job
      BY EnqueueType
    <3>2. jobs' \subseteq Job
      BY <2>11, <3>1 DEF IndexWrite
    <3>3. {reindexes', failures'} \subseteq Nat /\ reindexes' + failures' <= MaxDisturbed
      BY <2>11, <2>e DEF IndexWrite
    <3>4. PICK read \in indexing[e] :
            /\ indexing' = [indexing EXCEPT ![e] = @ \ {read}]
            /\ document' \in {document, [document EXCEPT ![e] = read]}
      BY <2>11 DEF IndexWrite
    <3>5. document' \in [Entity -> Edit \cup {None, Extracted}]
      BY <3>4
    <3>6. indexing' \in [Entity -> SUBSET (Edit \cup {Extracted})]
      BY <3>4
    <3> QED
      BY <2>11, <3>2, <3>3, <3>5, <3>6 DEF IndexWrite
  <2>12. ASSUME NEW flush \in BOOLEAN, StartReindex(flush) PROVE TypeOK'
    <3>1. Nothing \in [Entity -> Edit \cup {None}]
      BY DEF Nothing
    <3>2. [pc |-> "model", flush |-> flush, todo |-> row, bulk |-> Nothing] \in ReindexState
      BY <3>1 DEF ReindexState
    <3> QED
      BY <2>12, <2>e, <3>1, <3>2 DEF StartReindex, BeginReindex
  <2>13. ASSUME NEW flush \in BOOLEAN, StartWithoutModel(flush) PROVE TypeOK'
    <3>1. [pc |-> "flush", flush |-> flush, model |-> FALSE] \in ReindexState
      BY DEF ReindexState
    <3> QED
      BY <2>13, <2>e, <3>1 DEF StartWithoutModel, BeginReindex
  <2>14. ASSUME NEW e \in Entity, AggregateRow(e) PROVE TypeOK'
    <3>1. reindex.pc = "model" /\ reindex' = [pc |-> "model", flush |-> reindex.flush,
             todo |-> [reindex.todo EXCEPT ![e] = None],
             bulk |-> [reindex.bulk EXCEPT ![e] = reindex.todo[e]]]
      BY <2>14, ReindexCases DEF AggregateRow, Aggregating
    <3>2. reindex' \in ReindexState
      BY <3>1, ReindexCases DEF ReindexState
    <3> QED
      BY <2>14, <3>2 DEF AggregateRow
  <2>15. ASSUME WriteBulk PROVE TypeOK'
    <3>1. reindex.flush \in BOOLEAN /\ reindex.bulk \in [Entity -> Edit \cup {None}]
      BY <2>15, ReindexCases DEF WriteBulk, Aggregating
    <3>2. reindex' \in ReindexState
      BY <2>15, <3>1 DEF WriteBulk, ReindexState
    <3>3. fragment' \in [Entity -> Edit \cup {None}]
      BY <2>15, <3>1 DEF WriteBulk
    <3> QED
      BY <2>15, <3>2, <3>3 DEF WriteBulk
  <2>16. ASSUME FlushIndex PROVE TypeOK'
    <3>1. reindex' \in ReindexState
      BY <2>16, ReindexCases DEF FlushIndex, ReindexState
    <3> QED
      BY <2>16, <3>1 DEF FlushIndex, Nothing
  <2>17. ASSUME QueueBatches PROVE TypeOK'
    <3>1. Enqueue("index", {e \in Entity : HasFragments(e)}) \subseteq Job
      BY EnqueueType
    <3>2. Idle \in ReindexState
      BY DEF Idle, ReindexState
    <3> QED
      BY <2>17, <3>1, <3>2 DEF QueueBatches
  <2>18. ASSUME FailReindex PROVE TypeOK'
    <3>1. Idle \in ReindexState
      BY DEF Idle, ReindexState
    <3> QED
      BY <2>18, <3>1 DEF FailReindex
  <2>19. ASSUME UNCHANGED vars PROVE TypeOK'
    BY <2>19 DEF vars
  <2> QED
    BY <2>1, <2>2, <2>3, <2>4, <2>5, <2>6, <2>7, <2>8, <2>9, <2>10, <2>11, <2>12,
       <2>13, <2>14, <2>15, <2>16, <2>17, <2>18, <2>19, <2>20, <2>21, <2>22 DEF Next
<1> QED
  BY <1>1, <1>2, PTL DEF Spec

-----------------------------------------------------------------------------
(* The invariant.                                                          *)

By(r, e) == request[r] # Idle /\ request[r].entity = e
HasJob(op, e) == [op |-> op, entity |-> e] \in jobs

\* From the time the reindex drops the fragments until the documents are
\* flushed only what overlaps with it can disturb the fragments.
ModelPhase == Aggregating \/ (reindex.pc = "flush" /\ reindex.model)
Suspect == IF ModelPhase THEN overlap ELSE raced

\* The document is yet to be written.
IndexDue(e) == reindex # Idle \/ HasJob("index", e) \/ indexing[e] # {}

OneRequest(e) == \A r, q \in Request : By(r, e) /\ By(q, e) => r = q

\* While rows are aggregated, an entity is either still to be read or in the bulk.
Gathered(e) ==
  /\ ~Requested(e) /\ fragment[e] = None
  /\ \/ reindex.todo[e] = row[e] /\ reindex.bulk[e] = None
     \/ reindex.todo[e] = None /\ reindex.bulk[e] = row[e]

\* Otherwise the fragments are those of the request at work, or of the row.
Copied(e) ==
  /\ \A r \in Request : By(r, e) /\ request[r].pc \in {"fragments", "indexed"} =>
       fragment[e] = request[r].edit
  /\ ~Requested(e) /\ ~PrunePending(e) => fragment[e] = row[e]
Copies(e) == OneRequest(e) /\ IF Aggregating THEN Gathered(e) ELSE Copied(e)

NotFollowedUp(e) == ~HasJob("update", e) /\ ~HasJob("analyze", e)
Gone(e) == document[e] = None /\ indexing[e] = {} /\ NotFollowedUp(e)

\* An entity that is being deleted has no document, and nothing can restore it.
Vanishing(e) == PrunePending(e) => ~Requested(e) /\ Gone(e)
Leaving(e) == \A r \in Request : By(r, e) /\ request[r].pc = "deleting" =>
  Gone(e) /\ ~IndexDue(e)

\* Without a request, a document is that of the row, or is about to be.
Settled(e) == ~PrunePending(e) /\ ~Requested(e) =>
  /\ indexing[e] \subseteq {row[e]}
  /\ row[e] = None => Gone(e) /\ e \notin named \cup derived
  /\ row[e] # None => document[e] = row[e] \/ IndexDue(e)

\* With one, it is that of the edit, or is about to be.
Written(e) == \A r \in Request : By(r, e) /\ request[r].pc # "deleting" =>
  /\ indexing[e] \subseteq {request[r].edit}
  /\ request[r].pc = "indexed" => document[e] = request[r].edit \/ IndexDue(e)

FollowUp(e) == Vanishing(e) /\ Leaving(e) /\ Settled(e) /\ Written(e)

CopiesInv == \A e \in Entity \ Suspect : Copies(e)
FollowUpInv == \A e \in Entity \ raced : FollowUp(e)
Inv == overlap \subseteq raced /\ CopiesInv /\ FollowUpInv

-----------------------------------------------------------------------------
(* Requests and what has raced.                                            *)

\* An entity is requested by some request.
LEMMA RequestedIsBy == \A e : Requested(e) <=> \E r \in Request : By(r, e)
  BY DEF Requested, By

\* What has not raced is not suspect.
LEMMA SuspectRaced ==
  ASSUME overlap \subseteq raced
  PROVE  \A e : e \notin raced => e \notin Suspect
  BY DEF Suspect

\* A race adds to what is suspect.
LEMMA RaceGrows ==
  ASSUME NEW E, Race(E), UNCHANGED reindex
  PROVE  /\ raced' = raced \cup E
         /\ Suspect' = Suspect \cup E
         /\ overlap \subseteq raced => (overlap \subseteq raced)'
  BY DEF Race, Suspect, ModelPhase, Aggregating

\* Without a race it stays what it was.
LEMMA NoRaceKeeps ==
  ASSUME NoRace, UNCHANGED reindex
  PROVE  /\ raced' = raced
         /\ Suspect' = Suspect
         /\ overlap \subseteq raced => (overlap \subseteq raced)'
  BY DEF NoRace, history, Suspect, ModelPhase, Aggregating

-----------------------------------------------------------------------------
(* Each action keeps the invariant.                                        *)

\* The first request at work on an entity is its only one.
LEMMA UpsertDropKeeps ==
  ASSUME TypeOK, Inv, NEW r \in Request, NEW e \in Entity, UpsertDrop(r, e)
  PROVE  Inv'
<1> DEFINE E == IF Requested(e) \/ PrunePending(e) \/ Aggregating \/ indexing[e] # {}
                THEN {e} ELSE {}
<1>1. Race(E) /\ UNCHANGED reindex
  BY DEF UpsertDrop
<1>2. /\ overlap' \subseteq raced' /\ raced' = raced \cup E
      /\ Suspect' = Suspect \cup E
  BY <1>1, RaceGrows DEF Inv
<1>3. ASSUME NEW q \in Request, NEW f \in Entity
      PROVE  /\ By(q, f)' <=> IF q = r THEN f = e ELSE By(q, f)
             /\ q # r => request'[q] = request[q]
             /\ ~By(r, f)
  BY DEF UpsertDrop, By, Idle, TypeOK
<1>4. /\ request'[r].pc = "emptied" /\ fragment' = [fragment EXCEPT ![e] = None]
      /\ named' = named \ {e} /\ derived' = derived \ {e}
      /\ UNCHANGED <<row, document, jobs, indexing, reindex>>
  BY DEF UpsertDrop, DropFragments, queue, TypeOK
<1>5. ASSUME NEW f \in Entity \ Suspect' PROVE Copies(f)'
  <2>1. f \notin Suspect /\ f \notin E /\ Copies(f)
    BY <1>2 DEF Inv, CopiesInv
  <2>2. CASE f = e
    <3>1. ~Requested(e) /\ ~Aggregating
      BY <2>1, <2>2
    <3>2. ~Aggregating'
      BY <3>1, <1>4 DEF Aggregating
    <3>3. OneRequest(e)'
      BY <1>3, <3>1, RequestedIsBy DEF OneRequest
    <3>4. Copied(e)'
      BY <1>3, <1>4, <3>1, RequestedIsBy DEF Copied, Requested, By, TypeOK
    <3> QED
      BY <2>2, <3>2, <3>3, <3>4 DEF Copies
  <2>3. CASE f # e
    <3>1. fragment'[f] = fragment[f]
      BY <2>3, <1>4 DEF TypeOK
    <3>2. Requested(f)' <=> Requested(f)
      BY <2>3, <1>3 DEF Requested, By
    <3> QED
      BY <2>1, <2>3, <1>3, <1>4, <3>1, <3>2
      DEF Copies, OneRequest, Gathered, Copied, Aggregating, PrunePending
  <2> QED
    BY <2>2, <2>3
<1>6. ASSUME NEW f \in Entity \ raced' PROVE FollowUp(f)'
  <2>1. f \notin raced /\ f \notin E /\ FollowUp(f)
    BY <1>2 DEF Inv, FollowUpInv
  <2>2. CASE f = e
    <3>1. ~Requested(e) /\ ~PrunePending(e) /\ indexing[e] = {}
      BY <2>1, <2>2
    <3>2. Requested(e)'
      BY <1>3 DEF Requested, By
    <3>3. ~PrunePending(e)' /\ indexing'[e] = {}
      BY <3>1, <1>4 DEF PrunePending
    <3>4. \A q \in Request : By(q, e)' => q = r
      BY <1>3, <3>1, RequestedIsBy
    <3>5. Written(e)' /\ Leaving(e)'
      BY <1>4, <3>3, <3>4 DEF Written, Leaving
    <3> QED
      BY <2>2, <3>2, <3>3, <3>5 DEF FollowUp, Vanishing, Settled
  <2>3. CASE f # e
    <3>2. Requested(f)' <=> Requested(f)
      BY <2>3, <1>3 DEF Requested, By
    <3> QED
      BY <2>1, <2>3, <1>3, <1>4, <3>2
      DEF FollowUp, Vanishing, Leaving, Settled, Written, Gone, NotFollowedUp, HasJob,
          PrunePending, IndexDue
  <2> QED
    BY <2>2, <2>3
<1> QED
  BY <1>2, <1>5, <1>6 DEF Inv, CopiesInv, FollowUpInv

\* The fragments become those of the edit.
LEMMA UpsertFragmentsKeeps ==
  ASSUME TypeOK, Inv, NEW r \in Request, UpsertFragments(r)
  PROVE  Inv'
<1>0. PICK e \in Entity : e = request[r].entity
  BY RequestCases DEF UpsertFragments, Idle
<1>1. /\ request[r].pc = "emptied" /\ request[r] # Idle
      /\ request' = [request EXCEPT ![r] = [request[r] EXCEPT !.pc = "fragments"]]
      /\ fragment' = [fragment EXCEPT ![e] = request[r].edit]
      /\ UNCHANGED <<row, named, derived, document, jobs, indexing, reindex>>
  BY <1>0, RequestCases DEF UpsertFragments, queue, Idle
<1>2. overlap' \subseteq raced' /\ raced' = raced /\ Suspect' = Suspect
  BY <1>1, NoRaceKeeps DEF UpsertFragments, Inv
<1>3. /\ request'[r] # Idle /\ request'[r].entity = e
      /\ request'[r].edit = request[r].edit /\ request'[r].pc = "fragments"
  BY <1>0, <1>1, RequestCases DEF Idle, TypeOK
<1>4. ASSUME NEW q \in Request, NEW f \in Entity
      PROVE  /\ By(q, f)' <=> By(q, f)
             /\ q # r => request'[q] = request[q]
             /\ By(r, f) <=> f = e
  BY <1>0, <1>1, <1>3 DEF By, TypeOK
<1>5. \A f \in Entity : Requested(f)' <=> Requested(f)
  BY <1>4 DEF Requested, By
<1>6. By(r, e) /\ Requested(e)
  BY <1>1, <1>4 DEF Requested, By
<1>7. ASSUME NEW f \in Entity \ Suspect' PROVE Copies(f)'
  <2>1. Copies(f)
    BY <1>2 DEF Inv, CopiesInv
  <2>2. OneRequest(f)'
    BY <2>1, <1>4 DEF Copies, OneRequest
  <2>3. CASE f = e
    <3>1. ~Aggregating /\ OneRequest(e)
      BY <2>1, <2>3, <1>6 DEF Copies, Gathered
    <3>2. fragment'[e] = request[r].edit
      BY <1>1 DEF TypeOK
    <3>3. \A q \in Request : By(q, e)' => q = r
      BY <3>1, <1>4, <1>6 DEF OneRequest
    <3> QED
      BY <2>2, <2>3, <3>1, <3>2, <3>3, <1>1, <1>3, <1>5, <1>6
      DEF Copies, Copied, Aggregating
  <2>4. CASE f # e
    <3>1. fragment'[f] = fragment[f]
      BY <2>4, <1>1 DEF TypeOK
    <3>2. \A q \in Request : By(q, f)' => q # r
      BY <2>4, <1>4
    <3> QED
      BY <2>1, <2>2, <3>1, <3>2, <1>1, <1>4, <1>5
      DEF Copies, Gathered, Copied, Aggregating, PrunePending
  <2> QED
    BY <2>3, <2>4
<1>8. ASSUME NEW f \in Entity \ raced' PROVE FollowUp(f)'
  <2>1. FollowUp(f)
    BY <1>2 DEF Inv, FollowUpInv
  <2>2. Vanishing(f)' /\ Settled(f)'
    BY <2>1, <1>1, <1>5
    DEF FollowUp, Vanishing, Settled, Gone, NotFollowedUp, HasJob, PrunePending, IndexDue
  <2>3. ASSUME NEW q \in Request, By(q, f)'
        PROVE  /\ request'[q].pc = "deleting" => Gone(f)' /\ ~IndexDue(f)'
               /\ request'[q].pc # "deleting" =>
                    /\ indexing'[f] \subseteq {request'[q].edit}
                    /\ request'[q].pc = "indexed" =>
                         document'[f] = request'[q].edit \/ IndexDue(f)'
    <3>1. By(q, f)
      BY <2>3, <1>4
    <3>2. CASE q = r
      BY <2>1, <3>1, <3>2, <1>1, <1>3 DEF FollowUp, Written
    <3>3. CASE q # r
      <4>1. request'[q] = request[q]
        BY <3>3, <1>4
      <4> QED
        BY <2>1, <3>1, <4>1, <1>1
        DEF FollowUp, Leaving, Written, Gone, NotFollowedUp, HasJob, IndexDue
    <3> QED
      BY <3>2, <3>3
  <2> QED
    BY <2>2, <2>3 DEF FollowUp, Leaving, Written
<1> QED
  BY <1>2, <1>7, <1>8 DEF Inv, CopiesInv, FollowUpInv

\* The document becomes that of the edit.
LEMMA UpsertDocumentKeeps ==
  ASSUME TypeOK, Inv, NEW r \in Request, UpsertDocument(r)
  PROVE  Inv'
<1>0. PICK e \in Entity : e = request[r].entity
  BY RequestCases DEF UpsertDocument, Idle
<1>1. /\ request[r].pc = "fragments" /\ request[r] # Idle
      /\ request' = [request EXCEPT ![r] = [request[r] EXCEPT !.pc = "indexed"]]
      /\ jobs' = jobs \cup {[op |-> "update", entity |-> e]}
      /\ document' = [document EXCEPT ![e] = request[r].edit]
      /\ UNCHANGED <<row, fragment, named, derived, indexing, reindex>>
  BY <1>0, RequestCases DEF UpsertDocument, Idle, Enqueue
<1>2. overlap' \subseteq raced' /\ raced' = raced /\ Suspect' = Suspect
  BY <1>1, NoRaceKeeps DEF UpsertDocument, Inv
<1>3. /\ request'[r] # Idle /\ request'[r].entity = e
      /\ request'[r].edit = request[r].edit /\ request'[r].pc = "indexed"
  BY <1>0, <1>1, RequestCases DEF Idle, TypeOK
<1>4. ASSUME NEW q \in Request, NEW f \in Entity
      PROVE  /\ By(q, f)' <=> By(q, f)
             /\ q # r => request'[q] = request[q]
             /\ By(r, f) <=> f = e
  BY <1>0, <1>1, <1>3 DEF By, TypeOK
<1>5. \A f \in Entity : Requested(f)' <=> Requested(f)
  BY <1>4 DEF Requested, By
<1>6. By(r, e) /\ Requested(e)
  BY <1>1, <1>4 DEF Requested, By
<1>7. ASSUME NEW op, NEW f, f # e \/ op # "update" PROVE HasJob(op, f)' <=> HasJob(op, f)
  BY <1>1, <1>7 DEF HasJob
<1>8. \A f : PrunePending(f)' <=> PrunePending(f)
  BY <1>7 DEF PrunePending, HasJob
<1>9. ASSUME NEW f \in Entity \ Suspect' PROVE Copies(f)'
  <2>1. Copies(f)
    BY <1>2 DEF Inv, CopiesInv
  <2>2. OneRequest(f)'
    BY <2>1, <1>4 DEF Copies, OneRequest
  <2>3. ASSUME ~Aggregating, NEW q \in Request, By(q, f)',
               request'[q].pc \in {"fragments", "indexed"}
        PROVE  fragment'[f] = request'[q].edit
    <3>1. CASE q = r
      BY <2>1, <2>3, <3>1, <1>1, <1>3, <1>4 DEF Copies, Copied
    <3>2. CASE q # r
      <4>1. request'[q] = request[q] /\ By(q, f)
        BY <2>3, <3>2, <1>4
      <4> QED
        BY <2>1, <2>3, <4>1, <1>1 DEF Copies, Copied
    <3> QED
      BY <3>1, <3>2
  <2> QED
    BY <2>1, <2>2, <2>3, <1>1, <1>5, <1>8 DEF Copies, Gathered, Copied, Aggregating
<1>10. ASSUME NEW f \in Entity \ raced' PROVE FollowUp(f)'
  <2>1. FollowUp(f)
    BY <1>2 DEF Inv, FollowUpInv
  <2>2. CASE f = e
    <3>1. OneRequest(e)
      BY <2>2, <1>2, SuspectRaced DEF Inv, CopiesInv, Copies
    <3>2. \A q \in Request : By(q, e)' => q = r
      BY <3>1, <1>4, <1>6 DEF OneRequest
    <3>3. document'[e] = request[r].edit
      BY <1>1 DEF TypeOK
    <3>4. indexing'[e] \subseteq {request[r].edit}
      BY <2>1, <2>2, <1>1, <1>6 DEF FollowUp, Written
    <3>5. Written(e)' /\ Leaving(e)'
      BY <3>2, <3>3, <3>4, <1>3 DEF Written, Leaving
    <3> QED
      BY <2>1, <2>2, <3>5, <1>5, <1>6, <1>8 DEF FollowUp, Vanishing, Settled
  <2>3. CASE f # e
    <3>1. document'[f] = document[f] /\ \A op : HasJob(op, f)' <=> HasJob(op, f)
      BY <2>3, <1>1, <1>7 DEF TypeOK
    <3>2. \A q \in Request : By(q, f)' => By(q, f) /\ request'[q] = request[q]
      BY <2>3, <1>4
    <3> QED
      BY <2>1, <3>1, <3>2, <1>1, <1>5, <1>8
      DEF FollowUp, Vanishing, Leaving, Settled, Written, Gone, NotFollowedUp, IndexDue
  <2> QED
    BY <2>2, <2>3
<1> QED
  BY <1>2, <1>9, <1>10 DEF Inv, CopiesInv, FollowUpInv

\* What held of the edit now holds of the row.
LEMMA CommitUpsertKeeps ==
  ASSUME TypeOK, Inv, NEW r \in Request, CommitUpsert(r)
  PROVE  Inv'
<1>1. PICK e \in Entity : e = request[r].entity
  BY RequestCases DEF CommitUpsert, Idle
<1>2. /\ request[r].pc = "indexed" /\ request[r] # Idle /\ request[r].edit \in Edit
      /\ request' = [request EXCEPT ![r] = Idle]
      /\ row' = [row EXCEPT ![e] = request[r].edit]
      /\ UNCHANGED <<fragment, named, derived, document, jobs, indexing, reindex>>
  BY <1>1, RequestCases DEF CommitUpsert, queue, Idle
<1>3. overlap' \subseteq raced' /\ raced' = raced /\ Suspect' = Suspect
  BY <1>2, NoRaceKeeps DEF CommitUpsert, Inv
<1>4. ASSUME NEW q \in Request, NEW f \in Entity
      PROVE  /\ By(q, f)' <=> q # r /\ By(q, f)
             /\ q # r => request'[q] = request[q]
             /\ By(r, f) <=> f = e
  BY <1>1, <1>2 DEF By, TypeOK
<1>5. ASSUME NEW f \in Entity, f # e
      PROVE  (Requested(f)' <=> Requested(f)) /\ row'[f] = row[f]
  BY <1>2, <1>4, <1>5 DEF Requested, By, TypeOK
<1>6. By(r, e) /\ Requested(e) /\ row'[e] = request[r].edit
  BY <1>2, <1>4 DEF Requested, By, TypeOK
<1>7. ASSUME NEW f \in Entity \ Suspect' PROVE Copies(f)'
  <2>1. Copies(f)
    BY <1>3 DEF Inv, CopiesInv
  <2>2. CASE f = e
    <3>1. ~Aggregating /\ Copied(e) /\ OneRequest(e)
      BY <2>1, <2>2, <1>6 DEF Copies, Gathered
    <3>2. ~Requested(e)'
      BY <3>1, <1>4, RequestedIsBy DEF OneRequest, Requested, By
    <3> QED
      BY <2>2, <3>1, <3>2, <1>2, <1>4, <1>6 DEF Copies, Copied, OneRequest, Aggregating
  <2>3. CASE f # e
    BY <2>1, <2>3, <1>2, <1>4, <1>5
    DEF Copies, OneRequest, Gathered, Copied, Aggregating, PrunePending
  <2> QED
    BY <2>2, <2>3
<1>8. ASSUME NEW f \in Entity \ raced' PROVE FollowUp(f)'
  <2>1. FollowUp(f)
    BY <1>3 DEF Inv, FollowUpInv
  <2>2. CASE f = e
    <3>1. OneRequest(e)
      BY <2>2, <1>3, SuspectRaced DEF Inv, CopiesInv, Copies
    <3>2. \A q \in Request : ~By(q, e)'
      BY <3>1, <1>4 DEF OneRequest
    <3>3. ~PrunePending(e)'
      BY <2>1, <2>2, <1>2, <1>6 DEF FollowUp, Vanishing, PrunePending
    <3>4. /\ indexing[e] \subseteq {request[r].edit}
          /\ document[e] = request[r].edit \/ IndexDue(e)
      BY <2>1, <2>2, <1>2, <1>6 DEF FollowUp, Written
    <3>5. Settled(e)'
      BY <3>4, <1>2, <1>6, NoneIsNoEdit DEF Settled, IndexDue, HasJob
    <3> QED
      BY <2>2, <3>2, <3>3, <3>5 DEF FollowUp, Vanishing, Leaving, Written
  <2>3. CASE f # e
    BY <2>1, <2>3, <1>2, <1>4, <1>5
    DEF FollowUp, Vanishing, Leaving, Settled, Written, Gone, NotFollowedUp, HasJob,
        PrunePending, IndexDue
  <2> QED
    BY <2>2, <2>3
<1> QED
  BY <1>3, <1>7, <1>8 DEF Inv, CopiesInv, FollowUpInv

\* The entity of a failed request is no longer looked at.
LEMMA FailRequestKeeps ==
  ASSUME TypeOK, Inv, NEW r \in Request, FailRequest(r)
  PROVE  Inv'
<1>1. PICK e \in Entity : e = request[r].entity
  BY RequestCases DEF FailRequest, Idle
<1>2. /\ request' = [request EXCEPT ![r] = Idle] /\ request[r] # Idle
      /\ UNCHANGED <<row, fragment, named, derived, document, jobs, indexing, reindex>>
  BY DEF FailRequest, queue, stores
<1>3. overlap' \subseteq raced' /\ raced' = raced \cup {e} /\ Suspect' = Suspect \cup {e}
  BY <1>1, <1>2, RaceGrows DEF FailRequest, Inv
<1>4. ASSUME NEW q \in Request, NEW f \in Entity, f # e
      PROVE  /\ By(q, f)' <=> By(q, f)
             /\ By(q, f) => request'[q] = request[q]
  BY <1>1, <1>2, <1>4 DEF By, TypeOK
<1>5. ASSUME NEW f \in Entity, f # e PROVE Requested(f)' <=> Requested(f)
  BY <1>4, <1>5 DEF Requested, By
<1>6. ASSUME NEW f \in Entity \ Suspect' PROVE Copies(f)'
  <2>1. f # e /\ Copies(f)
    BY <1>3 DEF Inv, CopiesInv
  <2> QED
    BY <2>1, <1>2, <1>4, <1>5
    DEF Copies, OneRequest, Gathered, Copied, Aggregating, PrunePending
<1>7. ASSUME NEW f \in Entity \ raced' PROVE FollowUp(f)'
  <2>1. f # e /\ FollowUp(f)
    BY <1>3 DEF Inv, FollowUpInv
  <2> QED
    BY <2>1, <1>2, <1>4, <1>5
    DEF FollowUp, Vanishing, Leaving, Settled, Written, Gone, NotFollowedUp, HasJob,
        PrunePending, IndexDue
<1> QED
  BY <1>3, <1>6, <1>7 DEF Inv, CopiesInv, FollowUpInv

\* Steps that leave the requests alone.
LEMMA RequestsKept ==
  ASSUME UNCHANGED request
  PROVE  /\ \A r, f : By(r, f)' <=> By(r, f)
         /\ \A f : Requested(f)' <=> Requested(f)
         /\ \A f : OneRequest(f)' <=> OneRequest(f)
  BY DEF By, Requested, OneRequest

\* An entity that is deleted with nothing else going on is leaving.
LEMMA DeleteKeeps ==
  ASSUME TypeOK, Inv, NEW r \in Request, NEW e \in Entity, Delete(r, e)
  PROVE  Inv'
<1> DEFINE E == IF Overlapped(e) THEN {e} ELSE {}
<1>1. /\ request' = [request EXCEPT ![r] = [pc |-> "deleting", entity |-> e]]
      /\ document' = [document EXCEPT ![e] = None]
      /\ UNCHANGED <<row, fragment, named, derived, jobs, indexing, reindex>>
      /\ Race(E)
  BY DEF Delete, queue
<1>2. overlap' \subseteq raced' /\ raced' = raced \cup E /\ Suspect' = Suspect \cup E
  BY <1>1, RaceGrows DEF Inv
<1>3. ASSUME NEW q \in Request, NEW f \in Entity
      PROVE  /\ By(q, f)' <=> IF q = r THEN f = e ELSE By(q, f)
             /\ q # r => request'[q] = request[q]
             /\ ~By(r, f)
  BY DEF Delete, By, Idle, TypeOK
<1>4. request'[r].pc = "deleting"
  BY <1>1 DEF TypeOK
<1>5. ASSUME NEW f \in Entity, f # e PROVE Requested(f)' <=> Requested(f)
  BY <1>3, <1>5 DEF Requested, By
<1>6. \A f : PrunePending(f)' <=> PrunePending(f)
  BY <1>1 DEF PrunePending
<1>7. ASSUME e \notin E PROVE Copies(e)' /\ FollowUp(e)'
  <2>1. ~Requested(e) /\ indexing[e] = {} /\ (\A j \in jobs : j.entity # e) /\ reindex = Idle
    BY <1>7 DEF Overlapped, Queued
  <2>2. Requested(e)' /\ \A q \in Request : By(q, e)' => q = r
    BY <1>3, <2>1, RequestedIsBy DEF Requested, By
  <2>3. ~PrunePending(e) /\ NotFollowedUp(e) /\ ~IndexDue(e) /\ ~Aggregating
    BY <2>1 DEF PrunePending, NotFollowedUp, IndexDue, HasJob, Aggregating, Idle
  <2>4. Copies(e)'
    BY <2>2, <2>3, <1>1, <1>4 DEF Copies, Copied, OneRequest, Aggregating
  <2>5. Gone(e)' /\ ~IndexDue(e)' /\ ~PrunePending(e)'
    BY <2>1, <2>3, <1>1, <1>6 DEF Gone, NotFollowedUp, HasJob, IndexDue, TypeOK
  <2>6. FollowUp(e)'
    BY <2>2, <2>5, <1>4 DEF FollowUp, Vanishing, Leaving, Settled, Written
  <2> QED
    BY <2>4, <2>6
<1>8. ASSUME NEW f \in Entity \ Suspect' PROVE Copies(f)'
  <2>1. f \notin E /\ Copies(f)
    BY <1>2 DEF Inv, CopiesInv
  <2>2. CASE f # e
    BY <2>1, <2>2, <1>1, <1>3, <1>5, <1>6
    DEF Copies, OneRequest, Gathered, Copied, Aggregating
  <2> QED
    BY <2>1, <2>2, <1>7 DEF Copies
<1>9. ASSUME NEW f \in Entity \ raced' PROVE FollowUp(f)'
  <2>1. f \notin E /\ FollowUp(f)
    BY <1>2 DEF Inv, FollowUpInv
  <2>2. CASE f # e
    <3>1. document'[f] = document[f]
      BY <2>2, <1>1 DEF TypeOK
    <3> QED
      BY <2>1, <2>2, <3>1, <1>1, <1>3, <1>5, <1>6
      DEF FollowUp, Vanishing, Leaving, Settled, Written, Gone, NotFollowedUp, HasJob,
          IndexDue
  <2> QED
    BY <2>1, <2>2, <1>7 DEF FollowUp
<1> QED
  BY <1>2, <1>8, <1>9 DEF Inv, CopiesInv, FollowUpInv

\* When the job is queued it is vanishing.
LEMMA QueuePruneKeeps ==
  ASSUME TypeOK, Inv, NEW r \in Request, QueuePrune(r)
  PROVE  Inv'
<1>1. PICK e \in Entity : e = request[r].entity
  BY RequestCases DEF QueuePrune, Idle
<1>2. /\ request[r].pc = "deleting" /\ request[r] # Idle
      /\ request' = [request EXCEPT ![r] = Idle]
      /\ jobs' = jobs \cup {[op |-> "prune", entity |-> e]}
      /\ UNCHANGED <<row, fragment, named, derived, document, indexing, reindex>>
  BY <1>1 DEF QueuePrune, Enqueue, stores, Idle
<1>3. overlap' \subseteq raced' /\ raced' = raced /\ Suspect' = Suspect
  BY <1>2, NoRaceKeeps DEF QueuePrune, Inv
<1>4. ASSUME NEW q \in Request, NEW f \in Entity
      PROVE  /\ By(q, f)' <=> q # r /\ By(q, f)
             /\ q # r => request'[q] = request[q]
             /\ By(r, f) <=> f = e
  BY <1>1, <1>2 DEF By, TypeOK
<1>5. ASSUME NEW f \in Entity, f # e PROVE Requested(f)' <=> Requested(f)
  BY <1>4, <1>5 DEF Requested, By
<1>6. By(r, e) /\ Requested(e)
  BY <1>2, <1>4 DEF Requested, By
<1>7. ASSUME NEW op, NEW f, f # e \/ op # "prune" PROVE HasJob(op, f)' <=> HasJob(op, f)
  BY <1>2, <1>7 DEF HasJob
<1>8. PrunePending(e)' /\ \A f : f # e => (PrunePending(f)' <=> PrunePending(f))
  BY <1>2 DEF PrunePending
<1>9. ASSUME NEW f \in Entity \ Suspect' PROVE Copies(f)'
  <2>1. Copies(f)
    BY <1>3 DEF Inv, CopiesInv
  <2>2. CASE f = e
    <3>1. ~Aggregating /\ OneRequest(e)
      BY <2>1, <2>2, <1>6 DEF Copies, Gathered
    <3>2. \A q \in Request : ~By(q, e)'
      BY <3>1, <1>4, <1>6 DEF OneRequest
    <3> QED
      BY <2>2, <3>1, <3>2, <1>2, <1>8 DEF Copies, Copied, OneRequest, Aggregating
  <2>3. CASE f # e
    BY <2>1, <2>3, <1>2, <1>4, <1>5, <1>8
    DEF Copies, OneRequest, Gathered, Copied, Aggregating
  <2> QED
    BY <2>2, <2>3
<1>10. ASSUME NEW f \in Entity \ raced' PROVE FollowUp(f)'
  <2>1. FollowUp(f)
    BY <1>3 DEF Inv, FollowUpInv
  <2>2. CASE f = e
    <3>1. OneRequest(e)
      BY <2>2, <1>3, SuspectRaced DEF Inv, CopiesInv, Copies
    <3>2. \A q \in Request : ~By(q, e)'
      BY <3>1, <1>4, <1>6 DEF OneRequest
    <3>3. ~Requested(e)'
      BY <3>2, RequestedIsBy DEF Requested, By
    <3>4. Gone(e)
      BY <2>1, <2>2, <1>2, <1>6 DEF FollowUp, Leaving
    <3>5. Gone(e)'
      BY <3>4, <1>2, <1>7 DEF Gone, NotFollowedUp
    <3> QED
      BY <2>2, <3>2, <3>3, <3>5, <1>8
      DEF FollowUp, Vanishing, Leaving, Settled, Written
  <2>3. CASE f # e
    BY <2>1, <2>3, <1>2, <1>4, <1>5, <1>7, <1>8
    DEF FollowUp, Vanishing, Leaving, Settled, Written, Gone, NotFollowedUp, IndexDue
  <2> QED
    BY <2>2, <2>3
<1> QED
  BY <1>3, <1>9, <1>10 DEF Inv, CopiesInv, FollowUpInv

\* A prune, as far as it gets: what it takes with it is vanishing as well.
LEMMA Pruned ==
  ASSUME TypeOK, Inv, NEW e \in Entity, PrunePending(e),
         NEW gone \in SUBSET Adjacent(e), NEW queued \in SUBSET gone, NEW E, Race(E),
         {a \in gone : Overlapped(a)} \cup (gone \ queued) \cup
           (IF Requested(e) \/ Aggregating THEN {e} ELSE {}) \subseteq E,
         WithoutDocuments(gone),
         \/ /\ DropFragments(e) /\ row' = [row EXCEPT ![e] = None]
            /\ jobs' = (jobs \ {[op |-> "prune", entity |-> e]}) \cup Enqueue("prune", queued)
         \/ /\ DropFragments(e) \/ UNCHANGED <<fragment, named, derived>>
            /\ row' \in {row, [row EXCEPT ![e] = None]}
            /\ jobs' = jobs \cup Enqueue("prune", queued),
         UNCHANGED <<request, indexing, reindex>>
  PROVE  Inv'
<1>1. /\ gone \subseteq Entity /\ e \notin gone
      /\ document' = [a \in Entity |-> IF a \in gone THEN None ELSE document[a]]
  BY DEF Adjacent, WithoutDocuments
<1>2. overlap' \subseteq raced' /\ raced' = raced \cup E /\ Suspect' = Suspect \cup E
  BY RaceGrows DEF Inv
<1>3. \/ PrunePending(e)'
      \/ row'[e] = None /\ fragment'[e] = None /\ e \notin named' \cup derived'
  BY DEF PrunePending, DropFragments, TypeOK
<1>4. ASSUME NEW op, NEW f, op # "prune" PROVE HasJob(op, f)' <=> HasJob(op, f)
  BY <1>4 DEF HasJob, Enqueue
<1>5. ASSUME NEW f, f # e PROVE PrunePending(f)' <=> PrunePending(f) \/ f \in queued
  BY <1>5 DEF PrunePending, Enqueue
<1>6. ASSUME NEW f \in Entity, f # e
      PROVE  /\ row'[f] = row[f] /\ fragment'[f] = fragment[f]
             /\ (f \in named' \cup derived' <=> f \in named \cup derived)
  BY <1>6 DEF DropFragments, TypeOK
<1>7. /\ \A r, f : By(r, f)' <=> By(r, f)
      /\ \A f : Requested(f)' <=> Requested(f)
      /\ \A f : OneRequest(f)' <=> OneRequest(f)
  BY RequestsKept
<1>8. ASSUME NEW f \in Entity \ Suspect' PROVE Copies(f)'
  <2>1. f \notin E /\ Copies(f)
    BY <1>2 DEF Inv, CopiesInv
  <2>2. CASE f = e
    <3>1. ~Requested(e) /\ ~Aggregating
      BY <2>1, <2>2
    <3>2. \A r \in Request : ~By(r, e)
      BY <3>1, RequestedIsBy
    <3> QED
      BY <2>1, <2>2, <3>1, <3>2, <1>3, <1>7 DEF Copies, Copied, Aggregating
  <2>3. CASE f # e
    BY <2>1, <2>3, <1>5, <1>6, <1>7 DEF Copies, Gathered, Copied, Aggregating
  <2> QED
    BY <2>2, <2>3
<1>9. ASSUME NEW f \in Entity \ raced' PROVE FollowUp(f)'
  <2>1. f \notin E /\ FollowUp(f)
    BY <1>2 DEF Inv, FollowUpInv
  <2>2. CASE f = e
    <3>1. ~Requested(e) /\ Gone(e)
      BY <2>1, <2>2 DEF FollowUp, Vanishing
    <3>2. Gone(e)'
      BY <3>1, <1>1, <1>4 DEF Gone, NotFollowedUp
    <3>3. \A r \in Request : ~By(r, e)'
      BY <3>1, <1>7, RequestedIsBy
    <3> QED
      BY <2>2, <3>1, <3>2, <3>3, <1>3, <1>7
      DEF FollowUp, Vanishing, Leaving, Settled, Written, Gone
  <2>3. CASE f \in gone
    <3>1. ~Requested(f) /\ indexing[f] = {} /\ \A j \in jobs : j.entity # f
      BY <2>1, <2>3 DEF Overlapped, Queued
    <3>2. NotFollowedUp(f)
      BY <3>1 DEF NotFollowedUp, HasJob
    <3>3. NotFollowedUp(f)'
      BY <3>2, <1>4 DEF NotFollowedUp
    <3>4. PrunePending(f)' /\ document'[f] = None
      BY <2>1, <2>3, <1>1, <1>5
    <3>5. \A r \in Request : ~By(r, f)'
      BY <3>1, <1>7, RequestedIsBy
    <3> QED
      BY <3>1, <3>3, <3>4, <3>5, <1>7
      DEF FollowUp, Vanishing, Leaving, Settled, Written, Gone
  <2>4. CASE f # e /\ f \notin gone
    <3>1. document'[f] = document[f]
      BY <2>4, <1>1
    <3> QED
      BY <2>1, <2>4, <3>1, <1>4, <1>5, <1>6, <1>7
      DEF FollowUp, Vanishing, Leaving, Settled, Written, Gone, NotFollowedUp, IndexDue
  <2> QED
    BY <2>2, <2>3, <2>4
<1> QED
  BY <1>2, <1>8, <1>9 DEF Inv, CopiesInv, FollowUpInv

\* A prune that gets to its commit.
LEMMA PruneKeeps ==
  ASSUME TypeOK, Inv, NEW e \in Entity, Prune(e)
  PROVE  Inv'
<1> DEFINE A == Adjacent(e)
           E == {a \in A : Overlapped(a)} \cup
                (IF Requested(e) \/ Aggregating THEN {e} ELSE {})
<1>1. PrunePending(e) /\ Race(E) /\ WithoutDocuments(A) /\ UNCHANGED <<request, indexing, reindex>>
  BY DEF Prune
<1>2. /\ DropFragments(e) /\ row' = [row EXCEPT ![e] = None]
      /\ \/ jobs' = (jobs \ {[op |-> "prune", entity |-> e]}) \cup Enqueue("prune", A)
         \/ jobs' = jobs \cup Enqueue("prune", A)
  BY DEF Prune
<1>3. A \in SUBSET Adjacent(e) /\ A \in SUBSET A
  OBVIOUS
<1>4. {a \in A : Overlapped(a)} \cup (A \ A) \cup
        (IF Requested(e) \/ Aggregating THEN {e} ELSE {}) \subseteq E
  OBVIOUS
<1> HIDE DEF A, E
<1> QED
  BY <1>1, <1>2, <1>3, <1>4, Pruned

\* A prune that dies before it: it is tried again.
LEMMA PruneDiesKeeps ==
  ASSUME TypeOK, Inv, NEW e \in Entity, PruneDies(e)
  PROVE  Inv'
<1> DEFINE E(gone, queued) == {a \in gone : Overlapped(a)} \cup (gone \ queued) \cup
             (IF Requested(e) \/ Aggregating THEN {e} ELSE {})
<1>1. PICK gone \in SUBSET Adjacent(e), queued \in SUBSET Adjacent(e) :
        /\ queued \in SUBSET gone
        /\ WithoutDocuments(gone)
        /\ jobs' = jobs \cup Enqueue("prune", queued)
        /\ DropFragments(e) \/ UNCHANGED <<fragment, named, derived>>
        /\ Race(E(gone, queued))
  BY DEF PruneDies
<1>2. PrunePending(e) /\ UNCHANGED <<row, request, indexing, reindex>>
  BY DEF PruneDies
<1>3. E(gone, queued) \subseteq E(gone, queued)
  OBVIOUS
<1> QED
  BY <1>1, <1>2, <1>3, Pruned

\* Jobs of other kinds than prune leave rows and fragments of the model alone.
LEMMA CopiesKept ==
  ASSUME UNCHANGED <<row, fragment, request, reindex>>, Suspect \subseteq Suspect',
         \A e : PrunePending(e)' <=> PrunePending(e)
  PROVE  CopiesInv => CopiesInv'
<1>1. /\ \A r, f : By(r, f)' <=> By(r, f)
      /\ \A f : Requested(f)' <=> Requested(f)
      /\ \A f : OneRequest(f)' <=> OneRequest(f)
  BY RequestsKept
<1>2. \A f : Copies(f) => Copies(f)'
  BY <1>1 DEF Copies, Gathered, Copied, Aggregating
<1> QED
  BY <1>2 DEF CopiesInv

\* The job of an entity that is gone is none.
LEMMA UpdateKeeps ==
  ASSUME TypeOK, Inv, NEW e \in Entity, Update(e)
  PROVE  Inv'
<1> DEFINE update == [op |-> "update", entity |-> e]
           next == IF document[e] = None THEN {} ELSE Enqueue("analyze", {e})
<1>1. /\ update \in jobs
      /\ jobs' = (jobs \ {update}) \cup next \/ jobs' \in {jobs, jobs \cup next}
      /\ \A f : f # e => (f \in named' <=> f \in named)
      /\ UNCHANGED <<row, fragment, derived, document, request, indexing, reindex>>
  BY DEF Update, Done, stores
<1>2. overlap' \subseteq raced' /\ raced' = raced /\ Suspect' = Suspect
  BY <1>1, NoRaceKeeps DEF Update, Inv
<1>3. ASSUME NEW op, NEW f, f # e \/ op \in {"index", "prune"}
      PROVE  HasJob(op, f)' <=> HasJob(op, f)
  BY <1>1, <1>3 DEF HasJob, Enqueue
<1>4. \A f : PrunePending(f)' <=> PrunePending(f)
  BY <1>3 DEF PrunePending, HasJob
<1>5. /\ \A r, f : By(r, f)' <=> By(r, f)
      /\ \A f : Requested(f)' <=> Requested(f)
  BY <1>1, RequestsKept
<1>6. CopiesInv'
  BY <1>1, <1>2, <1>4, CopiesKept DEF Inv
<1>7. ASSUME NEW f \in Entity \ raced' PROVE FollowUp(f)'
  <2>1. FollowUp(f)
    BY <1>2 DEF Inv, FollowUpInv
  <2>2. NotFollowedUp(f) => f # e
    BY <1>1 DEF NotFollowedUp, HasJob
  <2>3. NotFollowedUp(f) => NotFollowedUp(f)' /\ (f \in named' <=> f \in named)
    BY <2>2, <1>1, <1>3 DEF NotFollowedUp
  <2> QED
    BY <2>1, <2>3, <1>1, <1>3, <1>4, <1>5
    DEF FollowUp, Vanishing, Leaving, Settled, Written, Gone, IndexDue
<1> QED
  BY <1>2, <1>6, <1>7 DEF Inv, FollowUpInv

\* An analysis adds fragments to an entity that has a row or a request.
LEMMA AnalyzeKeeps ==
  ASSUME TypeOK, Inv, NEW e \in Entity, Analyze(e)
  PROVE  Inv'
<1> DEFINE analyze == [op |-> "analyze", entity |-> e]
           index == [op |-> "index", entity |-> e]
<1>1. /\ analyze \in jobs
      /\ jobs' = (jobs \ {analyze}) \cup {index} \/ jobs' \in {jobs, jobs \cup {index}}
      /\ derived' = derived \cup {e}
      /\ UNCHANGED <<row, fragment, named, document, request, indexing, reindex>>
  BY DEF Analyze, Done, Enqueue
<1>2. overlap' \subseteq raced' /\ raced' = raced /\ Suspect' = Suspect
  BY <1>1, NoRaceKeeps DEF Analyze, Inv
<1>3. ASSUME NEW op, NEW f, f # e \/ op \in {"update", "prune"}
      PROVE  HasJob(op, f)' <=> HasJob(op, f)
  BY <1>1, <1>3 DEF HasJob
<1>4. \A f : PrunePending(f)' <=> PrunePending(f)
  BY <1>3 DEF PrunePending, HasJob
<1>5. /\ \A r, f : By(r, f)' <=> By(r, f)
      /\ \A f : Requested(f)' <=> Requested(f)
  BY <1>1, RequestsKept
<1>6. CopiesInv'
  BY <1>1, <1>2, <1>4, CopiesKept DEF Inv
<1>7. ASSUME NEW f \in Entity \ raced' PROVE FollowUp(f)'
  <2>1. FollowUp(f)
    BY <1>2 DEF Inv, FollowUpInv
  <2>2. NotFollowedUp(f) => f # e
    BY <1>1 DEF NotFollowedUp, HasJob
  <2>3. NotFollowedUp(f) => /\ NotFollowedUp(f)' /\ (f \in derived' <=> f \in derived)
                            /\ HasJob("index", f)' <=> HasJob("index", f)
    BY <2>2, <1>1, <1>3 DEF NotFollowedUp
  <2>4. HasJob("index", f) => HasJob("index", f)'
    BY <1>1 DEF HasJob
  <2> QED
    BY <2>1, <2>3, <2>4, <1>1, <1>4, <1>5
    DEF FollowUp, Vanishing, Leaving, Settled, Written, Gone, IndexDue
<1> QED
  BY <1>2, <1>6, <1>7 DEF Inv, FollowUpInv

\* What is read is the row, or the edit of the request.
LEMMA IndexReadKeeps ==
  ASSUME TypeOK, Inv, NEW e \in Entity, IndexRead(e)
  PROVE  Inv'
<1> DEFINE index == [op |-> "index", entity |-> e]
           read == IF fragment[e] # None THEN fragment[e] ELSE Extracted
           E == IF PrunePending(e) \/ Aggregating \/ Emptied(e) THEN {e} ELSE {}
<1>1. /\ index \in jobs /\ jobs' = jobs \ {index} /\ HasFragments(e)
      /\ indexing' = [indexing EXCEPT ![e] = @ \cup {read}]
      /\ UNCHANGED <<row, fragment, named, derived, document, request, reindex>>
      /\ Race(E)
  BY DEF IndexRead, stores
<1>2. overlap' \subseteq raced' /\ raced' = raced \cup E /\ Suspect' = Suspect \cup E
  BY <1>1, RaceGrows DEF Inv
<1>3. ASSUME NEW op, NEW f, f # e \/ op # "index" PROVE HasJob(op, f)' <=> HasJob(op, f)
  BY <1>1, <1>3 DEF HasJob
<1>4. \A f : PrunePending(f)' <=> PrunePending(f)
  BY <1>3 DEF PrunePending, HasJob
<1>5. /\ \A r, f : By(r, f)' <=> By(r, f)
      /\ \A f : Requested(f)' <=> Requested(f)
  BY <1>1, RequestsKept
<1>6. CopiesInv'
  BY <1>1, <1>2, <1>4, CopiesKept DEF Inv
<1>7. ASSUME NEW f \in Entity \ raced' PROVE FollowUp(f)'
  <2>1. f \notin E /\ FollowUp(f)
    BY <1>2 DEF Inv, FollowUpInv
  <2>2. CASE f = e
    <3>1. ~PrunePending(e) /\ ~Aggregating /\ ~Emptied(e)
      BY <2>1, <2>2
    <3>2. Copied(e) /\ OneRequest(e)
      BY <2>2, <3>1, <1>2, SuspectRaced DEF Inv, CopiesInv, Copies
    <3>3. indexing'[e] = indexing[e] \cup {read}
      BY <1>1 DEF TypeOK
    <3>4. CASE Requested(e)
      <4>1. PICK r \in Request : By(r, e)
        BY <3>4, RequestedIsBy
      <4>2. request[r].pc # "deleting"
        BY <2>1, <2>2, <4>1, <1>1 DEF FollowUp, Leaving, IndexDue, HasJob
      <4>3. request[r].pc \in {"fragments", "indexed"} /\ request[r].edit \in Edit
        BY <3>1, <4>1, <4>2, RequestCases DEF By, Emptied
      <4>4. read = request[r].edit /\ indexing[e] \subseteq {request[r].edit}
        BY <2>1, <2>2, <3>2, <4>1, <4>3, NoneIsNoEdit DEF Copied, FollowUp, Written
      <4>5. indexing'[e] \subseteq {request[r].edit} /\ IndexDue(e)'
        BY <3>3, <4>4 DEF IndexDue
      <4>6. \A q \in Request : By(q, e)' => q = r
        BY <3>2, <4>1, <1>5 DEF OneRequest
      <4> QED
        BY <2>2, <3>1, <3>4, <4>2, <4>5, <4>6, <1>1, <1>4, <1>5
        DEF FollowUp, Vanishing, Leaving, Settled, Written
    <3>5. CASE ~Requested(e)
      <4>1. fragment[e] = row[e] /\ (row[e] = None => e \notin named \cup derived)
        BY <2>1, <2>2, <3>1, <3>2, <3>5 DEF Copied, FollowUp, Settled
      <4>2. row[e] # None /\ read = row[e]
        BY <4>1, <1>1 DEF HasFragments
      <4>3. indexing'[e] \subseteq {row[e]} /\ indexing'[e] # {}
        BY <2>1, <2>2, <3>1, <3>3, <3>5, <4>2 DEF FollowUp, Settled
      <4>4. \A q \in Request : ~By(q, e)'
        BY <3>5, <1>5, RequestedIsBy
      <4> QED
        BY <2>2, <3>1, <4>2, <4>3, <4>4, <1>1, <1>4
        DEF FollowUp, Vanishing, Leaving, Settled, Written, IndexDue
    <3> QED
      BY <3>4, <3>5
  <2>3. CASE f # e
    <3>1. indexing'[f] = indexing[f] /\ \A op : HasJob(op, f)' <=> HasJob(op, f)
      BY <2>3, <1>1, <1>3 DEF TypeOK
    <3> QED
      BY <2>1, <3>1, <1>1, <1>4, <1>5
      DEF FollowUp, Vanishing, Leaving, Settled, Written, Gone, NotFollowedUp, IndexDue
  <2> QED
    BY <2>2, <2>3
<1> QED
  BY <1>2, <1>6, <1>7 DEF Inv, FollowUpInv

\* An entity without fragments has no row, unless its rows are being aggregated.
LEMMA IndexNothingKeeps ==
  ASSUME TypeOK, Inv, NEW e \in Entity, IndexNothing(e)
  PROVE  Inv'
<1> DEFINE index == [op |-> "index", entity |-> e]
<1>1. /\ index \in jobs /\ jobs' \in {jobs, jobs \ {index}} /\ ~HasFragments(e)
      /\ UNCHANGED <<row, fragment, named, derived, document, request, indexing, reindex>>
  BY DEF IndexNothing, Done, stores
<1>2. overlap' \subseteq raced' /\ raced' = raced /\ Suspect' = Suspect
  BY <1>1, NoRaceKeeps DEF IndexNothing, Inv
<1>3. ASSUME NEW op, NEW f, f # e \/ op # "index" PROVE HasJob(op, f)' <=> HasJob(op, f)
  BY <1>1, <1>3 DEF HasJob
<1>4. \A f : PrunePending(f)' <=> PrunePending(f)
  BY <1>3 DEF PrunePending, HasJob
<1>5. /\ \A r, f : By(r, f)' <=> By(r, f)
      /\ \A f : Requested(f)' <=> Requested(f)
  BY <1>1, RequestsKept
<1>6. CopiesInv'
  BY <1>1, <1>2, <1>4, CopiesKept DEF Inv
<1>7. ASSUME NEW f \in Entity \ raced' PROVE FollowUp(f)'
  <2>1. FollowUp(f)
    BY <1>2 DEF Inv, FollowUpInv
  <2>2. CASE f = e
    <3>1. Aggregating => IndexDue(e)'
      BY <1>1 DEF IndexDue, Aggregating, Idle
    <3>2. ~Aggregating => Copied(e)
      BY <2>2, <1>2, SuspectRaced DEF Inv, CopiesInv, Copies
    <3>3. ~Aggregating /\ ~PrunePending(e) /\ ~Requested(e) => row[e] = None
      BY <3>2, <1>1 DEF Copied, HasFragments
    <3>4. ASSUME NEW r \in Request, By(r, e)
          PROVE  request[r].pc # "deleting" /\ (Aggregating \/ request[r].pc = "emptied")
      <4>1. request[r].pc # "deleting"
        BY <2>1, <2>2, <3>4, <1>1 DEF FollowUp, Leaving, IndexDue, HasJob
      <4>2. request[r].pc \in {"emptied", "fragments", "indexed"} /\ request[r].edit \in Edit
        BY <3>4, <4>1, RequestCases DEF By
      <4>3. ~Aggregating /\ request[r].pc \in {"fragments", "indexed"} =>
              fragment[e] = request[r].edit
        BY <3>2, <3>4 DEF Copied
      <4> QED
        BY <4>1, <4>2, <4>3, <1>1, NoneIsNoEdit DEF HasFragments
    <3>5. NotFollowedUp(e)' <=> NotFollowedUp(e)
      BY <1>3 DEF NotFollowedUp
    <3> QED
      BY <2>1, <2>2, <3>1, <3>3, <3>4, <3>5, <1>1, <1>4, <1>5, RequestedIsBy
      DEF FollowUp, Vanishing, Leaving, Settled, Written, Gone
  <2>3. CASE f # e
    BY <2>1, <2>3, <1>1, <1>3, <1>4, <1>5
    DEF FollowUp, Vanishing, Leaving, Settled, Written, Gone, NotFollowedUp, IndexDue
  <2> QED
    BY <2>2, <2>3
<1> QED
  BY <1>2, <1>6, <1>7 DEF Inv, FollowUpInv

\* What is written was read, and a job that dies is queued again.
LEMMA IndexWriteKeeps ==
  ASSUME TypeOK, Inv, NEW e \in Entity, IndexWrite(e)
  PROVE  Inv'
<1> DEFINE index == [op |-> "index", entity |-> e]
<1>1. PICK read \in indexing[e] :
        /\ indexing' = [indexing EXCEPT ![e] = @ \ {read}]
        /\ \/ document' = [document EXCEPT ![e] = read] /\ jobs' = jobs
           \/ /\ document' \in {document, [document EXCEPT ![e] = read]}
              /\ jobs' = jobs \cup {index}
        /\ UNCHANGED <<row, fragment, named, derived, request, reindex>>
  BY DEF IndexWrite, Enqueue
<1>2. overlap' \subseteq raced' /\ raced' = raced /\ Suspect' = Suspect
  BY <1>1, NoRaceKeeps DEF IndexWrite, Inv
<1>3. ASSUME NEW op, NEW f, f # e \/ op # "index" PROVE HasJob(op, f)' <=> HasJob(op, f)
  BY <1>1, <1>3 DEF HasJob
<1>4. \A f : PrunePending(f)' <=> PrunePending(f)
  BY <1>3 DEF PrunePending, HasJob
<1>5. /\ \A r, f : By(r, f)' <=> By(r, f)
      /\ \A f : Requested(f)' <=> Requested(f)
  BY <1>1, RequestsKept
<1>6. CopiesInv'
  BY <1>1, <1>2, <1>4, CopiesKept DEF Inv
<1>7. ASSUME NEW f \in Entity \ raced' PROVE FollowUp(f)'
  <2>1. FollowUp(f)
    BY <1>2 DEF Inv, FollowUpInv
  <2>2. CASE f = e
    <3>1. /\ indexing'[e] = indexing[e] \ {read}
          /\ document'[e] = read \/ HasJob("index", e)'
      BY <1>1 DEF TypeOK, HasJob
    <3>2. ~Gone(e)
      BY DEF Gone
    <3> QED
      BY <2>1, <2>2, <3>1, <3>2, <1>1, <1>4, <1>5
      DEF FollowUp, Vanishing, Leaving, Settled, Written, IndexDue
  <2>3. CASE f # e
    <3>1. document'[f] = document[f] /\ indexing'[f] = indexing[f]
      BY <2>3, <1>1 DEF TypeOK
    <3> QED
      BY <2>1, <2>3, <3>1, <1>1, <1>3, <1>4, <1>5
      DEF FollowUp, Vanishing, Leaving, Settled, Written, Gone, NotFollowedUp, IndexDue
  <2> QED
    BY <2>2, <2>3
<1> QED
  BY <1>2, <1>6, <1>7 DEF Inv, FollowUpInv

\* All is to be aggregated, but for what requests are at work on.
LEMMA StartReindexKeeps ==
  ASSUME TypeOK, Inv, NEW flush \in BOOLEAN, StartReindex(flush)
  PROVE  Inv'
<1>1. /\ fragment' = Nothing /\ named' = {}
      /\ reindex' = [pc |-> "model", flush |-> flush, todo |-> row, bulk |-> Nothing]
      /\ UNCHANGED <<row, derived, document, request, jobs, indexing>>
      /\ overlap' = {e \in Entity : Requested(e)} /\ raced' = raced \cup overlap'
  BY DEF StartReindex, BeginReindex, queue
<1>2. Aggregating' /\ Suspect' = overlap' /\ reindex' # Idle
  BY <1>1 DEF Suspect, ModelPhase, Aggregating, Idle
<1>3. /\ \A r, f : By(r, f)' <=> By(r, f)
      /\ \A f : Requested(f)' <=> Requested(f)
  BY <1>1, RequestsKept
<1>4. ASSUME NEW f \in Entity \ Suspect' PROVE Copies(f)'
  <2>1. ~Requested(f)' /\ fragment'[f] = None
    BY <1>1, <1>2, <1>3 DEF Nothing
  <2>2. reindex'.todo[f] = row'[f] /\ reindex'.bulk[f] = None
    BY <1>1 DEF Nothing
  <2>3. OneRequest(f)'
    BY <2>1, RequestedIsBy, <1>3 DEF OneRequest
  <2> QED
    BY <2>1, <2>2, <2>3, <1>2 DEF Copies, Gathered
<1>5. ASSUME NEW f \in Entity \ raced' PROVE FollowUp(f)'
  <2>1. FollowUp(f)
    BY <1>1 DEF Inv, FollowUpInv
  <2>2. \A r \in Request : ~By(r, f)
    BY <1>1, RequestedIsBy
  <2> QED
    BY <2>1, <2>2, <1>1, <1>2, <1>3
    DEF FollowUp, Vanishing, Leaving, Settled, Written, Gone, NotFollowedUp, HasJob,
        PrunePending, IndexDue
<1> QED
  BY <1>1, <1>4, <1>5 DEF Inv, CopiesInv, FollowUpInv

\* The fragments stay, and documents are due again.
LEMMA StartWithoutModelKeeps ==
  ASSUME TypeOK, Inv, NEW flush \in BOOLEAN, StartWithoutModel(flush)
  PROVE  Inv'
<1>1. /\ reindex = Idle
      /\ reindex' = [pc |-> "flush", flush |-> flush, model |-> FALSE]
      /\ UNCHANGED <<row, fragment, named, derived, document, request, jobs, indexing>>
      /\ overlap' = {e \in Entity : Requested(e)} /\ raced' = raced \cup overlap'
  BY DEF StartWithoutModel, BeginReindex, queue, stores
<1>2. ~Aggregating /\ ~Aggregating' /\ Suspect = raced /\ Suspect' = raced' /\ reindex' # Idle
  BY <1>1 DEF Suspect, ModelPhase, Aggregating, Idle
<1>3. /\ \A r, f : By(r, f)' <=> By(r, f)
      /\ \A f : Requested(f)' <=> Requested(f)
      /\ \A f : OneRequest(f)' <=> OneRequest(f)
  BY <1>1, RequestsKept
<1>4. ASSUME NEW f \in Entity \ Suspect' PROVE Copies(f)'
  <2>1. Copies(f)
    BY <1>1, <1>2 DEF Inv, CopiesInv
  <2> QED
    BY <2>1, <1>1, <1>2, <1>3 DEF Copies, Copied, PrunePending
<1>5. ASSUME NEW f \in Entity \ raced' PROVE FollowUp(f)'
  <2>1. FollowUp(f)
    BY <1>1 DEF Inv, FollowUpInv
  <2>2. \A r \in Request : ~By(r, f)
    BY <1>1, RequestedIsBy
  <2> QED
    BY <2>1, <2>2, <1>1, <1>2, <1>3
    DEF FollowUp, Vanishing, Leaving, Settled, Written, Gone, NotFollowedUp, HasJob,
        PrunePending, IndexDue
<1> QED
  BY <1>1, <1>4, <1>5 DEF Inv, CopiesInv, FollowUpInv

\* A row moves to the bulk.
LEMMA AggregateRowKeeps ==
  ASSUME TypeOK, Inv, NEW e \in Entity, AggregateRow(e)
  PROVE  Inv'
<1>1. /\ Aggregating
      /\ reindex.todo[e] # None
      /\ reindex' = [reindex EXCEPT !.todo = [reindex.todo EXCEPT ![e] = None],
                                    !.bulk = [reindex.bulk EXCEPT ![e] = reindex.todo[e]]]
      /\ fragment' = [fragment EXCEPT ![e] = None]
      /\ named' = named \ {e} /\ derived' = derived \ {e}
      /\ UNCHANGED <<row, document, request, jobs, indexing>>
      /\ overlap' = overlap /\ raced' = raced
  BY DEF AggregateRow, DropFragments, queue, NoRace, history
<1>2. /\ reindex'.pc = "model"
      /\ reindex'.todo = [reindex.todo EXCEPT ![e] = None]
      /\ reindex'.bulk = [reindex.bulk EXCEPT ![e] = reindex.todo[e]]
      /\ reindex.todo \in [Entity -> Edit \cup {None}]
      /\ reindex.bulk \in [Entity -> Edit \cup {None}]
  BY <1>1, ReindexCases DEF Aggregating
<1>3. /\ Aggregating' /\ Suspect = overlap /\ Suspect' = overlap'
      /\ reindex # Idle /\ reindex' # Idle
  <2>1. reindex.pc = "model" /\ reindex'.pc = "model"
    BY <1>1, <1>2 DEF Aggregating
  <2> QED
    BY <2>1 DEF Suspect, ModelPhase, Aggregating, Idle
<1>4. /\ \A r, f : By(r, f)' <=> By(r, f)
      /\ \A f : Requested(f)' <=> Requested(f)
      /\ \A f : OneRequest(f)' <=> OneRequest(f)
  BY <1>1, RequestsKept
<1>5. ASSUME NEW f \in Entity \ Suspect' PROVE Copies(f)'
  <2>1. Copies(f)
    BY <1>1, <1>3 DEF Inv, CopiesInv
  <2>2. Gathered(f)'
    <3>1. CASE f = e
      BY <2>1, <3>1, <1>1, <1>2, <1>4 DEF Copies, Gathered, TypeOK
    <3>2. CASE f # e
      BY <2>1, <3>2, <1>1, <1>2, <1>4 DEF Copies, Gathered, TypeOK
    <3> QED
      BY <3>1, <3>2
  <2> QED
    BY <2>1, <2>2, <1>3, <1>4 DEF Copies
<1>6. ASSUME NEW f \in Entity \ raced' PROVE FollowUp(f)'
  <2>1. FollowUp(f)
    BY <1>1 DEF Inv, FollowUpInv
  <2> QED
    BY <2>1, <1>1, <1>3, <1>4
    DEF FollowUp, Vanishing, Leaving, Settled, Written, Gone, NotFollowedUp, HasJob,
        PrunePending, IndexDue
<1> QED
  BY <1>1, <1>5, <1>6 DEF Inv, CopiesInv, FollowUpInv

\* The bulk makes the fragments equal to the rows.
LEMMA WriteBulkKeeps ==
  ASSUME TypeOK, Inv, WriteBulk
  PROVE  Inv'
<1>1. /\ Aggregating /\ reindex.todo = Nothing
      /\ fragment' = [e \in Entity |-> IF reindex.bulk[e] # None
                                       THEN reindex.bulk[e] ELSE fragment[e]]
      /\ reindex' = [pc |-> "flush", flush |-> reindex.flush, model |-> TRUE]
      /\ UNCHANGED <<row, named, derived, document, request, jobs, indexing>>
      /\ overlap' = overlap /\ raced' = raced
  BY DEF WriteBulk, queue, NoRace, history
<1>2. /\ ~Aggregating' /\ Suspect = overlap /\ Suspect' = overlap'
      /\ reindex # Idle /\ reindex' # Idle
  BY <1>1 DEF Suspect, ModelPhase, Aggregating, Idle
<1>3. /\ \A r, f : By(r, f)' <=> By(r, f)
      /\ \A f : Requested(f)' <=> Requested(f)
      /\ \A f : OneRequest(f)' <=> OneRequest(f)
  BY <1>1, RequestsKept
<1>4. ASSUME NEW f \in Entity \ Suspect' PROVE Copies(f)'
  <2>1. Copies(f) /\ Gathered(f)
    BY <1>1, <1>2 DEF Inv, CopiesInv, Copies
  <2>2. reindex.todo[f] = None
    BY <1>1 DEF Nothing
  <2>3. fragment'[f] = row[f]
    BY <2>1, <2>2, <1>1 DEF Gathered
  <2>4. \A r \in Request : ~By(r, f)'
    BY <2>1, <1>3, RequestedIsBy DEF Gathered
  <2> QED
    BY <2>1, <2>3, <2>4, <1>1, <1>2, <1>3 DEF Copies, Copied
<1>5. ASSUME NEW f \in Entity \ raced' PROVE FollowUp(f)'
  <2>1. FollowUp(f)
    BY <1>1 DEF Inv, FollowUpInv
  <2> QED
    BY <2>1, <1>1, <1>2, <1>3
    DEF FollowUp, Vanishing, Leaving, Settled, Written, Gone, NotFollowedUp, HasJob,
        PrunePending, IndexDue
<1> QED
  BY <1>1, <1>4, <1>5 DEF Inv, CopiesInv, FollowUpInv

\* What the reindex repairs is as if nothing had raced.
LEMMA FlushIndexKeeps ==
  ASSUME TypeOK, Inv, FlushIndex
  PROVE  Inv'
<1> DEFINE Repairing == reindex.flush /\ reindex.model
<1>1. /\ reindex.pc = "flush"
      /\ reindex' = [reindex EXCEPT !.pc = "batches"]
      /\ document' = IF reindex.flush THEN Nothing ELSE document
      /\ raced' = IF Repairing
                  THEN overlap \cup {e \in raced :
                         \/ Requested(e) \/ Queued(e)
                         \/ e \in named \cup derived /\ fragment[e] = None}
                  ELSE raced
      /\ overlap' = overlap
      /\ UNCHANGED <<row, fragment, named, derived, request, jobs, indexing>>
  BY DEF FlushIndex, queue
<1>2. /\ reindex'.pc = "batches" /\ reindex' # Idle /\ reindex # Idle
      /\ ~Aggregating /\ ~Aggregating' /\ Suspect' = raced'
      /\ Suspect = IF reindex.model THEN overlap ELSE raced
  BY <1>1, ReindexCases DEF Suspect, ModelPhase, Aggregating, Idle
<1>3. overlap' \subseteq raced' /\ \A e : e \notin raced' => e \notin Suspect
  BY <1>1, <1>2 DEF Inv
<1>4. /\ \A r, f : By(r, f)' <=> By(r, f)
      /\ \A f : Requested(f)' <=> Requested(f)
      /\ \A f : OneRequest(f)' <=> OneRequest(f)
  BY <1>1, RequestsKept
<1>5. ASSUME NEW f \in Entity \ raced' PROVE Copies(f)'
  <2>1. Copies(f)
    BY <1>3 DEF Inv, CopiesInv
  <2> QED
    BY <2>1, <1>1, <1>2, <1>4 DEF Copies, Copied, PrunePending
<1>6. ASSUME NEW f \in Entity \ raced' PROVE FollowUp(f)'
  <2>1. IndexDue(f)' /\ (document'[f] = None \/ document'[f] = document[f])
    BY <1>1, <1>2 DEF IndexDue, Nothing
  <2>2. CASE f \notin raced
    <3>1. FollowUp(f)
      BY <2>2 DEF Inv, FollowUpInv
    <3>2. \A r \in Request : By(r, f) => request[r].pc # "deleting"
      BY <3>1, <1>2 DEF FollowUp, Leaving, IndexDue
    <3> QED
      BY <3>1, <3>2, <2>1, <1>1, <1>4
      DEF FollowUp, Vanishing, Leaving, Settled, Written, Gone, NotFollowedUp, HasJob, PrunePending
  <2>3. CASE f \in raced
    <3>1. /\ document' = Nothing /\ ~Requested(f) /\ ~Queued(f)
          /\ f \in named \cup derived => fragment[f] # None
      BY <2>3, <1>1
    <3>2. ~PrunePending(f) /\ NotFollowedUp(f) /\ indexing[f] = {}
      BY <3>1 DEF Queued, PrunePending, NotFollowedUp, HasJob
    <3>3. fragment[f] = row[f]
      BY <3>1, <3>2, <1>2, <1>3 DEF Inv, CopiesInv, Copies, Copied
    <3>4. \A r \in Request : ~By(r, f)'
      BY <3>1, <1>4, RequestedIsBy
    <3> QED
      BY <3>1, <3>2, <3>3, <3>4, <2>1, <1>1
      DEF FollowUp, Vanishing, Leaving, Settled, Written, Gone, NotFollowedUp, HasJob,
          PrunePending, Nothing
  <2> QED
    BY <2>2, <2>3
<1> QED
  BY <1>2, <1>3, <1>5, <1>6 DEF Inv, CopiesInv, FollowUpInv

\* Every entity with fragments gets a job.
LEMMA QueueBatchesKeeps ==
  ASSUME TypeOK, Inv, QueueBatches
  PROVE  Inv'
<1>1. /\ reindex.pc = "batches" /\ reindex' = Idle
      /\ jobs' = jobs \cup {[op |-> "index", entity |-> e] : e \in {a \in Entity : HasFragments(a)}}
      /\ overlap' = {} /\ raced' = raced
      /\ UNCHANGED <<row, fragment, named, derived, document, request, indexing>>
  BY DEF QueueBatches, Enqueue, stores
<1>2. ~Aggregating /\ ~Aggregating' /\ Suspect' = raced' /\ Suspect = raced
  BY <1>1 DEF Suspect, ModelPhase, Aggregating, Idle
<1>3. ASSUME NEW op, op # "index", NEW f PROVE HasJob(op, f)' <=> HasJob(op, f)
  BY <1>1, <1>3 DEF HasJob
<1>4. \A f : PrunePending(f)' <=> PrunePending(f)
  BY <1>3 DEF PrunePending, HasJob
<1>5. \A f \in Entity : HasFragments(f) => IndexDue(f)'
  BY <1>1 DEF IndexDue, HasJob
<1>6. /\ \A r, f : By(r, f)' <=> By(r, f)
      /\ \A f : Requested(f)' <=> Requested(f)
      /\ \A f : OneRequest(f)' <=> OneRequest(f)
  BY <1>1, RequestsKept
<1>7. ASSUME NEW f \in Entity \ raced' PROVE Copies(f) /\ Copies(f)'
  <2>1. Copies(f)
    BY <1>1, <1>2 DEF Inv, CopiesInv
  <2> QED
    BY <2>1, <1>1, <1>2, <1>4, <1>6 DEF Copies, Copied
<1>8. ASSUME NEW f \in Entity \ raced' PROVE FollowUp(f)'
  <2>1. FollowUp(f) /\ Copied(f)
    BY <1>1, <1>2, <1>7 DEF Inv, FollowUpInv, Copies
  <2>2. NotFollowedUp(f)' <=> NotFollowedUp(f)
    BY <1>3 DEF NotFollowedUp
  <2>3. ~PrunePending(f) /\ ~Requested(f) /\ row[f] # None => IndexDue(f)'
    BY <2>1, <1>5 DEF Copied, HasFragments
  <2>4. ASSUME NEW r \in Request, By(r, f), request[r].pc = "indexed" PROVE IndexDue(f)'
    <3>1. fragment[f] = request[r].edit /\ request[r].edit \in Edit
      BY <2>1, <2>4, RequestCases DEF Copied, By
    <3> QED
      BY <3>1, <1>5, NoneIsNoEdit DEF HasFragments
  <2>5. \A r \in Request : By(r, f) => request[r].pc # "deleting"
    BY <2>1, <1>1, ReindexCases DEF FollowUp, Leaving, IndexDue
  <2> QED
    BY <2>1, <2>2, <2>3, <2>4, <2>5, <1>1, <1>4, <1>6
    DEF FollowUp, Vanishing, Leaving, Settled, Written, Gone
<1> QED
  BY <1>1, <1>2, <1>7, <1>8 DEF Inv, CopiesInv, FollowUpInv

\* A reindex that dies leaves nothing to rely on.
LEMMA FailReindexKeeps ==
  ASSUME TypeOK, FailReindex
  PROVE  Inv'
<1>1. raced' = Entity /\ Suspect' = raced' /\ overlap' = {}
  BY DEF FailReindex, Suspect, ModelPhase, Aggregating, Idle
<1> QED
  BY <1>1 DEF Inv, CopiesInv, FollowUpInv

-----------------------------------------------------------------------------
(* The theorems.                                                           *)

\* The invariant holds, action by action.
LEMMA Invariant == Spec => []Inv
<1>1. Init => Inv
  <2> SUFFICES ASSUME Init PROVE Inv
    OBVIOUS
  <2>1. /\ \A r \in Request : \A e : ~By(r, e)
        /\ \A e : ~Requested(e) /\ ~PrunePending(e) /\ NotFollowedUp(e)
        /\ ~Aggregating
    BY DEF Init, By, Requested, PrunePending, NotFollowedUp, HasJob, Aggregating, Idle
  <2>2. ASSUME NEW e \in Entity PROVE Copies(e) /\ FollowUp(e)
    BY <2>1 DEF Init, Nothing, Copies, OneRequest, Copied, FollowUp, Vanishing,
                Leaving, Settled, Written, Gone
  <2> QED
    BY <2>2 DEF Inv, CopiesInv, FollowUpInv, Init
<1>2. TypeOK /\ Inv /\ [Next]_vars => Inv'
  <2> SUFFICES ASSUME TypeOK, Inv, [Next]_vars PROVE Inv'
    OBVIOUS
  <2>1. CASE UNCHANGED vars
    <3>1. UNCHANGED <<row, fragment, named, derived, document, request, jobs, indexing,
                      reindex, raced, overlap>>
      BY <2>1 DEF vars, stores, queue, history
    <3>2. /\ \A r, f : By(r, f)' <=> By(r, f)
          /\ \A f : Requested(f)' <=> Requested(f)
          /\ \A f : OneRequest(f)' <=> OneRequest(f)
      BY <3>1, RequestsKept
    <3>3. \A f : Copies(f) => Copies(f)'
      BY <3>1, <3>2 DEF Copies, Gathered, Copied, Aggregating, PrunePending
    <3>4. \A f : FollowUp(f) => FollowUp(f)'
      BY <3>1, <3>2 DEF FollowUp, Vanishing, Leaving, Settled, Written, Gone,
         NotFollowedUp, HasJob, PrunePending, IndexDue
    <3>5. Suspect' = Suspect
      BY <3>1 DEF Suspect, ModelPhase, Aggregating
    <3> QED
      BY <3>1, <3>3, <3>4, <3>5 DEF Inv, CopiesInv, FollowUpInv
  <2>2. CASE Next
    BY <2>2, UpsertDropKeeps, UpsertFragmentsKeeps, UpsertDocumentKeeps, CommitUpsertKeeps,
       FailRequestKeeps, DeleteKeeps, QueuePruneKeeps, PruneKeeps, PruneDiesKeeps, UpdateKeeps, AnalyzeKeeps,
       IndexReadKeeps, IndexNothingKeeps, IndexWriteKeeps, StartReindexKeeps,
       StartWithoutModelKeeps, AggregateRowKeeps, WriteBulkKeeps, FlushIndexKeeps,
       QueueBatchesKeeps, FailReindexKeeps
    DEF Next
  <2> QED
    BY <2>1, <2>2
<1> QED
  BY <1>1, <1>2, TypeInvariant, PTL DEF Spec

(* Rows, fragments, documents, requests, jobs and the reindex keep their   *)
(* types (upsert_entity, prune_entity, reindex_collection).                *)
THEOREM EntityTypes == Spec => []TypeOK
  BY TypeInvariant

(* Whatever entities refer to each other and however many requests, jobs   *)
(* and reindexes mix and fail: once all work on an entity is done, its     *)
(* three copies agree, unless operations on that entity overlapped or      *)
(* failed since the last complete reindex (upsert_entity, prune_entity,    *)
(* index_aggregator, reindex_collection).                                  *)
THEOREM StoresAlwaysAgree == Spec => []StoresAgree
<1>1. TypeOK /\ Inv => StoresAgree
  <2> SUFFICES ASSUME Inv, NEW e \in Entity \ raced, Quiet(e)
               PROVE  /\ fragment[e] = row[e]
                      /\ document[e] = row[e]
                      /\ e \in named \cup derived => row[e] # None
    BY DEF StoresAgree
  <2>1. ~Requested(e) /\ ~PrunePending(e) /\ ~IndexDue(e) /\ ~Aggregating
    BY DEF Quiet, Queued, PrunePending, IndexDue, HasJob, Aggregating, Idle
  <2>2. Copied(e) /\ Settled(e)
    BY <2>1, SuspectRaced DEF Inv, CopiesInv, Copies, FollowUpInv, FollowUp
  <2> QED
    BY <2>1, <2>2 DEF Copied, Settled, Gone
<1> QED
  BY <1>1, TypeInvariant, Invariant, PTL
=============================================================================
