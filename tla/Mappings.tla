------------------------------ MODULE Mappings ------------------------------
(***************************************************************************)
(* One mapping of a table to entities, and the jobs that load, flush and   *)
(* reindex what it generates (aleph/logic/mapping.py,                      *)
(* aleph/views/mappings_api.py, aleph/logic/collections.py).               *)
(*                                                                         *)
(* A request commits the row and queues a job afterwards; a worker reads   *)
(* the row once, at the start of the job.  The entities that one query of  *)
(* the mapping generates are written and deleted together and stand for    *)
(* each other: the stores are sets of queries.  Jobs are taken in any      *)
(* order, as their priorities, retries and stalled workers allow, and run  *)
(* next to each other: nothing locks a mapping.                            *)
(***************************************************************************)
EXTENDS Naturals

CONSTANTS
  Worker,
  Query,        \* what a mapping can ask for
  None,
  MaxRequests,  \* bound on the number of requests
  MaxFailures   \* bound on failed and crashed jobs, below their retries

ASSUME BoundsType == {MaxRequests, MaxFailures} \subseteq Nat
ASSUME NoneIsNew == None \notin Query \cup {"alone", "beside"}

VARIABLES
  exists, disabled, status, query,  \* the committed row
  fragments,  \* queries whose entities the aggregator holds for the mapping
  documents,  \* queries whose entities the search index holds
  calls,      \* jobs of requests that have committed and not yet queued them
  waiting,    \* jobs in the queue
  stalled,    \* jobs whose worker died
  work,       \* what each worker is doing
  flushed,    \* how it was flushed since that was asked (auxiliary)
  requests, failures  \* how many there have been

row == <<exists, disabled, status, query>>
stores == <<fragments, documents>>
jobs == <<calls, waiting, stalled>>
bounds == <<requests, failures>>
vars == <<row, stores, jobs, work, flushed, bounds>>

Load == [op |-> "load"]
Flush == [op |-> "flush"]
Reindex(flush) == [op |-> "reindex", flush |-> flush]
Index(ids) == [op |-> "index", ids |-> ids]
Job == {Load, Flush} \cup {Reindex(f) : f \in BOOLEAN} \cup {Index(ids) : ids \in SUBSET Query}

Step == {"fragments", "documents", "map", "write", "read", "index", "commit",
         "drop", "queue", "ack"}
Idle == [pc |-> "idle"]
\* alone is auxiliary: no job got in its way.
Working == [pc : Step, job : Job, query : Query \cup {None}, batch : SUBSET Query,
            alone : BOOLEAN]

TypeOK ==
  /\ exists \in BOOLEAN /\ disabled \in BOOLEAN
  /\ status \in {None, "pending", "success", "failed"}
  /\ query \in Query
  /\ fragments \subseteq Query /\ documents \subseteq Query
  /\ calls \in [Job -> Nat] /\ waiting \in [Job -> Nat] /\ stalled \in [Job -> Nat]
  /\ work \in [Worker -> {Idle} \cup Working]
  /\ flushed \in {None, "alone", "beside"}
  /\ requests \in 0 .. MaxRequests /\ failures \in 0 .. MaxFailures

NoJobs == [j \in Job |-> 0]
Added(bag, j) == [bag EXCEPT ![j] = @ + 1]
Removed(bag, j) == [bag EXCEPT ![j] = @ - 1]

\* A mapping starts out enabled and pending, though nothing is queued.
Init ==
  /\ exists = TRUE /\ disabled = FALSE /\ status = "pending"
  /\ query \in Query
  /\ fragments = {} /\ documents = {}
  /\ calls = NoJobs /\ waiting = NoJobs /\ stalled = NoJobs
  /\ work = [w \in Worker |-> Idle]
  /\ flushed = None
  /\ requests = 0 /\ failures = 0

-----------------------------------------------------------------------------
(* Requests.                                                               *)

Request ==
  /\ requests < MaxRequests
  /\ requests' = requests + 1
  /\ UNCHANGED <<stores, waiting, stalled, work, failures>>

Update(q) ==
  /\ exists /\ Request
  /\ query' = q
  /\ UNCHANGED <<exists, disabled, status, calls, flushed>>

Trigger ==
  /\ exists /\ Request
  /\ disabled' = FALSE /\ status' = "pending"
  /\ calls' = Added(calls, Load)
  /\ UNCHANGED <<exists, query, flushed>>

RequestFlush ==
  /\ exists /\ Request
  /\ disabled' = TRUE /\ status' = None
  /\ calls' = Added(calls, Flush) /\ flushed' = None
  /\ UNCHANGED <<exists, query>>

Delete ==
  /\ exists /\ Request
  /\ exists' = FALSE
  /\ calls' = Added(calls, Flush) /\ flushed' = None
  /\ UNCHANGED <<disabled, status, query>>

RequestReindex(flush) ==
  /\ Request
  /\ calls' = Added(calls, Reindex(flush))
  /\ UNCHANGED <<row, flushed>>

\* The request's own last step.  It may never come: the web server can die.
QueueJob(j) ==
  /\ calls[j] > 0
  /\ calls' = Removed(calls, j)
  /\ waiting' = Added(waiting, j)
  /\ UNCHANGED <<row, stores, stalled, work, flushed, bounds>>

-----------------------------------------------------------------------------
(* Jobs.                                                                   *)

Enabled == exists /\ ~disabled
\* Wrong: a job does not look at the switch.
SnapshotOfDisabled == IF exists THEN query ELSE None
Snapshot == IF Enabled THEN query ELSE None

FirstStep(j) ==
  CASE j.op = "load" -> IF exists THEN "fragments" ELSE "ack"
    [] j.op = "flush" -> "fragments"
    [] j.op = "reindex" -> IF Enabled THEN "map" ELSE IF j.flush THEN "documents" ELSE "queue"
    [] j.op = "index" -> "read"

\* Two jobs that run next to each other get in each other's way, unless both
\* only delete.
Disturbs(i, j) == ~(i = Flush /\ j = Flush)

\* A worker takes a job, next to those that the others work on.
Take(w, j) ==
  /\ work[w] = Idle /\ waiting[j] > 0
  /\ waiting' = Removed(waiting, j)
  /\ work' = [v \in Worker |->
       IF v = w
       THEN [pc |-> FirstStep(j), job |-> j, query |-> Snapshot, batch |-> {},
             alone |-> \A u \in Worker : work[u] # Idle => ~Disturbs(work[u].job, j)]
       ELSE IF work[v] # Idle /\ Disturbs(work[v].job, j)
       THEN [work[v] EXCEPT !.alone = FALSE]
       ELSE work[v]]
  /\ UNCHANGED <<row, stores, calls, stalled, flushed, bounds>>

At(w, pc) == work[w].pc = pc
Goto(w, pc) == work' = [work EXCEPT ![w].pc = pc]
Unchanged == UNCHANGED <<row, jobs, bounds>>
Keeps == UNCHANGED flushed /\ Unchanged

\* load_mapping and flush_mapping empty both stores first.
DeleteFragments(w) ==
  /\ At(w, "fragments")
  /\ fragments' = {}
  /\ Goto(w, "documents")
  /\ UNCHANGED documents /\ Keeps

AfterDelete(w) ==
  CASE work[w].job.op = "reindex" -> "queue"
    [] work[w].job.op = "load" /\ work[w].query # None -> "map"
    [] OTHER -> "ack"

Flushed(w) ==
  IF work[w].job # Flush \/ flushed = "alone" THEN flushed
  ELSE IF work[w].alone THEN "alone" ELSE "beside"

\* Wrong: a load leaves the documents of earlier loads to the index.
DeleteDocumentsOfFlush(w) ==
  /\ At(w, "documents")
  /\ documents' = IF work[w].job = Load THEN documents ELSE {}
  /\ flushed' = Flushed(w)
  /\ Goto(w, AfterDelete(w))
  /\ UNCHANGED fragments /\ Unchanged

DeleteDocuments(w) ==
  /\ At(w, "documents")
  /\ documents' = {}
  /\ flushed' = Flushed(w)
  /\ Goto(w, AfterDelete(w))
  /\ UNCHANGED fragments /\ Unchanged

\* map_to_aggregator, of a load and of a reindex.
DeleteMapped(w) ==
  /\ At(w, "map")
  /\ fragments' = {}
  /\ Goto(w, "write")
  /\ UNCHANGED documents /\ Keeps

AfterMap(j) ==
  IF j.op = "load" THEN "read" ELSE IF j.flush THEN "documents" ELSE "queue"

WriteMapped(w) ==
  /\ At(w, "write")
  /\ fragments' = fragments \cup {work[w].query}
  /\ Goto(w, AfterMap(work[w].job))
  /\ UNCHANGED documents /\ Keeps

\* index_aggregator reads the fragments and writes the documents later.
ReadFragments(w) ==
  /\ At(w, "read")
  /\ LET batch == IF work[w].job.op = "index" THEN fragments \cap work[w].job.ids ELSE fragments
     IN work' = [work EXCEPT ![w].batch = batch, ![w].pc = "index"]
  /\ UNCHANGED stores /\ Keeps

WriteDocuments(w) ==
  /\ At(w, "index")
  /\ documents' = documents \cup work[w].batch
  /\ Goto(w, IF work[w].job.op = "load" THEN "commit" ELSE "ack")
  /\ UNCHANGED fragments /\ Keeps

QueueBatches(w) ==
  /\ At(w, "queue")
  /\ waiting' = IF fragments = {} THEN waiting ELSE Added(waiting, Index(fragments))
  /\ Goto(w, "ack")
  /\ UNCHANGED <<row, stores, calls, stalled, flushed, bounds>>

\* The commit of the status of a deleted row raises, and so does the commit
\* of the error: the job is retried.
Requeue(w) ==
  /\ ~exists
  /\ waiting' = Added(waiting, work[w].job)
  /\ work' = [work EXCEPT ![w] = Idle]
  /\ UNCHANGED <<row, stores, calls, stalled, flushed>>

\* Wrong: the error of a failed load takes the place of its status.
SetStatusSwapped(w, new, pc) ==
  /\ exists
  /\ status' = IF new = "failed" THEN "error" ELSE new
  /\ Goto(w, pc)
  /\ UNCHANGED <<exists, disabled, query, stores, jobs, flushed>>

\* Wrong: a failed load rolls its status back.
SetStatusRolledBack(w, new, pc) ==
  /\ exists
  /\ status' = IF new = "failed" THEN status ELSE new
  /\ Goto(w, pc)
  /\ UNCHANGED <<exists, disabled, query, stores, jobs, flushed>>

SetStatus(w, new, pc) ==
  /\ exists
  /\ status' = new
  /\ Goto(w, pc)
  /\ UNCHANGED <<exists, disabled, query, stores, jobs, flushed>>

CommitSuccess(w) ==
  /\ At(w, "commit")
  /\ SetStatus(w, "success", "ack") \/ Requeue(w)
  /\ UNCHANGED bounds

Trying(w) == work[w].pc \in {"map", "write", "read", "index", "commit"}
Fail ==
  /\ failures < MaxFailures
  /\ failures' = failures + 1
  /\ UNCHANGED requests

\* The table is gone, a source row is broken, a store is down.
FailLoad(w) ==
  /\ Trying(w) /\ work[w].job = Load
  /\ Fail
  /\ SetStatus(w, "failed", "drop") \/ Requeue(w)

DropFragments(w) ==
  /\ At(w, "drop")
  /\ fragments' = {}
  /\ Goto(w, "ack")
  /\ UNCHANGED documents /\ Keeps

\* A reindex logs the error of a mapping and goes on.
IgnoreBroken(w) ==
  /\ work[w].pc \in {"map", "write"} /\ work[w].job # Load
  /\ Fail
  /\ Goto(w, AfterMap(work[w].job))
  /\ UNCHANGED <<row, stores, jobs, flushed>>

Acknowledge(w) ==
  /\ At(w, "ack")
  /\ work' = [work EXCEPT ![w] = Idle]
  /\ UNCHANGED stores /\ Keeps

Crash(w) ==
  /\ work[w] # Idle
  /\ Fail
  /\ stalled' = Added(stalled, work[w].job)
  /\ work' = [work EXCEPT ![w] = Idle]
  /\ UNCHANGED <<row, stores, calls, waiting, flushed>>

RetryStalled(j) ==
  /\ stalled[j] > 0
  /\ stalled' = Removed(stalled, j)
  /\ waiting' = Added(waiting, j)
  /\ UNCHANGED <<row, stores, calls, work, flushed, bounds>>

-----------------------------------------------------------------------------
Requests ==
  \/ \E q \in Query : Update(q)
  \/ Trigger
  \/ RequestFlush
  \/ Delete
  \/ \E flush \in BOOLEAN : RequestReindex(flush)
  \/ \E j \in Job : QueueJob(j)

Progress(w) ==
  \/ \E j \in Job : Take(w, j)
  \/ DeleteFragments(w)
  \/ DeleteDocuments(w)
  \/ DeleteMapped(w)
  \/ WriteMapped(w)
  \/ ReadFragments(w)
  \/ WriteDocuments(w)
  \/ QueueBatches(w)
  \/ CommitSuccess(w)
  \/ DropFragments(w)
  \/ Acknowledge(w)

Failure(w) == FailLoad(w) \/ IgnoreBroken(w) \/ Crash(w)

Next ==
  \/ Requests
  \/ \E w \in Worker : Progress(w) \/ Failure(w)
  \/ \E j \in Job : RetryStalled(j)

\* A worker that lives goes on, and periodic_retry_stalled runs every quarter hour.
\* Nothing makes users ask, and nothing makes a request outlive its commit.
Spec ==
  /\ Init /\ [][Next]_vars
  /\ \A w \in Worker : WF_vars(Progress(w))
  /\ WF_vars(\E j \in Job : RetryStalled(j))

-----------------------------------------------------------------------------
Quiet ==
  /\ calls = NoJobs /\ waiting = NoJobs /\ stalled = NoJobs
  /\ \A w \in Worker : work[w] = Idle

Empty == fragments = {} /\ documents = {}

\* A flushed or deleted mapping has nothing left of what it generated, in the
\* aggregator or in the search index, once one flush since then has run with
\* no load or reindex next to it, whatever runs, fails or is retried later;
\* and if no flush has met one, once all jobs are done (views/mappings_api.py
\* flush and delete, logic/mapping.py flush_mapping).
FlushedIsEmpty ==
  ~Enabled /\ (flushed = "alone" \/ (Quiet /\ flushed # "beside")) => Empty

\* A load that reports success, and that no other job got in the way of, has
\* replaced all the mapping generated before: both stores hold the entities
\* of the query it read, and no others, even if earlier loads and reindexes
\* died half way (logic/mapping.py load_mapping).
LoadReplaces == [][\A w \in Worker :
  At(w, "commit") /\ work[w].pc # work'[w].pc /\ status' = "success" /\ work[w].alone
    => fragments = {work[w].query} /\ documents = {work[w].query}]_vars

\* A pending mapping whose load is queued does not stay pending: the load
\* sets a status, if it has to be retried and if the mapping fails, unless
\* the mapping is flushed or deleted.
PendingResolves ==
  exists /\ ~disabled /\ status = "pending" /\ waiting[Load] > 0
    ~> ~exists \/ disabled \/ status # "pending"

-----------------------------------------------------------------------------
(* What the tests say.                                                     *)

\* "Deleting a mapping also deletes any entities generated from the mapping"
\* (tests/test_mappings_api.py): once all jobs are done, nothing is left of a
\* deleted mapping (views/mappings_api.py delete).
DeletedIsEmpty == Quiet /\ ~exists => Empty
=============================================================================
