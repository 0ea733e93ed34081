--------------------------- MODULE MappingsProofs ---------------------------
(* Proofs about Mappings, for any number of workers: types, that a load    *)
(* that no other job got in the way of replaces all that was generated     *)
(* before it, and that a flush that met no load or reindex leaves nothing  *)
(* behind for good.                                                        *)
EXTENDS Mappings, TLAPS

-----------------------------------------------------------------------------
(* The invariant.                                                          *)

Busy(w) == work[w] # Idle

FlushQueued == calls[Flush] > 0 \/ waiting[Flush] > 0 \/ stalled[Flush] > 0

Flushing(w) ==
  Busy(w) /\ work[w].job = Flush /\ work[w].pc \in {"fragments", "documents"}

\* What a worker may be doing without filling empty stores.
Harmless(w) ==
  \/ work[w].pc \in {"idle", "read", "commit", "drop", "queue", "ack"}
  \/ At(w, "index") /\ work[w].batch = {}
  \/ work[w].pc \in {"fragments", "documents"} /\ ~(work[w].job = Load /\ work[w].query # None)

Clean == Empty /\ \A w \in Worker : Harmless(w)

\* A mapping that is switched off or gone is clean for good once a flush has
\* run undisturbed; before that, it has a flush ahead of it, or one that met
\* another job behind it.
GoneInv ==
  ~Enabled =>
    IF flushed = "alone" THEN Clean
    ELSE FlushQueued \/ (\E w \in Worker : Flushing(w)) \/ flushed = "beside"

\* How far a load has come shows in the stores.
LoadSteps(w) ==
  /\ At(w, "documents") => fragments = {}
  /\ work[w].pc \in {"map", "write"} => Empty
  /\ work[w].pc \in {"read", "index", "commit"} => fragments = {work[w].query}
  /\ work[w].pc \in {"read", "index"} => documents = {}
  /\ At(w, "index") => work[w].batch = {work[w].query}
  /\ At(w, "commit") => documents = {work[w].query}

LoadInv ==
  \A w \in Worker : Busy(w) /\ work[w].job = Load /\ work[w].alone => LoadSteps(w)

\* So does how far a flush has come.
FlushInv ==
  \A w \in Worker :
    Busy(w) /\ work[w].job = Flush /\ work[w].alone /\ At(w, "documents") => fragments = {}

\* Next to a job that is alone there are none that disturb it.
AloneInv ==
  \A v, w \in Worker :
    v # w /\ Busy(v) /\ Busy(w) /\ work[w].alone => ~Disturbs(work[v].job, work[w].job)

\* Only jobs that map come to the steps of a mapping.
PcInv ==
  \A w \in Worker :
    /\ At(w, "commit") => work[w].job = Load
    /\ work[w].pc \in {"map", "write"} => work[w].query # None
    /\ Busy(w) /\ work[w].job = Flush => work[w].pc \in {"fragments", "documents", "ack"}

TypeInv == TypeOK /\ PcInv

-----------------------------------------------------------------------------
(* Jobs, queues and steps.                                                 *)

\* The operation of a job tells what it is.
LEMMA JobCases ==
  /\ Load \in Job /\ Flush \in Job
  /\ \A f \in BOOLEAN : Reindex(f) \in Job
  /\ \A ids \in SUBSET Query : Index(ids) \in Job /\ Index(ids) # Flush
  /\ \A j \in Job :
       /\ j.op \in {"load", "flush", "reindex", "index"}
       /\ j.op = "load" <=> j = Load
       /\ j.op = "flush" <=> j = Flush
<1>1. /\ Load.op = "load" /\ Flush.op = "flush"
      /\ \A f \in BOOLEAN : Reindex(f).op = "reindex"
      /\ \A ids \in SUBSET Query : Index(ids).op = "index"
  BY DEF Load, Flush, Reindex, Index
<1>2. \A j \in Job :
        \/ j = Load \/ j = Flush
        \/ \E f \in BOOLEAN : j = Reindex(f)
        \/ \E ids \in SUBSET Query : j = Index(ids)
  BY Zenon DEF Job
<1>3. /\ Load \in Job /\ Flush \in Job
      /\ \A f \in BOOLEAN : Reindex(f) \in Job
      /\ \A ids \in SUBSET Query : Index(ids) \in Job
  BY Zenon DEF Job
<1>4. \A j \in Job : /\ j.op \in {"load", "flush", "reindex", "index"}
                     /\ j.op = "load" <=> j = Load
                     /\ j.op = "flush" <=> j = Flush
  <2>. SUFFICES ASSUME NEW j \in Job
       PROVE  /\ j.op \in {"load", "flush", "reindex", "index"}
              /\ j.op = "load" <=> j = Load
              /\ j.op = "flush" <=> j = Flush
    OBVIOUS
  <2>1. CASE j = Load
    BY <1>1, <2>1
  <2>2. CASE j = Flush
    BY <1>1, <2>2
  <2>3. CASE \E f \in BOOLEAN : j = Reindex(f)
    BY <1>1, <2>3
  <2>4. CASE \E ids \in SUBSET Query : j = Index(ids)
    BY <1>1, <2>4
  <2>. QED
    BY <1>2, <2>1, <2>2, <2>3, <2>4
<1>. QED
  BY <1>1, <1>3, <1>4

\* A job more in a queue: the others stay.
LEMMA AddedFacts ==
  ASSUME NEW bag \in [Job -> Nat], NEW j \in Job
  PROVE  /\ Added(bag, j) \in [Job -> Nat]
         /\ Added(bag, j)[j] > 0
         /\ \A i \in Job : bag[i] > 0 => Added(bag, j)[i] > 0
BY DEF Added

\* A job less in a queue: the others stay.
LEMMA RemovedFacts ==
  ASSUME NEW bag \in [Job -> Nat], NEW j \in Job, bag[j] > 0
  PROVE  /\ Removed(bag, j) \in [Job -> Nat]
         /\ \A i \in Job : i # j => Removed(bag, j)[i] = bag[i]
BY DEF Removed

\* A worker that is not idle works on a job.
LEMMA BusyWorks ==
  ASSUME TypeOK, NEW w \in Worker, work[w].pc # "idle"
  PROVE  work[w] \in Working
BY DEF TypeOK, Idle

\* A step of a job changes where the worker is and nothing else.
LEMMA GotoFacts ==
  ASSUME TypeOK, NEW w \in Worker, work[w].pc # "idle",
         NEW pc \in Step, Goto(w, pc)
  PROVE  /\ work' \in [Worker -> {Idle} \cup Working]
         /\ work'[w] \in Working
         /\ work'[w].pc = pc
         /\ work'[w].job = work[w].job
         /\ work'[w].query = work[w].query
         /\ work'[w].batch = work[w].batch
         /\ work'[w].alone = work[w].alone
         /\ \A v \in Worker \ {w} : work'[v] = work[v]
<1>1. work[w] \in Working
  BY BusyWorks
<1>2. work'[w] = [work[w] EXCEPT !.pc = pc] /\ \A v \in Worker \ {w} : work'[v] = work[v]
  BY DEF TypeOK, Goto
<1>3. work'[w] \in Working
  BY <1>1, <1>2 DEF Working
<1>4. work' \in [Worker -> {Idle} \cup Working]
  BY <1>2, <1>3 DEF TypeOK, Goto
<1>. QED
  BY <1>1, <1>2, <1>3, <1>4 DEF Working

\* A job starts at one of the steps, with a query only where it maps.
LEMMA FirstStepFacts ==
  ASSUME TypeOK, NEW j \in Job
  PROVE  /\ FirstStep(j) \in {"fragments", "documents", "map", "queue", "read", "ack"}
         /\ FirstStep(j) = "map" => Snapshot # None
         /\ Snapshot \in Query \cup {None}
         /\ j = Load => FirstStep(j) \in {"fragments", "ack"}
         /\ j = Flush => FirstStep(j) = "fragments"
         /\ FirstStep(j) # "idle"
BY JobCases, NoneIsNew DEF TypeOK, FirstStep, Snapshot, Enabled

\* After mapping, a load reads and a reindex queues batches.
LEMMA AfterMapFacts ==
  ASSUME NEW j \in Job
  PROVE  /\ AfterMap(j) \in {"read", "documents", "queue"}
         /\ j = Load => AfterMap(j) = "read"
         /\ j # Load => AfterMap(j) # "read"
BY JobCases DEF AfterMap

-----------------------------------------------------------------------------
(* Types.                                                                  *)

\* A flush comes to three steps only.
LEMMA NotFlush ==
  ASSUME TypeInv, NEW w \in Worker,
         work[w].pc \notin {"idle", "fragments", "documents", "ack"}
  PROVE  work[w].job # Flush /\ work[w].pc # "idle"
BY DEF TypeInv, PcInv, Busy, Idle

\* After the documents, a flush is done, and a load maps if it has a query.
LEMMA AfterDeleteFacts ==
  ASSUME NEW w \in Worker, work[w].job \in Job
  PROVE  /\ AfterDelete(w) \in {"queue", "map", "ack"}
         /\ AfterDelete(w) = "map" => work[w].job = Load /\ work[w].query # None
         /\ work[w].job = Flush => AfterDelete(w) = "ack"
BY JobCases DEF AfterDelete

\* A step of a job that maps with a query and commits a load keeps the types.
LEMMA GotoKeeps ==
  ASSUME TypeInv, NEW w \in Worker, work[w].pc # "idle",
         NEW pc \in Step, Goto(w, pc),
         pc = "commit" => work[w].job = Load,
         pc \in {"map", "write"} => work[w].query # None,
         work[w].job = Flush => pc \in {"fragments", "documents", "ack"}
  PROVE  work' \in [Worker -> {Idle} \cup Working] /\ PcInv'
<1>1. TypeOK
  BY DEF TypeInv
<1>2. /\ work' \in [Worker -> {Idle} \cup Working]
      /\ work'[w].pc = pc
      /\ work'[w].job = work[w].job
      /\ work'[w].query = work[w].query
      /\ \A v \in Worker \ {w} : work'[v] = work[v]
  BY <1>1, GotoFacts
<1>3. Busy(w)
  BY DEF Busy, Idle
<1>4. PcInv'
  BY <1>2, <1>3 DEF PcInv, TypeInv, At, Busy
<1>. QED
  BY <1>2, <1>4

\* What taking a job does to the worker that takes it and to the others.
Taken(w, j) ==
  /\ work' \in [Worker -> {Idle} \cup Working]
  /\ work[w] = Idle /\ work'[w] \in Working
  /\ work'[w].pc = FirstStep(j) /\ work'[w].job = j
  /\ work'[w].query = Snapshot /\ work'[w].batch = {}
  /\ work'[w].alone = (\A u \in Worker : work[u] # Idle => ~Disturbs(work[u].job, j))
  /\ \A v \in Worker \ {w} :
       /\ work[v] = Idle => work'[v] = Idle
       /\ work[v] # Idle =>
            /\ work[v] \in Working /\ work'[v] \in Working
            /\ work'[v].pc = work[v].pc /\ work'[v].job = work[v].job
            /\ work'[v].query = work[v].query /\ work'[v].batch = work[v].batch
            /\ work'[v].alone <=> work[v].alone /\ ~Disturbs(work[v].job, j)

\* A worker takes a job; the others go on with theirs.
LEMMA TakeFacts ==
  ASSUME TypeOK, NEW w \in Worker, NEW j \in Job, Take(w, j)
  PROVE  Taken(w, j)
<1>1. /\ FirstStep(j) \in Step /\ Snapshot \in Query \cup {None} /\ FirstStep(j) # "idle"
  BY FirstStepFacts DEF Step
<1> DEFINE alone == \A u \in Worker : work[u] # Idle => ~Disturbs(work[u].job, j)
           new == [pc |-> FirstStep(j), job |-> j, query |-> Snapshot, batch |-> {},
                   alone |-> alone]
           beside(v) == IF work[v] # Idle /\ Disturbs(work[v].job, j)
                        THEN [work[v] EXCEPT !.alone = FALSE] ELSE work[v]
<1>2. /\ work' = [v \in Worker |-> IF v = w THEN new ELSE beside(v)]
      /\ work[w] = Idle
  BY Zenon DEF Take
<1>3. alone \in BOOLEAN
  OBVIOUS
<1>4. new \in Working /\ new.alone = alone
  <2> HIDE DEF alone
  <2> QED
    BY <1>1, <1>3 DEF Working
<1>5. ASSUME NEW v \in Worker
      PROVE  /\ work[v] = Idle => beside(v) = Idle
             /\ work[v] # Idle =>
                  /\ work[v] \in Working /\ beside(v) \in Working
                  /\ beside(v).pc = work[v].pc /\ beside(v).job = work[v].job
                  /\ beside(v).query = work[v].query /\ beside(v).batch = work[v].batch
                  /\ beside(v).alone <=> work[v].alone /\ ~Disturbs(work[v].job, j)
  <2>1. CASE work[v] = Idle
    BY <2>1
  <2>2. CASE work[v] # Idle
    <3>1. work[v] \in Working
      BY <2>2 DEF TypeOK
    <3>2. CASE Disturbs(work[v].job, j)
      <4>1. beside(v) = [work[v] EXCEPT !.alone = FALSE]
        BY <2>2, <3>2
      <4> HIDE DEF beside
      <4> QED
        BY <2>2, <3>1, <3>2, <4>1 DEF Working
    <3>3. CASE ~Disturbs(work[v].job, j)
      BY <2>2, <3>1, <3>3
    <3> QED
      BY <3>2, <3>3
  <2> QED
    BY <2>1, <2>2
<1> HIDE DEF beside, new
<1>6. work' \in [Worker -> {Idle} \cup Working]
  BY <1>2, <1>4, <1>5
<1>7. work'[w] = new /\ \A v \in Worker \ {w} : work'[v] = beside(v)
  BY <1>2
<1>8. /\ new.pc = FirstStep(j) /\ new.job = j /\ new.query = Snapshot /\ new.batch = {}
  BY DEF new
<1> HIDE DEF alone
<1>9. /\ work'[w] \in Working
      /\ work'[w].pc = FirstStep(j) /\ work'[w].job = j
      /\ work'[w].query = Snapshot /\ work'[w].batch = {} /\ work'[w].alone = alone
  BY <1>4, <1>7, <1>8
<1>10. ASSUME NEW v \in Worker \ {w}
       PROVE  /\ work[v] = Idle => work'[v] = Idle
              /\ work[v] # Idle =>
                   /\ work[v] \in Working /\ work'[v] \in Working
                   /\ work'[v].pc = work[v].pc /\ work'[v].job = work[v].job
                   /\ work'[v].query = work[v].query /\ work'[v].batch = work[v].batch
                   /\ work'[v].alone <=> work[v].alone /\ ~Disturbs(work[v].job, j)
  BY <1>5, <1>7
<1> QED
  BY <1>2, <1>6, <1>9, <1>10 DEF alone, Taken

LEMMA TakeKeeps ==
  ASSUME TypeInv, NEW w \in Worker, NEW j \in Job, Take(w, j)
  PROVE  work' \in [Worker -> {Idle} \cup Working] /\ PcInv'
<1>1. TypeOK
  BY DEF TypeInv
<1>0. Taken(w, j)
  BY <1>1, TakeFacts
<1>2. /\ work' \in [Worker -> {Idle} \cup Working]
      /\ work'[w].pc = FirstStep(j) /\ work'[w].job = j /\ work'[w].query = Snapshot
      /\ \A v \in Worker \ {w} :
           /\ work[v] = Idle => work'[v] = Idle
           /\ work[v] # Idle => /\ work'[v].pc = work[v].pc /\ work'[v].job = work[v].job
                               /\ work'[v].query = work[v].query
  BY <1>0 DEF Taken
<1>3. ASSUME NEW v \in Worker
      PROVE  /\ At(v, "commit")' => work'[v].job = Load
             /\ work'[v].pc \in {"map", "write"} => work'[v].query # None
             /\ work'[v] # Idle /\ work'[v].job = Flush =>
                  work'[v].pc \in {"fragments", "documents", "ack"}
  <2>1. CASE v = w
    BY <1>1, <1>2, <2>1, FirstStepFacts DEF At
  <2>2. CASE v # w /\ work[v] = Idle
    BY <1>2, <2>2 DEF At, Idle
  <2>3. CASE v # w /\ work[v] # Idle
    BY <1>2, <2>3 DEF At, TypeInv, PcInv, Busy
  <2> QED
    BY <2>1, <2>2, <2>3
<1> QED
  BY <1>2, <1>3 DEF PcInv, Busy

\* A worker that goes idle keeps the types.
LEMMA IdleKeeps ==
  ASSUME TypeInv, NEW w \in Worker, work' = [work EXCEPT ![w] = Idle]
  PROVE  work' \in [Worker -> {Idle} \cup Working] /\ PcInv'
<1>1. work' \in [Worker -> {Idle} \cup Working]
  BY DEF TypeInv, TypeOK
<1>2. work'[w].pc = "idle" /\ \A v \in Worker \ {w} : work'[v] = work[v]
  BY DEF TypeInv, TypeOK, Idle
<1>. QED
  BY <1>1, <1>2 DEF PcInv, TypeInv, At, Busy, Idle

\* Every variable keeps its type, for any number of workers, queries,
\* requests and failures, and a worker maps only with a query it has read
\* (load_mapping, _process_mappings).
LEMMA TypeInvariance == Spec => []TypeInv
<1>1. Init => TypeInv
  <2>. SUFFICES ASSUME Init PROVE TypeInv
    OBVIOUS
  <2>1. NoJobs \in [Job -> Nat]
    BY DEF NoJobs
  <2>2. \A w \in Worker : work[w] = Idle
    BY DEF Init
  <2>3. TypeOK
    <3>1. requests \in 0 .. MaxRequests /\ failures \in 0 .. MaxFailures
      BY BoundsType DEF Init
    <3>2. work \in [Worker -> {Idle} \cup Working]
      BY DEF Init
    <3>. QED
      BY <2>1, <3>1, <3>2 DEF Init, TypeOK
  <2>. QED
    BY <2>2, <2>3 DEF TypeInv, PcInv, At, Idle, Busy
<1>2. TypeInv /\ [Next]_vars => TypeInv'
  <2>. SUFFICES ASSUME TypeInv, [Next]_vars PROVE TypeInv'
    OBVIOUS
  <2>. USE DEF TypeInv
  <2>0. TypeOK
    OBVIOUS
  <2>1. ASSUME Request, UNCHANGED <<work>>,
               exists' \in BOOLEAN, disabled' \in BOOLEAN, query' \in Query,
               status' \in {None, "pending", "success", "failed"},
               calls' \in [Job -> Nat], flushed' \in {None, "alone", "beside"}
        PROVE  TypeInv'
    <3>1. requests' \in 0 .. MaxRequests
      BY <2>1, BoundsType DEF Request, TypeOK
    <3>2. PcInv'
      BY <2>1 DEF PcInv, At, Busy
    <3>. QED
      BY <2>1, <3>1, <3>2 DEF Request, TypeOK, stores
  <2>2. CASE \E q \in Query : Update(q)
    BY <2>1, <2>2 DEF Update, TypeOK, Request
  <2>3. CASE Trigger
    BY <2>1, <2>3, JobCases, AddedFacts DEF Trigger, TypeOK, Request
  <2>4. CASE RequestFlush
    BY <2>1, <2>4, JobCases, AddedFacts DEF RequestFlush, TypeOK, Request
  <2>5. CASE Delete
    BY <2>1, <2>5, JobCases, AddedFacts DEF Delete, TypeOK, Request
  <2>6. CASE \E flush \in BOOLEAN : RequestReindex(flush)
    BY <2>1, <2>6, JobCases, AddedFacts DEF RequestReindex, TypeOK, Request, row
  <2>7. CASE \E j \in Job : QueueJob(j)
    BY <2>7, AddedFacts, RemovedFacts
    DEF QueueJob, TypeOK, PcInv, At, Busy, row, stores, bounds
  <2>8. ASSUME NEW w \in Worker, Progress(w)
        PROVE  TypeInv'
    <3>1. ASSUME NEW j \in Job, Take(w, j)
          PROVE  TypeInv'
      <4>1. work' \in [Worker -> {Idle} \cup Working] /\ PcInv'
        BY <3>1, TakeKeeps
      <4>. QED
        BY <3>1, <4>1, RemovedFacts DEF Take, TypeOK, row, stores, bounds
    <3>2. CASE DeleteFragments(w)
      <4>1. work' \in [Worker -> {Idle} \cup Working] /\ PcInv'
        BY <3>2, GotoKeeps DEF DeleteFragments, At, Step
      <4>. QED
        BY <3>2, <4>1 DEF DeleteFragments, Keeps, Unchanged, TypeOK, row, jobs, bounds
    <3>3. CASE DeleteDocuments(w)
      <4>1. work[w].job \in Job /\ work[w].pc # "idle"
        BY <2>0, <3>3, BusyWorks DEF DeleteDocuments, At, Working
      <4>2. AfterDelete(w) \in Step /\ Goto(w, AfterDelete(w))
        BY <3>3, <4>1, AfterDeleteFacts DEF DeleteDocuments, Step
      <4>3. work' \in [Worker -> {Idle} \cup Working] /\ PcInv'
        BY <4>1, <4>2, AfterDeleteFacts, GotoKeeps
      <4>4. flushed' \in {None, "alone", "beside"}
        BY <3>3 DEF DeleteDocuments, Flushed, TypeOK
      <4>. QED
        BY <3>3, <4>3, <4>4 DEF DeleteDocuments, Unchanged, TypeOK, row, jobs, bounds
    <3>4. CASE DeleteMapped(w)
      <4>1. work[w].query # None
        BY <3>4 DEF DeleteMapped, PcInv, At
      <4>2. work' \in [Worker -> {Idle} \cup Working] /\ PcInv'
        BY <3>4, <4>1, NotFlush, GotoKeeps DEF DeleteMapped, At, Step
      <4>. QED
        BY <3>4, <4>2 DEF DeleteMapped, Keeps, Unchanged, TypeOK, row, jobs, bounds
    <3>5. CASE WriteMapped(w)
      <4>1. work[w].query \in Query /\ work[w].job \in Job
        BY <2>0, <3>5, BusyWorks DEF WriteMapped, PcInv, At, Working
      <4>2. work' \in [Worker -> {Idle} \cup Working] /\ PcInv'
        BY <3>5, <4>1, AfterMapFacts, NotFlush, GotoKeeps DEF WriteMapped, At, Step
      <4>. QED
        BY <3>5, <4>1, <4>2 DEF WriteMapped, Keeps, Unchanged, TypeOK, row, jobs, bounds
    <3>6. CASE ReadFragments(w)
      <4>1. work[w] \in Working
        BY <2>0, <3>6, BusyWorks DEF ReadFragments, At
      <4>2. PICK batch \in SUBSET Query : work' = [work EXCEPT ![w].batch = batch, ![w].pc = "index"]
        <5>1. PICK batch : /\ batch = IF work[w].job.op = "index" THEN fragments \cap work[w].job.ids ELSE fragments
                           /\ work' = [work EXCEPT ![w].batch = batch, ![w].pc = "index"]
          BY <3>6 DEF ReadFragments
        <5>2. batch \in SUBSET Query
          BY <2>0, <5>1 DEF TypeOK
        <5>. QED
          BY <5>1, <5>2
      <4>3. /\ work'[w] = [work[w] EXCEPT !.batch = batch, !.pc = "index"]
            /\ \A v \in Worker \ {w} : work'[v] = work[v]
        BY <2>0, <4>2 DEF TypeOK
      <4>4. work'[w] \in Working /\ work'[w].pc = "index"
        BY <4>1, <4>3 DEF Working, Step
      <4>5. work' \in [Worker -> {Idle} \cup Working] /\ PcInv'
        <5>1. work[w].job # Flush /\ work'[w].job = work[w].job
          <6>1. work[w].job # Flush
            BY <3>6, NotFlush DEF ReadFragments, At
          <6>. QED
            BY <4>1, <4>3, <6>1 DEF Working
        <5>. QED
          BY <2>0, <4>2, <4>3, <4>4, <5>1 DEF TypeOK, PcInv, At, Busy
      <4>. QED
        BY <3>6, <4>5 DEF ReadFragments, Keeps, Unchanged, TypeOK, stores, row, jobs, bounds
    <3>7. CASE WriteDocuments(w)
      <4>1. work[w].batch \subseteq Query /\ work[w].job \in Job
        BY <2>0, <3>7, BusyWorks DEF WriteDocuments, At, Working
      <4>2. PICK pc \in {"commit", "ack"} :
              Goto(w, pc) /\ (pc = "commit" => work[w].job = Load)
        BY <3>7, <4>1, JobCases DEF WriteDocuments
      <4>3. work' \in [Worker -> {Idle} \cup Working] /\ PcInv'
        BY <3>7, <4>2, NotFlush, GotoKeeps DEF WriteDocuments, At, Step
      <4>. QED
        BY <3>7, <4>1, <4>3 DEF WriteDocuments, Keeps, Unchanged, TypeOK, row, jobs, bounds
    <3>8. CASE QueueBatches(w)
      <4>1. waiting' \in [Job -> Nat]
        BY <3>8, JobCases, AddedFacts DEF QueueBatches, TypeOK
      <4>2. work' \in [Worker -> {Idle} \cup Working] /\ PcInv'
        BY <3>8, NotFlush, GotoKeeps DEF QueueBatches, At, Step
      <4>. QED
        BY <3>8, <4>1, <4>2 DEF QueueBatches, TypeOK, row, stores, bounds
    <3>9. CASE CommitSuccess(w)
      <4>1. CASE SetStatus(w, "success", "ack")
        <5>1. work' \in [Worker -> {Idle} \cup Working] /\ PcInv'
          BY <3>9, <4>1, NotFlush, GotoKeeps DEF CommitSuccess, SetStatus, At, Step
        <5>. QED
          BY <3>9, <4>1, <5>1 DEF CommitSuccess, SetStatus, TypeOK, stores, jobs, bounds
      <4>2. CASE Requeue(w)
        <5>1. work[w].job \in Job
          BY <2>0, <3>9, BusyWorks DEF CommitSuccess, At, Working
        <5>2. work' \in [Worker -> {Idle} \cup Working] /\ PcInv'
          BY <4>2, IdleKeeps DEF Requeue
        <5>. QED
          BY <3>9, <4>2, <5>1, <5>2, AddedFacts DEF CommitSuccess, Requeue, TypeOK, row, stores, bounds
      <4>. QED
        BY <3>9, <4>1, <4>2 DEF CommitSuccess
    <3>10. CASE DropFragments(w)
      <4>1. work' \in [Worker -> {Idle} \cup Working] /\ PcInv'
        BY <3>10, NotFlush, GotoKeeps DEF DropFragments, At, Step
      <4>. QED
        BY <3>10, <4>1 DEF DropFragments, Keeps, Unchanged, TypeOK, row, jobs, bounds
    <3>11. CASE Acknowledge(w)
      BY <3>11, IdleKeeps DEF Acknowledge, Keeps, Unchanged, TypeOK, stores, row, jobs, bounds
    <3>. QED
      BY <2>8, <3>1, <3>2, <3>3, <3>4, <3>5, <3>6, <3>7, <3>8, <3>9, <3>10, <3>11 DEF Progress
  <2>9. ASSUME NEW w \in Worker, Failure(w)
        PROVE  TypeInv'
    <3>0. ASSUME Fail PROVE failures' \in 0 .. MaxFailures /\ requests' \in 0 .. MaxRequests
      BY <3>0, BoundsType DEF Fail, TypeOK
    <3>1. CASE FailLoad(w)
      <4>0. work[w].pc # "idle"
        BY <3>1 DEF FailLoad, Trying
      <4>1. CASE SetStatus(w, "failed", "drop")
        <5>1. work' \in [Worker -> {Idle} \cup Working] /\ PcInv'
          BY <3>1, <4>0, <4>1, NotFlush, GotoKeeps DEF SetStatus, FailLoad, Trying, Step
        <5>. QED
          BY <3>0, <3>1, <4>1, <5>1 DEF FailLoad, SetStatus, TypeOK, stores, jobs
      <4>2. CASE Requeue(w)
        <5>1. work[w].job \in Job
          BY <2>0, <4>0, BusyWorks DEF Working
        <5>2. work' \in [Worker -> {Idle} \cup Working] /\ PcInv'
          BY <4>2, IdleKeeps DEF Requeue
        <5>. QED
          BY <3>0, <3>1, <4>2, <5>1, <5>2, AddedFacts DEF FailLoad, Requeue, TypeOK, row, stores
      <4>. QED
        BY <3>1, <4>1, <4>2 DEF FailLoad
    <3>2. CASE IgnoreBroken(w)
      <4>1. work[w].pc # "idle" /\ work[w].job \in Job
        BY <2>0, <3>2, BusyWorks DEF IgnoreBroken, Working
      <4>2. work' \in [Worker -> {Idle} \cup Working] /\ PcInv'
        BY <3>2, <4>1, AfterMapFacts, NotFlush, GotoKeeps DEF IgnoreBroken, Step
      <4>. QED
        BY <3>0, <3>2, <4>2 DEF IgnoreBroken, TypeOK, row, stores, jobs
    <3>3. CASE Crash(w)
      <4>1. work[w].job \in Job
        BY <2>0, <3>3 DEF Crash, TypeOK, Working
      <4>2. work' \in [Worker -> {Idle} \cup Working] /\ PcInv'
        BY <3>3, IdleKeeps DEF Crash
      <4>. QED
        BY <3>0, <3>3, <4>1, <4>2, AddedFacts DEF Crash, TypeOK, row, stores
    <3>. QED
      BY <2>9, <3>1, <3>2, <3>3 DEF Failure
  <2>10. CASE \E j \in Job : RetryStalled(j)
    BY <2>10, AddedFacts, RemovedFacts
    DEF RetryStalled, TypeOK, PcInv, At, Busy, row, stores, bounds
  <2>11. CASE UNCHANGED vars
    BY <2>11 DEF vars, row, stores, jobs, bounds, TypeOK, PcInv, At, Busy
  <2>. QED
    BY <2>2, <2>3, <2>4, <2>5, <2>6, <2>7, <2>8, <2>9, <2>10, <2>11 DEF Next, Requests
<1>. QED
  BY <1>1, <1>2, PTL DEF Spec

\* Every variable keeps its type, for any number of workers, queries,
\* requests and failures (logic/mapping.py, views/mappings_api.py).
THEOREM MappingTypeCorrect == Spec => []TypeOK
<1>1. TypeInv => TypeOK
  BY DEF TypeInv
<1>. QED
  BY <1>1, TypeInvariance, PTL

-----------------------------------------------------------------------------
(* Jobs that run next to each other.                                       *)

Taking(w) == \E j \in Job : Take(w, j)

\* Any other step of a worker leaves the others where they are, and its own
\* job what it is, or ends it.
LEMMA StepFacts ==
  ASSUME TypeInv, NEW w \in Worker, Progress(w) \/ Failure(w), ~Taking(w)
  PROVE  /\ Busy(w) /\ work[w] \in Working
         /\ \A v \in Worker \ {w} : work'[v] = work[v]
         /\ \/ work'[w] = Idle
            \/ /\ work'[w].job = work[w].job
               /\ work'[w].alone = work[w].alone
               /\ work'[w].query = work[w].query
         /\ UNCHANGED <<exists, disabled>>
<1>1. TypeOK
  BY DEF TypeInv
<1>2. UNCHANGED <<exists, disabled>>
  BY DEF Progress, Taking, Take, DeleteFragments, DeleteDocuments, DeleteMapped, WriteMapped,
         ReadFragments, WriteDocuments, QueueBatches, CommitSuccess, DropFragments,
         Acknowledge, Failure, FailLoad, IgnoreBroken, Crash, Keeps, Unchanged, SetStatus,
         Requeue, row
<1>3. Busy(w)
  BY DEF Progress, Taking, DeleteFragments, DeleteDocuments, DeleteMapped, WriteMapped,
         ReadFragments, WriteDocuments, QueueBatches, CommitSuccess, DropFragments,
         Acknowledge, Failure, FailLoad, Trying, IgnoreBroken, Crash, At, Busy, Idle
<1>4. work[w] \in Working
  BY <1>1, <1>3 DEF TypeOK, Busy
<1>5. \/ work' = [work EXCEPT ![w] = Idle]
      \/ \E pc : Goto(w, pc)
      \/ \E batch : work' = [work EXCEPT ![w].batch = batch, ![w].pc = "index"]
  BY DEF Progress, Taking, DeleteFragments, DeleteDocuments, DeleteMapped, WriteMapped,
         ReadFragments, WriteDocuments, QueueBatches, CommitSuccess, DropFragments,
         Acknowledge, Failure, FailLoad, IgnoreBroken, Crash, SetStatus, Requeue
<1>6. CASE work' = [work EXCEPT ![w] = Idle]
  BY <1>1, <1>2, <1>3, <1>4, <1>6 DEF TypeOK
<1>7. CASE \E pc : Goto(w, pc)
  <2>1. PICK pc : work' = [work EXCEPT ![w].pc = pc]
    BY <1>7 DEF Goto
  <2>2. /\ work'[w] = [work[w] EXCEPT !.pc = pc]
        /\ \A v \in Worker \ {w} : work'[v] = work[v]
    BY <1>1, <2>1 DEF TypeOK
  <2>. QED
    BY <1>2, <1>3, <1>4, <2>2 DEF Working
<1>8. CASE \E batch : work' = [work EXCEPT ![w].batch = batch, ![w].pc = "index"]
  <2>1. PICK batch : work' = [work EXCEPT ![w].batch = batch, ![w].pc = "index"]
    BY <1>8
  <2>2. /\ work'[w] = [work[w] EXCEPT !.batch = batch, !.pc = "index"]
        /\ \A v \in Worker \ {w} : work'[v] = work[v]
    BY <1>1, <2>1 DEF TypeOK
  <2>. QED
    BY <1>2, <1>3, <1>4, <2>2 DEF Working
<1>. QED
  BY <1>5, <1>6, <1>7, <1>8

\* A request, and a retry, change no worker and no store.
LEMMA OtherFacts ==
  ASSUME Requests \/ (\E j \in Job : RetryStalled(j)) \/ UNCHANGED vars
  PROVE  UNCHANGED <<work, fragments, documents>>
BY DEF Requests, Update, Trigger, RequestFlush, Delete, RequestReindex, QueueJob,
       Request, RetryStalled, stores, vars

LEMMA DisturbsFacts ==
  /\ \A i : Disturbs(i, Load) /\ Disturbs(Load, i)
  /\ \A i, j : Disturbs(i, j) <=> Disturbs(j, i)
  /\ \A i : ~Disturbs(i, Flush) <=> i = Flush
BY DEF Disturbs, Load, Flush

\* Next to a job that is alone there are none that disturb it.
LEMMA AloneStep ==
  ASSUME TypeInv, AloneInv, [Next]_vars
  PROVE  AloneInv'
<1>0. TypeOK
  BY DEF TypeInv
<1>1. ASSUME UNCHANGED work PROVE AloneInv'
  BY <1>1 DEF AloneInv, Busy
<1>2. ASSUME NEW u \in Worker, Progress(u) \/ Failure(u), ~Taking(u)
      PROVE  AloneInv'
  <2>1. /\ Busy(u)
        /\ \A v \in Worker \ {u} : work'[v] = work[v]
        /\ \/ work'[u] = Idle
           \/ work'[u].job = work[u].job /\ work'[u].alone = work[u].alone
    BY <1>2, StepFacts
  <2>. QED
    BY <2>1 DEF AloneInv, Busy
<1>3. ASSUME NEW u \in Worker, NEW j \in Job, Take(u, j)
      PROVE  AloneInv'
  <2>0. Taken(u, j)
    BY <1>0, <1>3, TakeFacts
  <2>1. /\ work[u] = Idle /\ work'[u].job = j
        /\ work'[u].alone => \A v \in Worker : work[v] # Idle => ~Disturbs(work[v].job, j)
        /\ \A v \in Worker \ {u} :
             /\ work[v] = Idle => work'[v] = Idle
             /\ work[v] # Idle =>
                  /\ work'[v].job = work[v].job
                  /\ work'[v].alone => work[v].alone /\ ~Disturbs(work[v].job, j)
    BY <2>0 DEF Taken
  <2>. SUFFICES ASSUME NEW v \in Worker, NEW w \in Worker, v # w,
                       work'[v] # Idle, work'[w] # Idle, work'[w].alone
                PROVE  ~Disturbs(work'[v].job, work'[w].job)
    BY DEF AloneInv, Busy
  <2>2. CASE w = u
    BY <2>1, <2>2
  <2>3. CASE v = u
    <3>1. work[w] # Idle /\ work'[w].job = work[w].job /\ ~Disturbs(work[w].job, j)
      BY <2>1, <2>3
    <3>. QED
      BY <2>1, <2>3, <3>1, DisturbsFacts
  <2>4. CASE v # u /\ w # u
    BY <2>1, <2>4 DEF AloneInv, Busy
  <2>. QED
    BY <2>2, <2>3, <2>4
<1>. QED
  BY <1>1, <1>2, <1>3, OtherFacts DEF Next, Taking

LEMMA AloneInvariance == Spec => []AloneInv
<1>1. Init => AloneInv
  BY DEF Init, AloneInv, Busy
<1>2. TypeInv /\ AloneInv /\ [Next]_vars => AloneInv'
  BY AloneStep
<1>. QED
  BY <1>1, <1>2, TypeInvariance, PTL DEF Spec

\* A step of another worker, next to a job that stays alone, is a step of a
\* job that does not disturb it.
LEMMA BesideAlone ==
  ASSUME TypeInv, AloneInv, NEW w \in Worker, NEW v \in Worker \ {w},
         Progress(v) \/ Failure(v), work'[w] # Idle, work'[w].alone
  PROVE  /\ Busy(w) /\ work[w].alone
         /\ work'[w].pc = work[w].pc /\ work'[w].job = work[w].job
         /\ work'[w].query = work[w].query /\ work'[w].batch = work[w].batch
         /\ \/ \E j \in Job : Take(v, j) /\ ~Disturbs(work[w].job, j)
            \/ ~Taking(v) /\ Busy(v) /\ ~Disturbs(work[v].job, work[w].job)
<1>0. TypeOK
  BY DEF TypeInv
<1>1. CASE ~Taking(v)
  <2>1. Busy(v) /\ work'[w] = work[w]
    BY <1>1, StepFacts
  <2>. QED
    BY <1>1, <2>1 DEF AloneInv, Busy
<1>2. ASSUME NEW j \in Job, Take(v, j)
      PROVE  /\ Busy(w) /\ work[w].alone /\ ~Disturbs(work[w].job, j)
             /\ work'[w].pc = work[w].pc /\ work'[w].job = work[w].job
             /\ work'[w].query = work[w].query /\ work'[w].batch = work[w].batch
  <2>0. Taken(v, j)
    BY <1>0, <1>2, TakeFacts
  <2>1. \A u \in Worker \ {v} :
          /\ work[u] = Idle => work'[u] = Idle
          /\ work[u] # Idle =>
               /\ work'[u].pc = work[u].pc /\ work'[u].job = work[u].job
               /\ work'[u].query = work[u].query /\ work'[u].batch = work[u].batch
               /\ work'[u].alone => work[u].alone /\ ~Disturbs(work[u].job, j)
    BY <2>0 DEF Taken
  <2>. QED
    BY <2>1 DEF Busy
<1>. QED
  BY <1>1, <1>2 DEF Taking

-----------------------------------------------------------------------------
(* What a load has done.                                                   *)

\* The steps of a load that stays alone follow each other undisturbed.
LEMMA LoadStep ==
  ASSUME TypeInv, AloneInv, LoadInv, [Next]_vars
  PROVE  LoadInv'
<1>. SUFFICES ASSUME NEW w \in Worker, work'[w] # Idle, work'[w].job = Load,
                     work'[w].alone
     PROVE  LoadSteps(w)'
  BY DEF LoadInv, Busy
<1>0. TypeOK
  BY DEF TypeInv
<1>1. ASSUME UNCHANGED <<work, fragments, documents>> PROVE LoadSteps(w)'
  BY <1>1 DEF LoadInv, LoadSteps, At, Empty, Busy
<1>2. ASSUME NEW v \in Worker \ {w}, Progress(v) \/ Failure(v)
      PROVE  LoadSteps(w)'
  <2>1. /\ Busy(w) /\ work[w].alone /\ work[w].job = Load
        /\ work'[w].pc = work[w].pc
        /\ work'[w].query = work[w].query /\ work'[w].batch = work[w].batch
        /\ \/ \E j \in Job : Take(v, j) /\ ~Disturbs(work[w].job, j)
           \/ ~Taking(v) /\ Busy(v) /\ ~Disturbs(work[v].job, work[w].job)
    BY <1>2, BesideAlone
  <2>. QED
    BY <2>1, DisturbsFacts
<1>3. ASSUME NEW j \in Job, Take(w, j) PROVE LoadSteps(w)'
  <2>0. Taken(w, j)
    BY <1>0, <1>3, TakeFacts
  <2>1. work'[w].pc = FirstStep(j) /\ work'[w].job = j
    BY <2>0 DEF Taken
  <2>2. work'[w].pc \in {"fragments", "ack"}
    BY <1>0, <2>1, FirstStepFacts
  <2>. QED
    BY <2>2 DEF LoadSteps, At
<1>4. ASSUME Progress(w) \/ Failure(w), ~Taking(w)
      PROVE  LoadSteps(w)'
  <2>0. /\ work[w] \in Working /\ work[w].job = Load /\ LoadSteps(w)
        /\ work'[w].query = work[w].query
    BY <1>4, StepFacts DEF LoadInv
  <2>2. CASE DeleteFragments(w)
    BY <1>0, <2>2, GotoFacts DEF DeleteFragments, LoadSteps, At, Step
  <2>3. CASE DeleteDocuments(w)
    <3>1. AfterDelete(w) \in {"map", "ack"}
      BY <2>0 DEF AfterDelete, Load
    <3>2. work'[w].pc = AfterDelete(w)
      BY <1>0, <2>3, <3>1, GotoFacts DEF DeleteDocuments, At, Step
    <3>. QED
      BY <2>0, <2>3, <3>1, <3>2 DEF DeleteDocuments, LoadSteps, At, Empty
  <2>4. CASE DeleteMapped(w)
    <3>1. work'[w].pc = "write"
      BY <1>0, <2>4, GotoFacts DEF DeleteMapped, At, Step
    <3>. QED
      BY <2>0, <2>4, <3>1 DEF DeleteMapped, LoadSteps, At, Empty
  <2>5. CASE WriteMapped(w)
    <3>1. work'[w].pc = "read"
      BY <1>0, <2>0, <2>5, JobCases, AfterMapFacts, GotoFacts DEF WriteMapped, At, Step
    <3>. QED
      BY <2>0, <2>5, <3>1 DEF WriteMapped, LoadSteps, At, Empty
  <2>6. CASE ReadFragments(w)
    <3>2. PICK batch : /\ batch = IF work[w].job.op = "index" THEN fragments \cap work[w].job.ids ELSE fragments
                       /\ work'[w] = [work[w] EXCEPT !.batch = batch, !.pc = "index"]
      BY <1>0, <2>6 DEF ReadFragments, TypeOK
    <3>3. work'[w].pc = "index" /\ work'[w].batch = batch
      BY <2>0, <3>2 DEF Working
    <3>4. batch = fragments
      BY <2>0, <3>2 DEF Load
    <3>5. fragments = {work[w].query} /\ documents = {}
      BY <2>0, <2>6 DEF ReadFragments, LoadSteps, At
    <3>. QED
      BY <2>0, <2>6, <3>3, <3>4, <3>5 DEF ReadFragments, LoadSteps, At, stores
  <2>7. CASE WriteDocuments(w)
    <3>1. work'[w].pc = "commit"
      BY <1>0, <2>0, <2>7, GotoFacts DEF WriteDocuments, At, Step, Load
    <3>2. /\ fragments = {work[w].query} /\ documents = {}
          /\ work[w].batch = {work[w].query}
      BY <2>0, <2>7 DEF WriteDocuments, LoadSteps, At
    <3>. QED
      BY <2>0, <2>7, <3>1, <3>2 DEF WriteDocuments, LoadSteps, At
  <2>8. CASE QueueBatches(w)
    BY <1>0, <2>8, GotoFacts DEF QueueBatches, LoadSteps, At, Step
  <2>9. CASE CommitSuccess(w) \/ FailLoad(w)
    <3>1. work[w].pc # "idle"
      BY <2>9 DEF CommitSuccess, FailLoad, Trying, At
    <3>2. work'[w] = Idle \/ work'[w].pc \in {"ack", "drop"}
      BY <1>0, <2>9, <3>1, GotoFacts DEF CommitSuccess, FailLoad, SetStatus, Requeue, TypeOK, Step
    <3>. QED
      BY <3>2 DEF LoadSteps, At
  <2>10. CASE DropFragments(w)
    BY <1>0, <2>10, GotoFacts DEF DropFragments, LoadSteps, At, Step
  <2>11. CASE Acknowledge(w) \/ Crash(w)
    BY <1>0, <2>11 DEF Acknowledge, Crash, TypeOK
  <2>12. CASE IgnoreBroken(w)
    BY <2>0, <2>12 DEF IgnoreBroken
  <2>. QED
    BY <1>4, <2>2, <2>3, <2>4, <2>5, <2>6, <2>7, <2>8, <2>9, <2>10, <2>11, <2>12
    DEF Progress, Failure, Taking
<1>. QED
  BY <1>1, <1>2, <1>3, <1>4, OtherFacts DEF Next, Taking

(* With any number of workers, requests and failures, a load that reports  *)
(* success and that no other job got in the way of has replaced all that   *)
(* the mapping generated before, however earlier jobs failed               *)
(* (load_mapping).                                                         *)
THEOREM LoadAlwaysReplaces == Spec => LoadReplaces
<1>1. Init => LoadInv
  BY DEF Init, LoadInv, Busy
<1>2. TypeInv /\ AloneInv /\ LoadInv /\ [Next]_vars => LoadInv'
  BY LoadStep
<1>3. TypeInv /\ LoadInv /\ [Next]_vars =>
        [\A w \in Worker :
           At(w, "commit") /\ work[w].pc # work'[w].pc /\ status' = "success" /\ work[w].alone
             => fragments = {work[w].query} /\ documents = {work[w].query}]_vars
  BY DEF TypeInv, PcInv, LoadInv, LoadSteps, At, Idle, Busy
<1>. QED
  BY <1>1, <1>2, <1>3, TypeInvariance, AloneInvariance, PTL DEF Spec, LoadReplaces

-----------------------------------------------------------------------------
(* What a flush has done.                                                  *)

\* A flush only deletes.
LEMMA FlushDeletes ==
  ASSUME TypeInv, NEW w \in Worker, Progress(w) \/ Failure(w), ~Taking(w),
         work[w].job = Flush
  PROVE  fragments' \subseteq fragments /\ documents' \subseteq documents
<1>1. work[w].pc \in {"fragments", "documents", "ack"}
  BY StepFacts DEF TypeInv, PcInv
<1>. QED
  BY <1>1 DEF Progress, Taking, DeleteFragments, DeleteDocuments, DeleteMapped, WriteMapped,
       ReadFragments, WriteDocuments, QueueBatches, CommitSuccess, DropFragments,
       Acknowledge, Failure, FailLoad, Trying, IgnoreBroken, Crash, At, Keeps, stores

\* Fragments that a flush has deleted do not come back while it is alone.
LEMMA FlushStep ==
  ASSUME TypeInv, AloneInv, FlushInv, [Next]_vars
  PROVE  FlushInv'
<1>. SUFFICES ASSUME NEW w \in Worker, work'[w] # Idle, work'[w].job = Flush,
                     work'[w].alone, work'[w].pc = "documents"
     PROVE  fragments' = {}
  BY DEF FlushInv, Busy, At
<1>0. TypeOK
  BY DEF TypeInv
<1>1. ASSUME UNCHANGED <<work, fragments>> PROVE fragments' = {}
  BY <1>1 DEF FlushInv, Busy, At
<1>2. ASSUME NEW v \in Worker \ {w}, Progress(v) \/ Failure(v)
      PROVE  fragments' = {}
  <2>1. /\ Busy(w) /\ work[w].alone /\ work[w].job = Flush
        /\ work[w].pc = "documents"
        /\ \/ \E j \in Job : Take(v, j) /\ ~Disturbs(work[w].job, j)
           \/ ~Taking(v) /\ Busy(v) /\ ~Disturbs(work[v].job, work[w].job)
    BY <1>2, BesideAlone
  <2>2. fragments = {}
    BY <2>1 DEF FlushInv, At
  <2>3. CASE \E j \in Job : Take(v, j)
    BY <2>2, <2>3 DEF Take, stores
  <2>4. CASE ~Taking(v) /\ work[v].job = Flush
    <3>1. fragments' \subseteq fragments
      BY <1>2, <2>4, FlushDeletes
    <3>. QED
      BY <2>2, <3>1
  <2>. QED
    BY <2>1, <2>3, <2>4, DisturbsFacts
<1>3. ASSUME NEW j \in Job, Take(w, j) PROVE fragments' = {}
  <2>0. Taken(w, j)
    BY <1>0, <1>3, TakeFacts
  <2>1. work'[w].pc = FirstStep(j) /\ work'[w].job = j
    BY <2>0 DEF Taken
  <2>. QED
    BY <1>0, <2>1, FirstStepFacts
<1>4. ASSUME Progress(w) \/ Failure(w), ~Taking(w)
      PROVE  fragments' = {}
  <2>1. /\ work[w].job = Flush /\ work[w].pc \in {"fragments", "documents", "ack"}
    BY <1>4, StepFacts DEF TypeInv, PcInv
  <2>2. CASE DeleteFragments(w)
    BY <2>2 DEF DeleteFragments
  <2>3. CASE DeleteDocuments(w)
    <3>1. work'[w].pc = "ack"
      BY <1>0, <2>1, <2>3, JobCases, AfterDeleteFacts, GotoFacts DEF DeleteDocuments, At, Step
    <3>. QED
      BY <3>1
  <2>4. CASE Acknowledge(w) \/ Crash(w)
    BY <1>0, <2>4 DEF Acknowledge, Crash, TypeOK
  <2>5. CASE IgnoreBroken(w) \/ FailLoad(w) \/ CommitSuccess(w)
    BY <2>1, <2>5 DEF IgnoreBroken, FailLoad, Trying, CommitSuccess, At
  <2>. QED
    BY <1>4, <2>1, <2>2, <2>3, <2>4, <2>5
    DEF Progress, Failure, Taking, DeleteMapped, WriteMapped, ReadFragments,
        WriteDocuments, QueueBatches, DropFragments, At
<1>. QED
  BY <1>1, <1>2, <1>3, <1>4, OtherFacts DEF Next, Taking

\* While the mapping is switched off or gone, empty stores stay empty.
LEMMA CleanStays ==
  ASSUME TypeInv, NEW w \in Worker, Progress(w) \/ Failure(w), ~Enabled, Clean
  PROVE  Clean'
<1>0. TypeOK /\ Empty /\ Harmless(w)
  BY DEF TypeInv, Clean
<1>1. ASSUME NEW j \in Job, Take(w, j)
      PROVE  Clean'
  <2>0. Taken(w, j)
    BY <1>0, <1>1, TakeFacts
  <2>1. /\ work'[w].pc = FirstStep(j) /\ work'[w].query = Snapshot
        /\ \A v \in Worker \ {w} :
             /\ work[v] = Idle => work'[v] = Idle
             /\ work[v] # Idle =>
                  /\ work'[v].pc = work[v].pc /\ work'[v].job = work[v].job
                  /\ work'[v].query = work[v].query /\ work'[v].batch = work[v].batch
    BY <2>0 DEF Taken
  <2>2. Snapshot = None
    BY DEF Snapshot
  <2>3. Harmless(w)'
    BY <1>0, <2>1, <2>2, FirstStepFacts DEF Harmless, At
  <2>4. \A v \in Worker \ {w} : Harmless(v)'
    BY <2>1 DEF Clean, Harmless, At
  <2>. QED
    BY <1>0, <1>1, <2>3, <2>4 DEF Clean, Empty, Take, stores
<1>2. ASSUME ~Taking(w)
      PROVE  Clean'
  <2>0. /\ work[w] \in Working /\ work[w].job \in Job
        /\ \A v \in Worker \ {w} : work'[v] = work[v]
    BY <1>2, StepFacts DEF Working
  <2>1. \A v \in Worker \ {w} : Harmless(v)'
    BY <2>0 DEF Clean, Harmless, At
  <2>2. ASSUME Empty', Harmless(w)' PROVE Clean'
    BY <2>1, <2>2 DEF Clean
  <2>3. CASE DeleteFragments(w)
    <3>1. /\ work'[w].pc = "documents" /\ work'[w].job = work[w].job
          /\ work'[w].query = work[w].query
      BY <1>0, <2>3, GotoFacts DEF DeleteFragments, At, Step
    <3>. QED
      BY <1>0, <2>2, <2>3, <3>1 DEF DeleteFragments, Harmless, Empty, At
  <2>4. CASE DeleteDocuments(w)
    <3>1. AfterDelete(w) \in {"queue", "ack"}
      BY <1>0, <2>0, <2>4, AfterDeleteFacts DEF DeleteDocuments, Harmless, At
    <3>2. work'[w].pc = AfterDelete(w)
      BY <1>0, <2>4, <3>1, GotoFacts DEF DeleteDocuments, At, Step
    <3>. QED
      BY <1>0, <2>2, <2>4, <3>1, <3>2 DEF DeleteDocuments, Harmless, Empty
  <2>5. CASE DeleteMapped(w) \/ WriteMapped(w) \/ IgnoreBroken(w)
    BY <1>0, <2>5 DEF DeleteMapped, WriteMapped, IgnoreBroken, Harmless, At
  <2>6. CASE ReadFragments(w)
    <3>1. PICK batch : /\ batch = IF work[w].job.op = "index" THEN fragments \cap work[w].job.ids ELSE fragments
                       /\ work'[w] = [work[w] EXCEPT !.batch = batch, !.pc = "index"]
      BY <1>0, <2>6 DEF ReadFragments, TypeOK
    <3>2. work'[w].pc = "index" /\ work'[w].batch = batch
      BY <2>0, <3>1 DEF Working
    <3>3. batch = {}
      BY <1>0, <3>1 DEF Empty
    <3>. QED
      BY <1>0, <2>2, <2>6, <3>2, <3>3 DEF ReadFragments, Harmless, Empty, At, stores
  <2>7. CASE WriteDocuments(w)
    <3>1. PICK pc \in {"commit", "ack"} : Goto(w, pc)
      BY <2>7 DEF WriteDocuments
    <3>2. work'[w].pc \in {"commit", "ack"}
      BY <1>0, <2>7, <3>1, GotoFacts DEF WriteDocuments, At, Step
    <3>. QED
      BY <1>0, <2>2, <2>7, <3>2 DEF WriteDocuments, Harmless, Empty, At
  <2>8. CASE QueueBatches(w)
    <3>1. work'[w].pc = "ack"
      BY <1>0, <2>8, GotoFacts DEF QueueBatches, At, Step
    <3>. QED
      BY <1>0, <2>2, <2>8, <3>1 DEF QueueBatches, Harmless, Empty, stores
  <2>9. CASE CommitSuccess(w) \/ FailLoad(w)
    <3>1. work[w].pc # "idle"
      BY <2>9 DEF CommitSuccess, FailLoad, Trying, At
    <3>2. work'[w].pc \in {"idle", "ack", "drop"}
      BY <1>0, <2>9, <3>1, GotoFacts
      DEF CommitSuccess, FailLoad, SetStatus, Requeue, TypeOK, Idle, Step
    <3>3. UNCHANGED <<fragments, documents>>
      BY <2>9 DEF CommitSuccess, FailLoad, SetStatus, Requeue, stores
    <3>. QED
      BY <1>0, <2>2, <3>2, <3>3 DEF Harmless, Empty
  <2>10. CASE DropFragments(w)
    <3>1. work'[w].pc = "ack"
      BY <1>0, <2>10, GotoFacts DEF DropFragments, At, Step
    <3>. QED
      BY <1>0, <2>2, <2>10, <3>1 DEF DropFragments, Harmless, Empty
  <2>11. CASE Acknowledge(w) \/ Crash(w)
    <3>1. work'[w].pc = "idle"
      BY <1>0, <2>11 DEF Acknowledge, Crash, TypeOK, Idle
    <3>. QED
      BY <1>0, <2>2, <2>11, <3>1 DEF Acknowledge, Crash, Harmless, Empty, stores
  <2>. QED
    BY <1>2, <2>3, <2>4, <2>5, <2>6, <2>7, <2>8, <2>9, <2>10, <2>11
    DEF Progress, Failure, Taking
<1>. QED
  BY <1>1, <1>2 DEF Taking

\* A flush that ends undisturbed leaves the stores clean.
LEMMA FlushCleans ==
  ASSUME TypeInv, AloneInv, FlushInv, NEW w \in Worker, DeleteDocuments(w),
         work[w].job = Flush, work[w].alone
  PROVE  Clean'
<1>0. TypeOK /\ Busy(w) /\ work[w] \in Working
  BY BusyWorks DEF TypeInv, DeleteDocuments, At, Busy, Idle
<1>1. Empty'
  BY <1>0 DEF FlushInv, DeleteDocuments, Empty
<1>2. work'[w].pc = "ack" /\ \A v \in Worker \ {w} : work'[v] = work[v]
  BY <1>0, JobCases, AfterDeleteFacts, GotoFacts DEF DeleteDocuments, At, Step
<1>3. ASSUME NEW v \in Worker \ {w}
      PROVE  Harmless(v)'
  <2>1. CASE work[v] = Idle
    BY <1>2, <2>1 DEF Harmless, Idle
  <2>2. CASE Busy(v)
    <3>1. work[v].job = Flush
      BY <1>0, <2>2, DisturbsFacts DEF AloneInv
    <3>2. work[v].pc \in {"fragments", "documents", "ack"}
      BY <2>2, <3>1 DEF TypeInv, PcInv
    <3>3. Flush # Load
      BY DEF Flush, Load
    <3>. QED
      BY <1>2, <3>1, <3>2, <3>3 DEF Harmless
  <2>. QED
    BY <2>1, <2>2 DEF Busy
<1>4. Harmless(w)'
  BY <1>2 DEF Harmless
<1>. QED
  BY <1>1, <1>3, <1>4 DEF Clean

\* A flush that is queued stays queued until a worker takes it.
LEMMA FlushWaits ==
  ASSUME TypeInv, FlushQueued, [Next]_vars
  PROVE  FlushQueued' \/ \E w \in Worker : Flushing(w)'
<1>0. TypeOK /\ Flush \in Job /\ Load \in Job
  BY JobCases DEF TypeInv
<1>1. ASSUME UNCHANGED <<calls, waiting, stalled>> PROVE FlushQueued'
  BY <1>1 DEF FlushQueued
<1>2. CASE Requests
  <2>1. CASE \E q \in Query : Update(q)
    BY <1>1, <2>1 DEF Update, Request
  <2>2. CASE Trigger \/ RequestFlush \/ Delete \/ \E flush \in BOOLEAN : RequestReindex(flush)
    <3>1. PICK j \in Job : calls' = Added(calls, j) /\ UNCHANGED <<waiting, stalled>>
      BY <1>0, <2>2, JobCases DEF Trigger, RequestFlush, Delete, RequestReindex, Request
    <3>. QED
      BY <1>0, <3>1, AddedFacts DEF FlushQueued, TypeOK
  <2>3. ASSUME NEW j \in Job, QueueJob(j) PROVE FlushQueued'
    <3>1. /\ waiting'[j] > 0
          /\ \A i \in Job : waiting[i] > 0 => waiting'[i] > 0
          /\ UNCHANGED stalled
      BY <1>0, <2>3, AddedFacts DEF QueueJob, TypeOK
    <3>2. \A i \in Job : i # j => calls'[i] = calls[i]
      BY <1>0, <2>3, RemovedFacts DEF QueueJob, TypeOK
    <3>. QED
      BY <1>0, <3>1, <3>2 DEF FlushQueued
  <2>. QED
    BY <1>2, <2>1, <2>2, <2>3 DEF Requests
<1>3. ASSUME NEW j \in Job, RetryStalled(j) PROVE FlushQueued'
  <2>1. /\ waiting'[j] > 0
        /\ \A i \in Job : waiting[i] > 0 => waiting'[i] > 0
        /\ UNCHANGED calls
    BY <1>0, <1>3, AddedFacts DEF RetryStalled, TypeOK
  <2>2. \A i \in Job : i # j => stalled'[i] = stalled[i]
    BY <1>0, <1>3, RemovedFacts DEF RetryStalled, TypeOK
  <2>. QED
    BY <1>0, <2>1, <2>2 DEF FlushQueued
<1>4. ASSUME NEW w \in Worker, NEW j \in Job, Take(w, j)
      PROVE  FlushQueued' \/ Flushing(w)'
  <2>1. CASE j = Flush
    <3>0. Taken(w, j)
      BY <1>0, <1>4, TakeFacts
    <3>1. work'[w] \in Working /\ work'[w].pc = FirstStep(j) /\ work'[w].job = j
      BY <3>0 DEF Taken
    <3>2. work'[w].pc = "fragments" /\ work'[w] # Idle
      BY <1>0, <2>1, <3>1, FirstStepFacts DEF Idle
    <3>. QED
      BY <2>1, <3>1, <3>2 DEF Flushing, Busy
  <2>2. CASE j # Flush
    BY <1>0, <1>4, <2>2, RemovedFacts DEF Take, FlushQueued, TypeOK
  <2>. QED
    BY <2>1, <2>2
<1>5. ASSUME NEW w \in Worker, Progress(w) \/ Failure(w), ~Taking(w)
      PROVE  FlushQueued'
  <2>0. work[w].job \in Job
    BY <1>5, StepFacts DEF Working
  <2>1. CASE UNCHANGED jobs
    BY <1>1, <2>1 DEF jobs
  <2>2. CASE QueueBatches(w)
    BY <1>0, <2>2, JobCases, AddedFacts DEF QueueBatches, FlushQueued, TypeOK
  <2>3. CASE Requeue(w)
    BY <1>0, <2>0, <2>3, AddedFacts DEF Requeue, FlushQueued, TypeOK
  <2>4. CASE Crash(w)
    BY <1>0, <2>0, <2>4, AddedFacts DEF Crash, FlushQueued, TypeOK
  <2>. QED
    BY <1>5, <2>1, <2>2, <2>3, <2>4
    DEF Progress, Failure, Taking, DeleteFragments, DeleteDocuments, DeleteMapped,
        WriteMapped, ReadFragments, WriteDocuments, CommitSuccess, DropFragments,
        Acknowledge, FailLoad, IgnoreBroken, Keeps, Unchanged, SetStatus
<1>. QED
  BY <1>1, <1>2, <1>3, <1>4, <1>5 DEF Next, Taking, vars, jobs

\* A flush that is under way ends, or is queued again.
LEMMA FlushGoesOn ==
  ASSUME TypeInv, NEW u \in Worker, Flushing(u), [Next]_vars
  PROVE  Flushing(u)' \/ FlushQueued' \/ flushed' \in {"alone", "beside"}
<1>0. TypeOK /\ Flush \in Job /\ Busy(u)
  BY JobCases DEF TypeInv, Flushing
<1>1. ASSUME UNCHANGED work PROVE Flushing(u)'
  BY <1>1 DEF Flushing, Busy
<1>2. ASSUME NEW w \in Worker, NEW j \in Job, Take(w, j)
      PROVE  Flushing(u)'
  <2>0. Taken(w, j)
    BY <1>0, <1>2, TakeFacts
  <2>1. /\ work[w] = Idle
        /\ \A v \in Worker \ {w} :
             work[v] # Idle => /\ work'[v] \in Working
                               /\ work'[v].pc = work[v].pc /\ work'[v].job = work[v].job
    BY <2>0 DEF Taken
  <2>2. u # w
    BY <1>0, <2>1 DEF Busy
  <2>3. /\ work'[u].pc = work[u].pc /\ work'[u].job = work[u].job
        /\ work'[u].pc # "idle"
    BY <1>0, <2>1, <2>2 DEF Busy, Flushing
  <2>. QED
    BY <2>3 DEF Flushing, Busy, Idle
<1>3. ASSUME NEW w \in Worker \ {u}, Progress(w) \/ Failure(w), ~Taking(w)
      PROVE  Flushing(u)'
  BY <1>3, StepFacts DEF Flushing, Busy
<1>4. ASSUME Progress(u) \/ Failure(u), ~Taking(u)
      PROVE  Flushing(u)' \/ FlushQueued' \/ flushed' \in {"alone", "beside"}
  <2>1. CASE DeleteFragments(u)
    <3>1. /\ work'[u] \in Working /\ work'[u].pc = "documents"
          /\ work'[u].job = work[u].job
      BY <1>0, <2>1, GotoFacts DEF DeleteFragments, At, Step
    <3>. QED
      BY <3>1 DEF Flushing, Busy, Idle
  <2>2. CASE DeleteDocuments(u)
    BY <2>2 DEF DeleteDocuments, Flushed, Flushing
  <2>3. CASE Crash(u)
    BY <1>0, <2>3, AddedFacts DEF Crash, Flushing, FlushQueued, TypeOK
  <2>4. Flush # Load
    BY DEF Flush, Load
  <2>. QED
    BY <1>4, <2>1, <2>2, <2>3, <2>4
    DEF Flushing, Progress, Failure, Taking, DeleteMapped, WriteMapped, ReadFragments,
        WriteDocuments, QueueBatches, CommitSuccess, DropFragments, Acknowledge,
        FailLoad, IgnoreBroken, At
<1>. QED
  BY <1>1, <1>2, <1>3, <1>4, OtherFacts DEF Next, Taking

\* A mapping that is switched off or gone keeps a flush ahead of it until one
\* has run, and is clean for good once one has run undisturbed.
LEMMA GoneStep ==
  ASSUME TypeInv, AloneInv, FlushInv, GoneInv, [Next]_vars
  PROVE  GoneInv'
<1>. DEFINE Due == FlushQueued \/ \E w \in Worker : Flushing(w)
<1>. SUFFICES ASSUME ~Enabled'
     PROVE  IF flushed' = "alone" THEN Clean' ELSE Due' \/ flushed' = "beside"
  BY DEF GoneInv
<1>0. TypeOK /\ Flush \in Job
  BY JobCases DEF TypeInv
<1>1. CASE RequestFlush \/ Delete
  <2>1. FlushQueued' /\ flushed' = None
    BY <1>0, <1>1, AddedFacts DEF RequestFlush, Delete, FlushQueued, TypeOK
  <2>. QED
    BY <2>1, NoneIsNew
<1>2. CASE Trigger
  BY <1>2 DEF Trigger, Enabled
\* Of all other steps, only the end of a flush changes what the goal is about.
<1>3. ASSUME ~Enabled, UNCHANGED flushed, flushed = "alone" => Clean'
      PROVE  IF flushed' = "alone" THEN Clean' ELSE Due' \/ flushed' = "beside"
  <2>1. CASE flushed = "alone" \/ flushed = "beside"
    BY <1>3, <2>1
  <2>2. CASE flushed # "alone" /\ flushed # "beside" /\ FlushQueued
    BY <1>3, <2>2, FlushWaits
  <2>3. CASE flushed # "alone" /\ flushed # "beside" /\ \E u \in Worker : Flushing(u)
    BY <1>3, <2>3, FlushGoesOn
  <2>. QED
    BY <1>3, <2>1, <2>2, <2>3 DEF GoneInv
<1>4. ASSUME UNCHANGED <<work, fragments, documents, exists, disabled, flushed>>
      PROVE  IF flushed' = "alone" THEN Clean' ELSE Due' \/ flushed' = "beside"
  <2>1. ~Enabled
    BY <1>4 DEF Enabled
  <2>2. flushed = "alone" => Clean'
    BY <1>4, <2>1 DEF GoneInv, Clean, Empty, Harmless, At
  <2>. QED
    BY <1>3, <1>4, <2>1, <2>2
<1>5. CASE \/ \E q \in Query : Update(q)
           \/ \E flush \in BOOLEAN : RequestReindex(flush)
           \/ \E j \in Job : QueueJob(j)
           \/ \E j \in Job : RetryStalled(j)
           \/ UNCHANGED vars
  BY <1>4, <1>5 DEF Update, RequestReindex, QueueJob, RetryStalled, Request, vars, row, stores
<1>6. ASSUME NEW w \in Worker, Progress(w) \/ Failure(w)
      PROVE  IF flushed' = "alone" THEN Clean' ELSE Due' \/ flushed' = "beside"
  <2>1. UNCHANGED <<exists, disabled>>
    BY <1>6, StepFacts DEF Taking, Take, row
  <2>2. ~Enabled
    BY <2>1 DEF Enabled
  <2>3. flushed = "alone" => Clean'
    BY <1>6, <2>2, CleanStays DEF GoneInv
  <2>4. CASE UNCHANGED flushed
    BY <1>3, <2>2, <2>3, <2>4
  <2>5. CASE DeleteDocuments(w)
    <3>1. CASE flushed' = flushed
      BY <2>4, <3>1
    <3>2. CASE work[w].job = Flush /\ flushed # "alone" /\ work[w].alone
      <4>1. flushed' = "alone"
        BY <2>5, <3>2 DEF DeleteDocuments, Flushed
      <4>2. Clean'
        BY <2>5, <3>2, FlushCleans
      <4>. QED
        BY <4>1, <4>2
    <3>3. CASE work[w].job = Flush /\ flushed # "alone" /\ ~work[w].alone
      BY <2>5, <3>3 DEF DeleteDocuments, Flushed
    <3>. QED
      BY <2>5, <3>1, <3>2, <3>3 DEF DeleteDocuments, Flushed
  <2>. QED
    BY <1>6, <2>4, <2>5
    DEF Progress, Failure, Take, DeleteFragments, DeleteMapped, WriteMapped, ReadFragments,
        WriteDocuments, QueueBatches, CommitSuccess, DropFragments, Acknowledge, FailLoad,
        IgnoreBroken, Crash, Keeps, SetStatus, Requeue
<1>. QED
  BY <1>1, <1>2, <1>5, <1>6 DEF Next, Requests

(* With any number of workers, requests, retries and failures, nothing is  *)
(* left of what a flushed or deleted mapping generated once a flush has    *)
(* run with no load or reindex next to it, and nothing comes back; and if  *)
(* none has met one, once all jobs are done (flush_mapping).               *)
THEOREM FlushedEndsEmpty == Spec => []FlushedIsEmpty
<1>1. Init => FlushInv /\ GoneInv
  BY DEF Init, FlushInv, GoneInv, Enabled, Busy
<1>2. TypeInv /\ AloneInv /\ FlushInv /\ GoneInv /\ [Next]_vars => FlushInv' /\ GoneInv'
  BY FlushStep, GoneStep
<1>3. GoneInv => FlushedIsEmpty
  BY JobCases
  DEF GoneInv, FlushedIsEmpty, Clean, Quiet, FlushQueued, Flushing, Busy, NoJobs
<1>. QED
  BY <1>1, <1>2, <1>3, TypeInvariance, AloneInvariance, PTL DEF Spec
=============================================================================
