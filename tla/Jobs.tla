-------------------------------- MODULE Jobs --------------------------------
(***************************************************************************)
(* The asynchronous jobs of the backend (internal/jobs): a request stores  *)
(* a job with its list of items and queues it; a pool of goroutines        *)
(* processes jobs item by item; a sweep queues again whatever the database *)
(* says is not finished.  The row in async_jobs is durable; the map        *)
(* Store.cache has the latest progress and is lost with the process.       *)
(***************************************************************************)
EXTENDS Integers, Sequences, FiniteSets, FiniteSetsExt, SequencesExt

CONSTANTS
    JobIds,        \* jobs, numbered in the order of created_at
    Workers,       \* goroutines of the pool (4 in the code)
    Items,         \* items of every job
    Unregistered,  \* jobs of a type no handler is registered for
    FlushBatch,    \* resultsFlushBatchSize (10 in the code)
    QueueCap,      \* capacity of the queue channel (500 in the code)
    SweepLimit,    \* LIMIT of ListActive (500 in the code)
    MaxJobs,       \* bound: jobs created in one behaviour
    MaxRuns,       \* bound: runs of an item that are counted
    MaxFailures    \* bound: restarts of the server and failed writes of async_jobs, together

ASSUME JobsAssumption ==
    /\ JobIds \subseteq Nat \ {0} /\ IsFiniteSet(JobIds)
    /\ Unregistered \subseteq JobIds
    /\ {Items, FlushBatch, QueueCap, SweepLimit, MaxRuns} \subseteq Nat \ {0}
    /\ {MaxJobs, MaxFailures} \subseteq Nat

VARIABLES
    db,        \* the row of each job in async_jobs
    cache,     \* Store.cache
    request,   \* the request that creates each job
    queue,     \* Worker.queue
    inFlight,  \* Worker.inFlightJobs
    worker,    \* the goroutines of the pool
    sweep,     \* the goroutine of sweepPending
    get,       \* a request that reads a job outside the cache
    runs,      \* times the handler ran for each item
    late,      \* history: jobs whose progress a late write set back
    crashes, errors

created == <<request, get, late>>
pool == <<queue, inFlight>>
vars == <<db, cache, created, pool, worker, sweep, runs, crashes, errors>>

-----------------------------------------------------------------------------
Absent == [status |-> "absent", items |-> 0, failed |-> FALSE]
NewJob == [status |-> "pending", items |-> 0, failed |-> FALSE]

(* items: DoneItems + FailItems; failed: FailItems > 0 *)
Job == [status : {"absent", "pending", "processing", "done", "failed"},
        items : 0..Items, failed : BOOLEAN]

Active == {"pending", "processing"}
Terminal == {"done", "failed"}
IsDone(j) == j.status \in Terminal

NoJob == 0
Idle == [pc |-> "idle", job |-> NoJob, idx |-> 0, failed |-> FALSE, since |-> 0]
AtTimer == [pc |-> "timer", rows |-> [j \in {} |-> Absent]]
NoGet == [job |-> NoJob, row |-> Absent]

(* The upsert of one row, which may fail; db.IsTransientConnectionError     *)
(* tells errors of the connection from the others.                          *)
Persist(j, row, outcome) ==
    /\ outcome = "ok" \/ crashes + errors < MaxFailures
    /\ db' = IF outcome = "ok" THEN [db EXCEPT ![j] = row] ELSE db
    /\ errors' = IF outcome = "ok" THEN errors ELSE errors + 1

Outcomes == {"ok", "transient", "error"}

(* Faults the properties are tried against are named Wrong...: here a job   *)
(* that is not marked.                                                      *)
WrongNoMark(j) ==
    IF Len(queue) < QueueCap
    THEN queue' = Append(queue, j) /\ UNCHANGED inFlight
    ELSE UNCHANGED pool

(* Worker.Enqueue: one place per job, and none when the queue is full. *)
Enqueue(j) ==
    IF j \notin inFlight /\ Len(queue) < QueueCap
    THEN queue' = Append(queue, j) /\ inFlight' = inFlight \cup {j}
    ELSE UNCHANGED pool

-----------------------------------------------------------------------------
(* Requests *)

(* Store.Enqueue: the row first, then the cache. *)
Submit(j) ==
    /\ \A i \in JobIds : i >= j => request[i] = "new"
    /\ Cardinality({i \in JobIds : request[i] # "new"}) < MaxJobs
    /\ \E outcome \in Outcomes :
          /\ Persist(j, NewJob, outcome)
          /\ request' = [request EXCEPT ![j] =
                IF outcome = "ok" THEN "stored" ELSE "over"]
    /\ UNCHANGED <<cache, get, late, pool, worker, sweep, runs, crashes>>

(* A write of the cache that does not look at what is in it.                *)
Overwrite(j, row) ==
    /\ cache' = [cache EXCEPT ![j] = row]
    /\ late' = IF cache[j] # Absent /\ cache[j] # row THEN late \cup {j} ELSE late

CacheNewJob(j) ==
    /\ request[j] = "stored"
    /\ Overwrite(j, NewJob)
    /\ request' = [request EXCEPT ![j] = "cached"]
    /\ UNCHANGED <<db, get, pool, worker, sweep, runs, crashes, errors>>

Dispatch(j) ==
    /\ request[j] = "cached"
    /\ Enqueue(j)
    /\ request' = [request EXCEPT ![j] = "over"]
    /\ UNCHANGED <<db, cache, get, late, worker, sweep, runs, crashes, errors>>

(* Store.Get of a job that is not in the cache: loadFromDB reads the row,   *)
(* and then writes it to the cache, whatever is there by now.               *)
GetReads(j) ==
    /\ get = NoGet /\ cache[j] = Absent /\ db[j] # Absent
    /\ get' = [job |-> j, row |-> db[j]]
    /\ UNCHANGED <<db, cache, request, late, pool, worker, sweep, runs, crashes, errors>>

GetCaches ==
    /\ get # NoGet
    /\ Overwrite(get.job, get.row)
    /\ get' = NoGet
    /\ UNCHANGED <<db, request, pool, worker, sweep, runs, crashes, errors>>

-----------------------------------------------------------------------------
(* The sweep *)

(* The rows of the oldest jobs that have not ended. *)
SweepRows ==
    LET active == {j \in JobIds : db[j].status \in Active}
    IN  [j \in {j \in active : Cardinality({i \in active : i < j}) < SweepLimit} |-> db[j]]

SweepQuery ==
    /\ sweep.pc = "timer"
    /\ sweep' = [pc |-> "fill", rows |-> SweepRows]
    /\ UNCHANGED <<db, cache, created, pool, worker, runs, crashes, errors>>

WrongFill(j, row) == row   \* fault: the row replaces what the cache has

(* ListActive fills the cache with the jobs it does not know. *)
Fill(j, row) == IF cache[j] = Absent THEN row ELSE cache[j]

SweepFill ==
    /\ sweep.pc = "fill"
    /\ cache' = [j \in JobIds |->
          IF j \in DOMAIN sweep.rows THEN Fill(j, sweep.rows[j]) ELSE cache[j]]
    /\ sweep' = [sweep EXCEPT !.pc = "enqueue"]
    /\ UNCHANGED <<db, created, pool, worker, runs, crashes, errors>>

SweepEnqueue ==
    /\ sweep.pc = "enqueue"
    /\ \/ DOMAIN sweep.rows = {} /\ sweep' = AtTimer /\ UNCHANGED pool
       \/ \E j \in DOMAIN sweep.rows :
             /\ \A i \in DOMAIN sweep.rows : j <= i
             /\ Enqueue(j)
             /\ sweep' = [sweep EXCEPT !.rows = Restrict(@, DOMAIN @ \ {j})]
    /\ UNCHANGED <<db, cache, created, worker, runs, crashes, errors>>

-----------------------------------------------------------------------------
(* The pool: Worker.process *)

(* Fault: an early return that does not unmark the job. *)
WrongReturn(w) ==
    /\ worker' = [worker EXCEPT ![w] = Idle]
    /\ UNCHANGED inFlight

(* process returns: the deferred unmarkInFlight runs. *)
Return(w) ==
    /\ worker' = [worker EXCEPT ![w] = Idle]
    /\ inFlight' = inFlight \ {worker[w].job}

Take(w) ==
    /\ worker[w].pc = "idle" /\ queue # <<>>
    /\ worker' = [worker EXCEPT ![w] = [Idle EXCEPT !.pc = "get", !.job = Head(queue)]]
    /\ queue' = Tail(queue)
    /\ UNCHANGED <<db, cache, created, inFlight, sweep, runs, crashes, errors>>

(* A job that ended meanwhile is left alone; another one resumes after the  *)
(* items its record counts.  (Get reads a record cleaned up from the cache  *)
(* in the database again.)                                                  *)
GetLatest(w) ==
    LET j == worker[w].job
        latest == IF cache[j] = Absent THEN db[j] ELSE cache[j]
    IN  /\ worker[w].pc = "get"
        /\ cache' = [cache EXCEPT ![j] = latest]
        /\ IF IsDone(latest) THEN Return(w)
           ELSE /\ worker' = [worker EXCEPT ![w].pc = "begin",
                                 ![w].idx = latest.items, ![w].failed = latest.failed]
                /\ UNCHANGED inFlight
        /\ UNCHANGED <<db, created, queue, sweep, runs, crashes, errors>>

(* UpdateStatus changes the record in the cache even when the write fails.  *)
UpdateStatus(j, status) ==
    LET row == [cache[j] EXCEPT !.status = status]
    IN  /\ cache' = [cache EXCEPT ![j] = row]
        /\ \E outcome \in Outcomes : Persist(j, row, outcome)

Begin(w) ==
    /\ worker[w].pc = "begin"
    /\ UpdateStatus(worker[w].job, "processing")
    /\ worker' = [worker EXCEPT ![w].pc = "item"]
    /\ UNCHANGED <<created, pool, sweep, runs, crashes>>

Reject(w) ==
    /\ worker[w].pc = "item" /\ worker[w].job \in Unregistered
    /\ UpdateStatus(worker[w].job, "failed")
    /\ Return(w)
    /\ UNCHANGED <<created, queue, sweep, runs, crashes>>

(* The handler runs for the next item, AppendResultInMemory counts it. *)
RunItem(w) ==
    LET j == worker[w].job  i == worker[w].idx + 1
    IN  /\ worker[w].pc = "item" /\ j \notin Unregistered /\ i <= Items
        /\ runs' = [runs EXCEPT ![j][i] = IF @ < MaxRuns THEN @ + 1 ELSE @]
        /\ \E fails \in BOOLEAN :
              cache' = [cache EXCEPT ![j].items = IF @ < Items THEN @ + 1 ELSE @,
                                     ![j].failed = @ \/ fails]
        /\ worker' = [worker EXCEPT ![w].pc = "flush", ![w].idx = i, ![w].since = @ + 1]
        /\ UNCHANGED <<db, created, pool, sweep, crashes, errors>>

WrongMustFlush(w) == worker[w].since > FlushBatch   \* fault: off by one

MustFlush(w) == worker[w].since >= FlushBatch \/ worker[w].idx = Items

(* Fault: one item too many is taken for done. *)
WrongNextItem(w, since) ==
    LET j == worker[w].job
    IN  [worker EXCEPT ![w].pc = "item", ![w].since = since,
                       ![w].idx = IF cache[j].items >= @ THEN cache[j].items + 1 ELSE @,
                       ![w].failed = cache[j].failed]

(* On with the loop; the record is read again with store.Get. *)
NextItem(w, since) ==
    LET j == worker[w].job
    IN  [worker EXCEPT ![w].pc = "item", ![w].since = since,
                       ![w].idx = IF cache[j].items > @ THEN cache[j].items ELSE @,
                       ![w].failed = cache[j].failed]

SkipFlush(w) ==
    /\ worker[w].pc = "flush" /\ ~MustFlush(w)
    /\ worker' = NextItem(w, worker[w].since)
    /\ UNCHANGED <<db, cache, created, pool, sweep, runs, crashes, errors>>

(* resultsFlushInterval may have passed at any item.  A transient error     *)
(* pauses the job; the sweep resumes it.  Another error is only logged.     *)
FlushResults(w) ==
    LET j == worker[w].job
    IN  /\ worker[w].pc = "flush"
        /\ \E outcome \in Outcomes :
              /\ Persist(j, cache[j], outcome)
              /\ IF outcome = "transient" THEN Return(w)
                 ELSE worker' = NextItem(w, 0) /\ UNCHANGED inFlight
        /\ UNCHANGED <<cache, created, queue, sweep, runs, crashes>>

(* One failed item makes the whole job failed. *)
Finish(w) ==
    /\ worker[w].pc = "item" /\ worker[w].job \notin Unregistered
    /\ worker[w].idx >= Items
    /\ UpdateStatus(worker[w].job, IF worker[w].failed THEN "failed" ELSE "done")
    /\ Return(w)
    /\ UNCHANGED <<created, queue, sweep, runs, crashes>>

-----------------------------------------------------------------------------
(* Cleanup, 24 hours after a job ended: its request is over, a row somebody *)
(* holds was read since then, and a job that ended in the database is no    *)
(* longer queued.  One that ended in memory alone is still listed as active *)
(* and queued again and again.                                              *)
Forgotten(j) ==
    /\ request[j] = "over"
    /\ IsDone(db[j]) => j \notin inFlight
    /\ get.job = j => get.row = db[j]
    /\ j \in DOMAIN sweep.rows => sweep.rows[j] = db[j]

Cleanup(j) ==
    /\ IsDone(db[j]) \/ IsDone(cache[j])
    /\ Forgotten(j)
    /\ db' = IF IsDone(db[j]) THEN [db EXCEPT ![j] = Absent] ELSE db
    /\ cache' = IF IsDone(cache[j]) THEN [cache EXCEPT ![j] = Absent] ELSE cache
    /\ UNCHANGED <<created, pool, worker, sweep, runs, crashes, errors>>

(* The server dies and starts again: what was in memory is gone. *)
Crash ==
    /\ crashes + errors < MaxFailures
    /\ crashes' = crashes + 1
    /\ cache' = [j \in JobIds |-> Absent]
    /\ request' = [j \in JobIds |-> IF request[j] = "new" THEN "new" ELSE "over"]
    /\ get' = NoGet
    /\ queue' = <<>> /\ inFlight' = {}
    /\ worker' = [w \in Workers |-> Idle]
    /\ sweep' = AtTimer
    /\ UNCHANGED <<db, late, runs, errors>>

Init ==
    /\ db = [j \in JobIds |-> Absent]
    /\ cache = [j \in JobIds |-> Absent]
    /\ request = [j \in JobIds |-> "new"]
    /\ get = NoGet
    /\ queue = <<>> /\ inFlight = {}
    /\ worker = [w \in Workers |-> Idle]
    /\ sweep = AtTimer
    /\ runs = [j \in JobIds |-> [i \in 1..Items |-> 0]]
    /\ late = {} /\ crashes = 0 /\ errors = 0

Request(j) == Submit(j) \/ CacheNewJob(j) \/ Dispatch(j)

Sweep == SweepQuery \/ SweepFill \/ SweepEnqueue

Process(w) ==
    \/ GetLatest(w) \/ Begin(w) \/ Reject(w) \/ RunItem(w)
    \/ SkipFlush(w) \/ FlushResults(w) \/ Finish(w)

Next ==
    \/ \E j \in JobIds : Request(j) \/ GetReads(j) \/ Cleanup(j)
    \/ GetCaches \/ Sweep \/ Crash
    \/ \E w \in Workers : Take(w) \/ Process(w)

Spec == Init /\ [][Next]_vars

(* Every goroutine runs, the timers of sweep and cleanup fire, and a full   *)
(* pool takes the next job of the queue when one of its workers is free.    *)
Fairness ==
    /\ WF_vars(Sweep) /\ WF_vars(GetCaches)
    /\ \A j \in JobIds : WF_vars(CacheNewJob(j) \/ Dispatch(j)) /\ WF_vars(Cleanup(j))
    /\ \A w \in Workers : WF_vars(Process(w)) /\ WF_vars(Take(w))

FairSpec == Spec /\ Fairness

-----------------------------------------------------------------------------
TypeOK ==
    /\ db \in [JobIds -> Job] /\ cache \in [JobIds -> Job]
    /\ request \in [JobIds -> {"new", "stored", "cached", "over"}]
    /\ get \in [job : JobIds \cup {NoJob}, row : Job]
    /\ queue \in Seq(JobIds) /\ Len(queue) <= QueueCap
    /\ inFlight \subseteq JobIds
    /\ \A w \in Workers :
          /\ worker[w].pc \in {"idle", "get", "begin", "item", "flush"}
          /\ worker[w].job \in JobIds \cup {NoJob}
          /\ worker[w].idx \in Nat
    /\ sweep.pc \in {"timer", "fill", "enqueue"}
    /\ runs \in [JobIds -> [1..Items -> 0..MaxRuns]] /\ late \subseteq JobIds

(* Whatever requests, sweeps and early returns do with the queue, a job is  *)
(* in it or with a worker once at most: its items never run side by side.   *)
OneWorkerPerJob ==
    /\ \A v, w \in Workers :
          (v # w /\ worker[v].job # NoJob) => worker[v].job # worker[w].job
    /\ \A i \in DOMAIN queue :
          /\ \A k \in DOMAIN queue : queue[i] = queue[k] => i = k
          /\ \A w \in Workers : worker[w].job # queue[i]

(* A job reported "done" or "failed" has run every one of its items, after  *)
(* any number of pauses, restarts and overwritten records.                  *)
FinishedJobsHaveRun ==
    \A j \in JobIds \ Unregistered :
        IsDone(db[j]) \/ IsDone(cache[j]) => \A i \in 1..Items : runs[j][i] > 0

(* Its report has a result for each item, in the cache and in the database, *)
(* although the writes of the checkpoints may have failed; a late write may *)
(* lose the results it overwrites.                                          *)
FinishedJobsAreComplete ==
    \A j \in JobIds \ (Unregistered \cup late) : \A row \in {db[j], cache[j]} :
        IsDone(row) => row.items = Items

(* Task 23: a crash re-runs a "janela limitada a no máximo 10 itens"; each  *)
(* write of a checkpoint that fails makes the window longer by as much.     *)
RerunWindow ==
    \A j \in JobIds \ late :
        Cardinality({i \in 1..Items : runs[j][i] > 1})
            <= FlushBatch * (crashes + errors)

(* store.go, ListActive: a job in the cache may have "progresso em memória  *)
(* mais atual que o último checkpoint"; overwriting it "descartaria esse    *)
(* progresso".  While the process lives, its progress never goes back, save *)
(* by the two writes of the cache that do not look at what is in it.        *)
ProgressIsKept ==
    [][\A j \in JobIds :
          (cache[j] # Absent /\ cache'[j] # Absent /\ cache'[j].items < cache[j].items)
              => j \in late']_cache

(* Every job that was stored ends in the database, with a full queue, lost  *)
(* writes and restarts on the way: the sweep finds what the queue missed,   *)
(* and cleanup lets it find what is done in memory alone.                   *)
EveryJobEnds ==
    \A j \in JobIds : db[j].status \in Active ~> db[j].status \notin Active
=============================================================================
