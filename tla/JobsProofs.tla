---------------------------- MODULE JobsProofs ----------------------------
(***************************************************************************)
(* Proofs about the jobs: a job is with one worker at most, one that is    *)
(* reported as ended has run all its items and has their results, and its  *)
(* progress does not go back in memory.                                    *)
(***************************************************************************)
EXTENDS Jobs, FiniteSetTheorems, TLAPS

-----------------------------------------------------------------------------
(* The inductive invariant                                                  *)

Working == {"begin", "item", "flush"}
Goroutine == [pc : {"idle", "get"} \cup Working, job : JobIds \cup {NoJob}, idx : 0..Items,
              failed : BOOLEAN, since : Nat]

Types ==
    /\ db \in [JobIds -> Job] /\ cache \in [JobIds -> Job]
    /\ request \in [JobIds -> {"new", "stored", "cached", "over"}]
    /\ get \in [job : JobIds \cup {NoJob}, row : Job]
    /\ get.job = NoJob => get = NoGet
    /\ queue \in Seq(JobIds) /\ Len(queue) <= QueueCap
    /\ inFlight \subseteq JobIds
    /\ worker \in [Workers -> Goroutine]
    /\ sweep = [pc |-> sweep.pc, rows |-> sweep.rows]
    /\ sweep.pc \in {"timer", "fill", "enqueue"} /\ DOMAIN sweep.rows \subseteq JobIds
    /\ runs \in [JobIds -> [1..Items -> 0..MaxRuns]] /\ late \subseteq JobIds

\* A job that is queued, or with a worker, is marked.
Marked ==
    /\ \A w \in Workers :
          /\ worker[w].job = NoJob <=> worker[w].pc = "idle"
          /\ worker[w].job # NoJob => worker[w].job \in inFlight
    /\ \A i \in DOMAIN queue : queue[i] \in inFlight
    /\ OneWorkerPerJob

\* The row of a job that somebody knows of is there, from the request that stores it to
\* the cleanup, and nothing has happened to the job before its request fills the cache.
Stored == \A j \in JobIds :
    /\ request[j] = "new" => /\ db[j] = Absent /\ cache[j] = Absent /\ j \notin inFlight
                             /\ get.job # j /\ j \notin DOMAIN sweep.rows
    /\ j \in inFlight \/ j \in DOMAIN sweep.rows \/ request[j] \in {"stored", "cached"}
          => db[j] # Absent
    /\ request[j] = "stored" => /\ cache[j] = Absent => db[j] = NewJob
                                /\ get.job = j => get.row = NewJob

\* A row that has been read is of a job that has not ended, or is not ahead of the cache.
ReadRows == \A j \in JobIds :
    /\ j \in DOMAIN sweep.rows =>
          /\ sweep.rows[j] \in Job /\ sweep.rows[j].status \in Active
          /\ sweep.pc = "fill" /\ cache[j] = Absent => sweep.rows[j] = db[j]
    /\ get.job = j =>
          /\ get.row # Absent
          /\ cache[j] = Absent => get.row = db[j] \/ db[j] = Absent
          /\ cache[j] # Absent /\ db[j] # Absent =>
                get.row.items <= cache[j].items /\ (IsDone(get.row) => IsDone(cache[j]))

\* A worker has run the items up to its index, and the cache counts them unless a late
\* write set it back.
AtWork(w) ==
    LET j == worker[w].job
    IN  worker[w].pc \in Working =>
            /\ cache[j] # Absent /\ ~IsDone(cache[j]) /\ cache[j].items <= worker[w].idx
            /\ \A i \in 1..worker[w].idx : runs[j][i] > 0
            /\ j \notin late => cache[j].items = worker[w].idx

\* What a record says has been done has been done, by the runs r and the late writes l.
Ran(r, l, j, row) ==
    /\ \A i \in 1..row.items : r[j][i] > 0
    /\ j \notin Unregistered /\ IsDone(row) => \A i \in 1..Items : r[j][i] > 0
    /\ j \notin Unregistered \cup l /\ IsDone(row) => row.items = Items

Records == \A j \in JobIds :
    /\ Ran(runs, late, j, db[j]) /\ Ran(runs, late, j, cache[j])
    /\ get.job = j => Ran(runs, late, j, get.row)

IInv ==
    /\ Types /\ Marked /\ Stored /\ ReadRows /\ Records
    /\ \A w \in Workers : AtWork(w)

-----------------------------------------------------------------------------
(* The parts of the state have their types, and what is not there is no     *)
(* job.                                                                     *)
LEMMA ConstantFacts ==
    /\ Items \in Nat \ {0} /\ QueueCap \in Nat /\ NoJob \notin JobIds
    /\ Absent \in Job /\ NewJob \in Job /\ Absent # NewJob
    /\ ~IsDone(Absent) /\ ~IsDone(NewJob) /\ Absent.items = 0 /\ NewJob.items = 0
    /\ Idle \in Goroutine /\ Idle.job = NoJob /\ Idle.pc = "idle"
  BY JobsAssumption DEF Absent, NewJob, Job, IsDone, Terminal, Idle, Goroutine, NoJob, Working

(* A record that is not blank has a status.                                 *)
LEMMA RecordFacts ==
    ASSUME NEW row \in Job
    PROVE  /\ row.status \in Active \cup Terminal => row # Absent
           /\ IsDone(row) => row # Absent /\ row.status \notin Active
           /\ row.items \in Nat /\ row.items <= Items /\ row.failed \in BOOLEAN
           /\ \A s \in Active \cup Terminal :
                 LET new == [row EXCEPT !.status = s]
                 IN  /\ new \in Job /\ new # Absent /\ new.items = row.items
                     /\ IsDone(new) <=> s \in Terminal
  BY JobsAssumption DEF Job, Absent, IsDone, Terminal, Active

(* Enqueue adds one place at most, of a job that had none.                  *)
LEMMA EnqueueFacts ==
    ASSUME IInv, NEW j \in JobIds, Enqueue(j)
    PROVE  /\ queue' \in Seq(JobIds) /\ Len(queue') <= QueueCap
           /\ inFlight' \subseteq JobIds /\ inFlight' \in {inFlight, inFlight \cup {j}}
           /\ worker' = worker => Marked'
  <1>1. CASE j \notin inFlight /\ Len(queue) < QueueCap
    <2>1. /\ queue' = Append(queue, j) /\ inFlight' = inFlight \cup {j}
          /\ queue \in Seq(JobIds) /\ Len(queue) \in Nat
      BY <1>1 DEF Enqueue, IInv, Types
    <2>2. /\ queue' \in Seq(JobIds) /\ Len(queue') = Len(queue) + 1
          /\ \A i \in DOMAIN queue : queue'[i] = queue[i]
          /\ queue'[Len(queue) + 1] = j /\ DOMAIN queue' = DOMAIN queue \cup {Len(queue) + 1}
          /\ Len(queue) + 1 \notin DOMAIN queue
      BY <2>1
    <2>3. ASSUME worker' = worker PROVE Marked'
      <3>1. \A i \in DOMAIN queue : queue'[i] # j
        BY <1>1, <2>2 DEF IInv, Marked
      <3>2. \A w \in Workers : worker[w].job # j
        BY <1>1, ConstantFacts DEF IInv, Marked
      <3>3. \A i, k \in DOMAIN queue' : queue'[i] = queue'[k] => i = k
        BY <2>2, <3>1 DEF IInv, Marked, OneWorkerPerJob
      <3>4. \A i \in DOMAIN queue' : queue'[i] \in inFlight' /\
               \A w \in Workers : worker[w].job # queue'[i]
        BY <2>1, <2>2, <3>2 DEF IInv, Marked, OneWorkerPerJob
      <3> QED
        BY <2>1, <2>3, <3>3, <3>4 DEF IInv, Marked, OneWorkerPerJob
    <2> QED
      BY <1>1, <2>1, <2>2, <2>3, ConstantFacts DEF IInv, Types
  <1>2. CASE ~(j \notin inFlight /\ Len(queue) < QueueCap)
    BY <1>2 DEF Enqueue, pool, IInv, Types, Marked, OneWorkerPerJob
  <1> QED
    BY <1>1, <1>2

(* process returns: the job has neither a worker nor a mark.                *)
LEMMA ReturnFacts ==
    ASSUME IInv, NEW w \in Workers, worker[w].pc # "idle", Return(w)
    PROVE  /\ worker' \in [Workers -> Goroutine] /\ worker'[w] = Idle
           /\ \A v \in Workers \ {w} : worker'[v] = worker[v]
           /\ inFlight' \subseteq inFlight
           /\ queue' = queue => Marked'
  <1>1. /\ worker' \in [Workers -> Goroutine] /\ worker'[w] = Idle
        /\ \A v \in Workers \ {w} : worker'[v] = worker[v]
        /\ inFlight' = inFlight \ {worker[w].job}
    BY ConstantFacts DEF Return, IInv, Types
  <1>2. worker[w].job # NoJob
    BY DEF IInv, Marked
  <1>3. ASSUME queue' = queue PROVE Marked'
    <2>1. /\ \A v \in Workers \ {w} : worker[v].job # worker[w].job
          /\ \A i \in DOMAIN queue : queue[i] # worker[w].job
      BY <1>2 DEF IInv, Marked, OneWorkerPerJob
    <2>a. worker'[w].job = NoJob /\ \A i \in DOMAIN queue : queue[i] # NoJob
      BY <1>1, ConstantFacts DEF IInv, Types
    <2>2. OneWorkerPerJob'
      <3>1. \A i \in DOMAIN queue : \A v \in Workers : worker'[v].job # queue[i]
        BY <1>1, <2>a DEF IInv, Marked, OneWorkerPerJob
      <3>2. \A u, v \in Workers : u # v /\ worker'[u].job # NoJob => worker'[u].job # worker'[v].job
        BY <1>1, <2>a DEF IInv, Marked, OneWorkerPerJob
      <3> QED
        BY <1>3, <3>1, <3>2 DEF IInv, Marked, OneWorkerPerJob
    <2> QED
      BY <1>1, <1>3, <2>1, <2>2, ConstantFacts DEF IInv, Marked
  <1> QED
    BY <1>1, <1>3

(* A worker goes on with its job.                                           *)
LEMMA KeepsMarked ==
    ASSUME IInv, NEW w \in Workers, worker[w].pc # "idle", worker' \in [Workers -> Goroutine],
           worker'[w].job = worker[w].job, worker'[w].pc # "idle",
           \A v \in Workers \ {w} : worker'[v] = worker[v],
           UNCHANGED pool
    PROVE  Marked'
  <1>1. \A v \in Workers : worker'[v].job = worker[v].job
                         /\ (worker'[v].pc = "idle" <=> worker[v].pc = "idle")
    OBVIOUS
  <1>2. queue' = queue /\ inFlight' = inFlight
    BY DEF pool
  <1> QED
    BY <1>1, <1>2 DEF IInv, Marked, OneWorkerPerJob

(* What has run stays run, and a late write stays one.                      *)
LEMMA RanGrows ==
    ASSUME NEW r, NEW s, NEW l, NEW m, NEW j, NEW row \in Job, l \subseteq m,
           \A i \in 1..Items : r[j][i] > 0 => s[j][i] > 0, Ran(r, l, j, row)
    PROVE  Ran(s, m, j, row)
  <1>1. 1..row.items \subseteq 1..Items
    BY RecordFacts, ConstantFacts
  <1> QED
    BY <1>1 DEF Ran

(* What one worker does leaves the requests, the rows that were read, the   *)
(* records of other jobs and the other workers as they were.                *)
LEMMA WorkerStep ==
    ASSUME IInv, NEW w \in Workers, worker[w].pc # "idle",
           NEW j \in JobIds, j = worker[w].job,
           UNCHANGED <<request, get, sweep, late>>, inFlight' \subseteq inFlight,
           \A v \in Workers \ {w} : worker'[v] = worker[v],
           db' \in [JobIds -> Job], cache' \in [JobIds -> Job],
           runs' \in [JobIds -> [1..Items -> 0..MaxRuns]],
           \A k \in JobIds \ {j} : db'[k] = db[k] /\ cache'[k] = cache[k] /\ runs'[k] = runs[k],
           \A i \in 1..Items : runs[j][i] > 0 => runs'[j][i] > 0,
           db'[j] # Absent, cache'[j] # Absent,
           cache[j] = Absent => cache'[j] = db[j],
           cache[j] # Absent => /\ cache[j].items <= cache'[j].items
                                /\ IsDone(cache[j]) => IsDone(cache'[j]),
           Ran(runs', late', j, db'[j]), Ran(runs', late', j, cache'[j])
    PROVE  /\ Stored' /\ ReadRows' /\ Records'
           /\ \A v \in Workers \ {w} : AtWork(v)'
  <1>1. j \in inFlight /\ db[j] # Absent /\ request[j] # "new"
    BY ConstantFacts DEF IInv, Marked, Stored
  <1>2. Stored'
    BY <1>1 DEF IInv, Stored
  <1>3. ReadRows'
    <2>1. ASSUME NEW k \in JobIds, k # j
          PROVE  db'[k] = db[k] /\ cache'[k] = cache[k]
      BY <2>1
    <2>2. get.row.items \in Nat /\ cache[j].items \in Nat /\ cache'[j].items \in Nat
      BY RecordFacts DEF IInv, Types
    <2>3. get.job = j => get.row.items <= cache'[j].items
                         /\ (IsDone(get.row) => IsDone(cache'[j]))
      <3>1. CASE cache[j] = Absent
        BY <1>1, <2>2, <3>1 DEF IInv, ReadRows
      <3>2. CASE cache[j] # Absent
        BY <1>1, <2>2, <3>2 DEF IInv, ReadRows
      <3> QED
        BY <3>1, <3>2
    <2> QED
      BY <2>1, <2>3 DEF IInv, ReadRows
  <1>4. Records'
    <2>1. \A k \in JobIds \ {j} : \A row \in Job :
             Ran(runs, late, k, row) => Ran(runs', late', k, row)
      BY DEF Ran
    <2>2. \A row \in Job : Ran(runs, late, j, row) => Ran(runs', late', j, row)
      BY RanGrows
    <2>3. \A k \in JobIds : db[k] \in Job /\ cache[k] \in Job /\ get.row \in Job
      BY DEF IInv, Types
    <2> QED
      BY <2>1, <2>2, <2>3 DEF IInv, Records
  <1>5. ASSUME NEW v \in Workers \ {w} PROVE AtWork(v)'
    <2>1. CASE worker[v].pc \in Working
      <3>1. worker[v].job # NoJob
        BY <2>1 DEF IInv, Marked, Working
      <3>2. worker[v].job \in JobIds \ {j}
        BY <3>1 DEF IInv, Types, Goroutine, Marked, OneWorkerPerJob
      <3> QED
        BY <2>1, <3>2 DEF IInv, AtWork
    <2>2. CASE worker[v].pc \notin Working
      BY <2>2 DEF AtWork
    <2> QED
      BY <2>1, <2>2
  <1> QED
    BY <1>2, <1>3, <1>4, <1>5

-----------------------------------------------------------------------------
(* The initial state                                                        *)

(* It holds at the beginning.                                               *)
LEMMA InvInit == Init => IInv
  <1> SUFFICES ASSUME Init PROVE IInv
    OBVIOUS
  <1> USE ConstantFacts
  <1>1. Types
    <2>1. NoGet \in [job : JobIds \cup {NoJob}, row : Job] /\ NoGet.job = NoJob
      BY DEF NoGet
    <2>2. 0 \in 0..MaxRuns
      BY JobsAssumption
    <2> QED
      BY <2>1, <2>2 DEF Init, Types, AtTimer
  <1>2. /\ \A w \in Workers : worker[w].job = NoJob /\ worker[w].pc = "idle"
        /\ \A j \in JobIds : /\ db[j] = Absent /\ cache[j] = Absent /\ request[j] = "new"
                             /\ get.job # j /\ j \notin DOMAIN sweep.rows
        /\ queue = <<>> /\ inFlight = {} /\ late = {}
    BY DEF Init, NoGet, AtTimer
  <1>3. Marked
    BY <1>2 DEF Marked, OneWorkerPerJob
  <1>4. Stored /\ ReadRows
    BY <1>2 DEF Stored, ReadRows
  <1>5. Records
    BY <1>2 DEF Records, Ran
  <1>6. \A w \in Workers : AtWork(w)
    BY <1>2 DEF AtWork, Working
  <1> QED
    BY <1>1, <1>3, <1>4, <1>5, <1>6 DEF IInv

-----------------------------------------------------------------------------
(* Requests                                                                 *)

(* A new job: nobody knows of it.                                           *)
LEMMA SubmitInv == ASSUME IInv, NEW j \in JobIds, Submit(j) PROVE IInv'
  <1> USE ConstantFacts
  <1>1. /\ UNCHANGED <<cache, get, late, queue, inFlight, worker, sweep, runs>>
        /\ request[j] = "new" /\ db' \in [JobIds -> Job] /\ db'[j] \in {db[j], NewJob}
        /\ \A k \in JobIds \ {j} : db'[k] = db[k]
        /\ request' \in [JobIds -> {"new", "stored", "cached", "over"}]
        /\ \A k \in JobIds \ {j} : request'[k] = request[k]
        /\ \/ request'[j] = "stored" /\ db'[j] = NewJob
           \/ request'[j] = "over"
    <2>1. PICK outcome \in Outcomes :
             /\ db' = IF outcome = "ok" THEN [db EXCEPT ![j] = NewJob] ELSE db
             /\ request' = [request EXCEPT ![j] = IF outcome = "ok" THEN "stored" ELSE "over"]
      BY DEF Submit, Persist
    <2>2. /\ UNCHANGED <<cache, get, late, queue, inFlight, worker, sweep, runs>>
          /\ request[j] = "new"
      BY JobsAssumption DEF Submit, pool
    <2> QED
      BY <2>1, <2>2 DEF IInv, Types
  <1>2. /\ db[j] = Absent /\ cache[j] = Absent /\ j \notin inFlight
        /\ get.job # j /\ j \notin DOMAIN sweep.rows
    BY <1>1 DEF IInv, Stored
  <1>3. Types'
    BY <1>1 DEF IInv, Types
  <1>4. Marked' /\ \A w \in Workers : AtWork(w)'
    BY <1>1 DEF IInv, Marked, OneWorkerPerJob, AtWork
  <1>5. Stored'
    BY <1>1, <1>2 DEF IInv, Stored
  <1>6. ReadRows'
    BY <1>1, <1>2 DEF IInv, ReadRows
  <1>7. Records'
    <2>1. Ran(runs, late, j, NewJob)
      BY DEF Ran
    <2> QED
      BY <1>1, <2>1 DEF IInv, Records
  <1> QED
    BY <1>3, <1>4, <1>5, <1>6, <1>7 DEF IInv

(* A write that does not look at the cache sets progress back, and says so. *)
LEMMA OverwriteFacts ==
    ASSUME IInv, NEW j \in JobIds, NEW row \in Job, Overwrite(j, row)
    PROVE  /\ cache' \in [JobIds -> Job] /\ cache'[j] = row
           /\ \A k \in JobIds \ {j} : cache'[k] = cache[k]
           /\ late' \subseteq JobIds /\ late \subseteq late'
           /\ \A k \in JobIds \ {j} : k \in late' <=> k \in late
           /\ cache[j] # Absent /\ cache[j] # row => j \in late'
  BY DEF Overwrite, IInv, Types

(* The workers go on after such a write of a record that is not ahead of    *)
(* them.                                                                    *)
LEMMA OverwriteWork ==
    ASSUME IInv, NEW j \in JobIds, NEW row \in Job, Overwrite(j, row),
           UNCHANGED <<worker, runs>>, row # Absent,
           cache[j] # Absent /\ db[j] # Absent =>
                row.items <= cache[j].items /\ (IsDone(row) => IsDone(cache[j]))
    PROVE  \A w \in Workers : AtWork(w)'
  <1> SUFFICES ASSUME NEW w \in Workers, worker[w].pc \in Working PROVE AtWork(w)'
    BY DEF AtWork
  <1>1. worker[w].job \in JobIds /\ worker[w].idx \in Nat
    BY ConstantFacts DEF IInv, Types, Goroutine, Marked, Working
  <1>2. CASE worker[w].job # j
    BY <1>1, <1>2, OverwriteFacts DEF IInv, AtWork
  <1>3. CASE worker[w].job = j
    <2>1. /\ cache[j] # Absent /\ ~IsDone(cache[j]) /\ cache[j].items <= worker[w].idx
          /\ j \notin late => cache[j].items = worker[w].idx
      BY <1>3 DEF IInv, AtWork
    <2>a. db[j] # Absent
      BY <1>1, <1>3, ConstantFacts DEF IInv, Marked, Stored
    <2>2. row.items \in Nat /\ cache[j].items \in Nat
      BY RecordFacts DEF IInv, Types
    <2>3. /\ cache'[j] # Absent /\ ~IsDone(cache'[j]) /\ cache'[j].items <= worker[w].idx
      BY <1>1, <2>1, <2>a, <2>2, OverwriteFacts
    <2>4. j \notin late' => cache'[j].items = worker[w].idx
      BY <2>1, OverwriteFacts
    <2> QED
      BY <1>3, <2>3, <2>4 DEF IInv, AtWork
  <1> QED
    BY <1>2, <1>3

(* The request caches its job, perhaps late.                                *)
LEMMA CacheNewJobInv == ASSUME IInv, NEW j \in JobIds, CacheNewJob(j) PROVE IInv'
  <1> USE ConstantFacts
  <1>1. /\ UNCHANGED <<db, get, queue, inFlight, worker, sweep, runs>>
        /\ request[j] = "stored" /\ Overwrite(j, NewJob)
        /\ request' \in [JobIds -> {"new", "stored", "cached", "over"}] /\ request'[j] = "cached"
        /\ \A k \in JobIds \ {j} : request'[k] = request[k]
    BY DEF CacheNewJob, pool, IInv, Types
  <1>2. /\ cache' \in [JobIds -> Job] /\ cache'[j] = NewJob
        /\ \A k \in JobIds \ {j} : cache'[k] = cache[k]
        /\ late' \subseteq JobIds /\ late \subseteq late'
    BY <1>1, OverwriteFacts
  <1>3. db[j] # Absent /\ (get.job = j => get.row = NewJob)
    BY <1>1 DEF IInv, Stored
  <1>4. Types'
    BY <1>1, <1>2 DEF IInv, Types
  <1>5. Marked'
    BY <1>1 DEF IInv, Marked, OneWorkerPerJob
  <1>6. \A w \in Workers : AtWork(w)'
    <2>1. cache[j] # Absent => NewJob.items <= cache[j].items
      BY RecordFacts DEF IInv, Types
    <2> QED
      BY <1>1, <2>1, OverwriteWork
  <1>7. Stored'
    BY <1>1, <1>2, <1>3 DEF IInv, Stored
  <1>8. ReadRows'
    BY <1>1, <1>2, <1>3 DEF IInv, ReadRows
  <1>9. Records'
    <2>1. Ran(runs', late', j, NewJob)
      BY DEF Ran
    <2>2. \A k \in JobIds, row \in Job : Ran(runs, late, k, row) => Ran(runs', late', k, row)
      BY <1>1, <1>2 DEF Ran
    <2>3. \A k \in JobIds : db[k] \in Job /\ cache[k] \in Job /\ get.row \in Job
      BY DEF IInv, Types
    <2> QED
      BY <1>1, <1>2, <2>1, <2>2, <2>3 DEF IInv, Records
  <1> QED
    BY <1>4, <1>5, <1>6, <1>7, <1>8, <1>9 DEF IInv

(* It queues the job, unless it is marked.                                  *)
LEMMA DispatchInv == ASSUME IInv, NEW j \in JobIds, Dispatch(j) PROVE IInv'
  <1> USE ConstantFacts
  <1>1. /\ UNCHANGED <<db, cache, get, late, worker, sweep, runs>>
        /\ request[j] = "cached" /\ Enqueue(j)
        /\ request' \in [JobIds -> {"new", "stored", "cached", "over"}] /\ request'[j] = "over"
        /\ \A k \in JobIds \ {j} : request'[k] = request[k]
    BY DEF Dispatch, IInv, Types
  <1>2. /\ queue' \in Seq(JobIds) /\ Len(queue') <= QueueCap
        /\ inFlight' \subseteq JobIds /\ inFlight' \subseteq inFlight \cup {j}
        /\ Marked'
    BY <1>1, EnqueueFacts
  <1>3. db[j] # Absent
    BY <1>1 DEF IInv, Stored
  <1>4. Types'
    BY <1>1, <1>2 DEF IInv, Types
  <1>5. Stored'
    BY <1>1, <1>2, <1>3 DEF IInv, Stored
  <1>6. ReadRows' /\ Records' /\ \A w \in Workers : AtWork(w)'
    BY <1>1 DEF IInv, ReadRows, Records, AtWork
  <1> QED
    BY <1>2, <1>4, <1>5, <1>6 DEF IInv

(* A request reads a row,                                                   *)
LEMMA GetReadsInv == ASSUME IInv, NEW j \in JobIds, GetReads(j) PROVE IInv'
  <1> USE ConstantFacts
  <1>1. /\ UNCHANGED <<db, cache, request, late, queue, inFlight, worker, sweep, runs>>
        /\ cache[j] = Absent /\ db[j] # Absent /\ db[j] \in Job
        /\ get' = [job |-> j, row |-> db[j]]
    BY DEF GetReads, pool, IInv, Types
  <1>2. get'.job = j /\ get'.row = db[j] /\ get' \in [job : JobIds \cup {NoJob}, row : Job]
    BY <1>1
  <1>3. Types'
    BY <1>1, <1>2 DEF IInv, Types
  <1>4. Marked' /\ \A w \in Workers : AtWork(w)'
    BY <1>1 DEF IInv, Marked, OneWorkerPerJob, AtWork
  <1>5. Stored'
    BY <1>1, <1>2 DEF IInv, Stored
  <1>6. ReadRows'
    BY <1>1, <1>2 DEF IInv, ReadRows
  <1>7. Records'
    BY <1>1, <1>2 DEF IInv, Records
  <1> QED
    BY <1>3, <1>4, <1>5, <1>6, <1>7 DEF IInv

(* and caches it, perhaps late.                                             *)
LEMMA GetCachesInv == ASSUME IInv, GetCaches PROVE IInv'
  <1> USE ConstantFacts
  <1> DEFINE j == get.job
  <1>1. /\ UNCHANGED <<db, request, queue, inFlight, worker, sweep, runs>>
        /\ get # NoGet /\ get' = NoGet /\ Overwrite(j, get.row)
    BY DEF GetCaches, pool
  <1>2. j \in JobIds /\ get.row \in Job
    BY <1>1 DEF IInv, Types
  <1>3. /\ cache' \in [JobIds -> Job] /\ cache'[j] = get.row
        /\ \A k \in JobIds \ {j} : cache'[k] = cache[k]
        /\ late' \subseteq JobIds /\ late \subseteq late'
    BY <1>1, <1>2, OverwriteFacts
  <1>4. get' \in [job : JobIds \cup {NoJob}, row : Job] /\ get'.job = NoJob
    BY <1>1 DEF NoGet
  <1>5. Types'
    BY <1>1, <1>3, <1>4 DEF IInv, Types
  <1>6. Marked'
    BY <1>1 DEF IInv, Marked, OneWorkerPerJob
  <1>7. \A w \in Workers : AtWork(w)'
    BY <1>1, <1>2, OverwriteWork DEF IInv, ReadRows
  <1>8. request[j] # "new" /\ (request[j] = "stored" => get.row = NewJob)
    BY <1>2 DEF IInv, Stored
  <1>9. get.row # Absent /\ (cache[j] = Absent => get.row = db[j] \/ db[j] = Absent)
    BY <1>2 DEF IInv, ReadRows
  <1> HIDE DEF j
  <1>10. Stored'
    BY <1>1, <1>2, <1>3, <1>4, <1>8, <1>9 DEF IInv, Stored
  <1>11. ReadRows'
    BY <1>1, <1>2, <1>3, <1>4, <1>9 DEF IInv, ReadRows
  <1>12. Records'
    <2>1. Ran(runs, late, j, get.row)
      BY <1>2 DEF IInv, Records, j
    <2>2. \A k \in JobIds, row \in Job : Ran(runs, late, k, row) => Ran(runs', late', k, row)
      BY <1>1, <1>3 DEF Ran
    <2>3. \A k \in JobIds : db[k] \in Job /\ cache[k] \in Job /\ get.row \in Job
      BY <1>2 DEF IInv, Types
    <2> QED
      BY <1>1, <1>2, <1>3, <1>4, <2>1, <2>2, <2>3 DEF IInv, Records
  <1> QED
    BY <1>5, <1>6, <1>7, <1>10, <1>11, <1>12 DEF IInv

-----------------------------------------------------------------------------
(* The sweep                                                                *)

(* The sweep reads the rows of the active jobs,                             *)
LEMMA SweepQueryInv == ASSUME IInv, SweepQuery PROVE IInv'
  <1>1. /\ UNCHANGED <<db, cache, request, get, late, queue, inFlight, worker, runs>>
        /\ sweep' = [pc |-> "fill", rows |-> SweepRows]
    BY DEF SweepQuery, created, pool
  <1>2. /\ sweep'.pc = "fill" /\ sweep'.rows = SweepRows
        /\ sweep' = [pc |-> sweep'.pc, rows |-> sweep'.rows]
    BY <1>1
  <1>3. \A j \in DOMAIN SweepRows :
           j \in JobIds /\ SweepRows[j] = db[j] /\ db[j].status \in Active
    BY DEF SweepRows
  <1>4. \A j \in DOMAIN SweepRows : db[j] # Absent /\ db[j] \in Job
    BY <1>3, RecordFacts DEF IInv, Types
  <1>5. Types'
    BY <1>1, <1>2, <1>3 DEF IInv, Types
  <1>6. Marked' /\ Records' /\ \A w \in Workers : AtWork(w)'
    BY <1>1 DEF IInv, Marked, OneWorkerPerJob, Records, AtWork
  <1>7. Stored'
    BY <1>1, <1>2, <1>3, <1>4 DEF IInv, Stored
  <1>8. ReadRows'
    BY <1>1, <1>2, <1>3, <1>4 DEF IInv, ReadRows
  <1> QED
    BY <1>5, <1>6, <1>7, <1>8 DEF IInv

(* A row fills the cache when there is nothing, and is then what the        *)
(* database has.                                                            *)
LEMMA SweepFillInv == ASSUME IInv, SweepFill PROVE IInv'
  <1> USE ConstantFacts
  <1>1. /\ UNCHANGED <<db, request, get, late, queue, inFlight, worker, runs>>
        /\ sweep.pc = "fill" /\ sweep' = [sweep EXCEPT !.pc = "enqueue"]
    BY DEF SweepFill, created, pool
  <1>2. sweep' = [pc |-> "enqueue", rows |-> sweep.rows]
    BY <1>1 DEF IInv, Types
  <1>3. sweep'.pc = "enqueue" /\ sweep'.rows = sweep.rows
    BY <1>2
  <1>4. \A j \in JobIds :
           /\ cache[j] # Absent \/ j \notin DOMAIN sweep.rows => cache'[j] = cache[j]
           /\ cache[j] = Absent /\ j \in DOMAIN sweep.rows =>
                 cache'[j] = db[j] /\ db[j] # Absent /\ db[j].status \in Active
    BY <1>1 DEF SweepFill, Fill, IInv, ReadRows, Stored
  <1>5. cache' \in [JobIds -> Job]
    BY <1>4 DEF SweepFill, IInv, Types
  <1>6. Types'
    BY <1>1, <1>2, <1>3, <1>5 DEF IInv, Types
  <1>7. Marked'
    BY <1>1 DEF IInv, Marked, OneWorkerPerJob
  <1>8. \A w \in Workers : AtWork(w)'
    <2> SUFFICES ASSUME NEW w \in Workers, worker[w].pc \in Working PROVE AtWork(w)'
      BY <1>1 DEF AtWork
    <2>1. worker[w].job \in JobIds /\ cache[worker[w].job] # Absent
      BY DEF IInv, Types, Goroutine, Marked, Working, AtWork
    <2> QED
      BY <1>1, <1>4, <2>1 DEF IInv, AtWork
  <1>9. Stored'
    BY <1>1, <1>3, <1>4 DEF IInv, Stored
  <1>10. ReadRows'
    <2>1. \A j \in JobIds : db[j] \in Job /\ cache'[j] \in Job
      BY <1>5 DEF IInv, Types
    <2>2. \A j \in JobIds : db[j].items <= db[j].items
      BY <2>1, RecordFacts
    <2> QED
      BY <1>1, <1>3, <1>4, <2>2 DEF IInv, ReadRows
  <1>11. Records'
    BY <1>1, <1>4 DEF IInv, Records
  <1> QED
    BY <1>6, <1>7, <1>8, <1>9, <1>10, <1>11 DEF IInv

(* and queues the jobs, one by one.                                         *)
LEMMA SweepEnqueueInv == ASSUME IInv, SweepEnqueue PROVE IInv'
  <1> USE ConstantFacts
  <1>1. UNCHANGED <<db, cache, request, get, late, worker, runs>> /\ sweep.pc = "enqueue"
    BY DEF SweepEnqueue, created
  <1>2. CASE DOMAIN sweep.rows = {} /\ sweep' = AtTimer /\ UNCHANGED pool
    <2>1. /\ sweep'.pc = "timer" /\ DOMAIN sweep'.rows = {} /\ queue' = queue /\ inFlight' = inFlight
          /\ sweep' = [pc |-> sweep'.pc, rows |-> sweep'.rows]
      BY <1>2 DEF AtTimer, pool
    <2>2. Types'
      BY <1>1, <2>1 DEF IInv, Types
    <2>3. Marked' /\ Records' /\ \A w \in Workers : AtWork(w)'
      BY <1>1, <2>1 DEF IInv, Marked, OneWorkerPerJob, Records, AtWork
    <2>4. Stored' /\ ReadRows'
      BY <1>1, <1>2, <2>1 DEF IInv, Stored, ReadRows
    <2> QED
      BY <2>2, <2>3, <2>4 DEF IInv
  <1>3. ASSUME NEW j \in DOMAIN sweep.rows, Enqueue(j),
               sweep' = [sweep EXCEPT !.rows = Restrict(@, DOMAIN @ \ {j})]
        PROVE  IInv'
    <2>1. sweep' = [pc |-> "enqueue", rows |-> Restrict(sweep.rows, DOMAIN sweep.rows \ {j})]
      BY <1>1, <1>3 DEF IInv, Types
    <2>2. /\ sweep'.pc = "enqueue" /\ DOMAIN sweep'.rows = DOMAIN sweep.rows \ {j}
          /\ \A k \in DOMAIN sweep'.rows : sweep'.rows[k] = sweep.rows[k]
      BY <2>1 DEF Restrict
    <2>3. j \in JobIds /\ db[j] # Absent
      BY DEF IInv, Types, Stored
    <2>4. /\ queue' \in Seq(JobIds) /\ Len(queue') <= QueueCap
          /\ inFlight' \subseteq JobIds /\ inFlight' \subseteq inFlight \cup {j}
          /\ Marked'
      BY <1>1, <1>3, <2>3, EnqueueFacts
    <2>5. Types'
      BY <1>1, <2>1, <2>2, <2>4 DEF IInv, Types
    <2>6. Records' /\ \A w \in Workers : AtWork(w)'
      BY <1>1 DEF IInv, Records, AtWork
    <2>7. Stored'
      BY <1>1, <2>2, <2>3, <2>4 DEF IInv, Stored
    <2>8. ReadRows'
      BY <1>1, <2>2 DEF IInv, ReadRows
    <2> QED
      BY <2>4, <2>5, <2>6, <2>7, <2>8 DEF IInv
  <1> QED
    BY <1>2, <1>3 DEF SweepEnqueue

(* A job that is cleaned up has ended where it is cleaned up, and nobody    *)
(* that works, or has read its row, is surprised.                           *)
LEMMA CleanupInv == ASSUME IInv, NEW j \in JobIds, Cleanup(j) PROVE IInv'
  <1> USE ConstantFacts
  <1>1. /\ UNCHANGED <<request, get, late, queue, inFlight, worker, sweep, runs>>
        /\ db' = IF IsDone(db[j]) THEN [db EXCEPT ![j] = Absent] ELSE db
        /\ cache' = IF IsDone(cache[j]) THEN [cache EXCEPT ![j] = Absent] ELSE cache
    BY DEF Cleanup, created, pool
  <1>2. /\ request[j] = "over" /\ (IsDone(db[j]) => j \notin inFlight)
        /\ get.job = j => get.row = db[j]
        /\ j \in DOMAIN sweep.rows => sweep.rows[j] = db[j]
    BY DEF Cleanup, Forgotten
  <1>3. /\ db' \in [JobIds -> Job] /\ cache' \in [JobIds -> Job]
        /\ \A k \in JobIds \ {j} : db'[k] = db[k] /\ cache'[k] = cache[k]
        /\ IsDone(db[j]) => db'[j] = Absent
        /\ ~IsDone(db[j]) => db'[j] = db[j]
        /\ IsDone(cache[j]) => cache'[j] = Absent
        /\ ~IsDone(cache[j]) => cache'[j] = cache[j]
    BY <1>1 DEF IInv, Types
  <1>4. j \in DOMAIN sweep.rows => ~IsDone(db[j])
    BY <1>2, RecordFacts DEF IInv, ReadRows
  <1>5. Types'
    BY <1>1, <1>3 DEF IInv, Types
  <1>6. Marked'
    BY <1>1 DEF IInv, Marked, OneWorkerPerJob
  <1>7. Stored'
    BY <1>1, <1>2, <1>3, <1>4 DEF IInv, Stored
  <1>8. ReadRows'
    BY <1>1, <1>2, <1>3, <1>4 DEF IInv, ReadRows
  <1>9. Records'
    <2>1. Ran(runs, late, j, Absent)
      BY DEF Ran
    <2> QED
      BY <1>1, <1>3, <2>1 DEF IInv, Records
  <1>10. \A w \in Workers : AtWork(w)'
    <2> SUFFICES ASSUME NEW w \in Workers, worker[w].pc \in Working PROVE AtWork(w)'
      BY <1>1 DEF AtWork
    <2>1. worker[w].job \in JobIds /\ ~IsDone(cache[worker[w].job])
      BY DEF IInv, Types, Goroutine, Marked, Working, AtWork
    <2>2. cache'[worker[w].job] = cache[worker[w].job]
      BY <1>3, <2>1
    <2> QED
      BY <1>1, <2>2 DEF IInv, AtWork
  <1> QED
    BY <1>5, <1>6, <1>7, <1>8, <1>9, <1>10 DEF IInv

(* Only the database is left.                                               *)
LEMMA CrashInv == ASSUME IInv, Crash PROVE IInv'
  <1> USE ConstantFacts
  <1>1. /\ UNCHANGED <<db, late, runs>> /\ queue' = <<>> /\ inFlight' = {}
        /\ cache' = [j \in JobIds |-> Absent] /\ get' = NoGet /\ sweep' = AtTimer
        /\ request' = [j \in JobIds |-> IF request[j] = "new" THEN "new" ELSE "over"]
        /\ worker' = [w \in Workers |-> Idle]
    BY DEF Crash
  <1>2. NoGet \in [job : JobIds \cup {NoJob}, row : Job] /\ NoGet.job = NoJob
    BY DEF NoGet
  <1>3. AtTimer.pc = "timer" /\ DOMAIN AtTimer.rows = {}
        /\ AtTimer = [pc |-> AtTimer.pc, rows |-> AtTimer.rows]
    BY DEF AtTimer
  <1>4. Types'
    BY <1>1, <1>2, <1>3 DEF IInv, Types
  <1>5. Marked'
    BY <1>1 DEF Marked, OneWorkerPerJob
  <1>6. Stored'
    BY <1>1, <1>2, <1>3 DEF IInv, Types, Stored
  <1>7. ReadRows'
    BY <1>1, <1>2, <1>3 DEF ReadRows
  <1>8. Records'
    <2>1. \A j \in JobIds : Ran(runs, late, j, Absent)
      BY DEF Ran
    <2> QED
      BY <1>1, <1>2, <2>1 DEF IInv, Records
  <1>9. \A w \in Workers : AtWork(w)'
    BY <1>1 DEF AtWork, Working
  <1> QED
    BY <1>4, <1>5, <1>6, <1>7, <1>8, <1>9 DEF IInv

-----------------------------------------------------------------------------
(* The pool                                                                 *)

(* A worker takes the head of the queue: the mark goes with it.             *)
LEMMA TakeInv == ASSUME IInv, NEW w \in Workers, Take(w) PROVE IInv'
  <1> USE ConstantFacts
  <1> DEFINE j == Head(queue)
  <1>1. /\ UNCHANGED <<db, cache, request, get, late, inFlight, sweep, runs>>
        /\ worker[w].pc = "idle" /\ queue # <<>> /\ queue' = Tail(queue)
        /\ worker' = [worker EXCEPT ![w] = [Idle EXCEPT !.pc = "get", !.job = j]]
    BY DEF Take, created
  <1>2. /\ queue \in Seq(JobIds) /\ Len(queue) \in Nat \ {0} /\ j = queue[1] /\ j \in JobIds
        /\ 1 \in DOMAIN queue
        /\ queue' \in Seq(JobIds) /\ Len(queue') = Len(queue) - 1
        /\ \A i \in DOMAIN queue' : i + 1 \in DOMAIN queue /\ queue'[i] = queue[i + 1]
                                    /\ i \in Nat \ {0}
    BY <1>1 DEF IInv, Types
  <1> HIDE DEF j
  <1>3. LET new == [Idle EXCEPT !.pc = "get", !.job = j]
        IN  new \in Goroutine /\ new.pc = "get" /\ new.job = j
    BY <1>2 DEF Idle, Goroutine
  <1>4. /\ worker' \in [Workers -> Goroutine] /\ worker'[w].pc = "get" /\ worker'[w].job = j
        /\ \A v \in Workers \ {w} : worker'[v] = worker[v]
    BY <1>1, <1>3 DEF IInv, Types
  <1>5. Types'
    BY <1>1, <1>2, <1>4 DEF IInv, Types
  <1>6. Marked'
    <2>1. j \in inFlight /\ j # NoJob /\ \A v \in Workers : worker[v].job # j
      BY <1>2 DEF IInv, Marked, OneWorkerPerJob
    <2>2. \A i \in DOMAIN queue' : queue'[i] # j /\ queue'[i] \in inFlight
      BY <1>2 DEF IInv, Marked, OneWorkerPerJob
    <2>3. \A i, k \in DOMAIN queue' : queue'[i] = queue'[k] => i = k
      BY <1>2 DEF IInv, Marked, OneWorkerPerJob
    <2>4. \A i \in DOMAIN queue' : \A v \in Workers : worker'[v].job # queue'[i]
      <3>1. \A i \in DOMAIN queue' : \A v \in Workers : worker[v].job # queue'[i]
        BY <1>2 DEF IInv, Marked, OneWorkerPerJob
      <3> QED
        BY <1>4, <2>2, <3>1
    <2>5. \A u, v \in Workers : u # v /\ worker'[u].job # NoJob => worker'[u].job # worker'[v].job
      BY <1>4, <2>1 DEF IInv, Marked, OneWorkerPerJob
    <2> QED
      BY <1>1, <1>4, <2>1, <2>2, <2>3, <2>4, <2>5 DEF IInv, Marked, OneWorkerPerJob
  <1>7. Stored' /\ ReadRows' /\ Records'
    BY <1>1 DEF IInv, Stored, ReadRows, Records
  <1>8. \A v \in Workers : AtWork(v)'
    BY <1>1, <1>4 DEF IInv, AtWork, Working
  <1> QED
    BY <1>5, <1>6, <1>7, <1>8 DEF IInv

(* What a worker knows of its job.                                          *)
LEMMA WorkerFacts ==
    ASSUME IInv, NEW w \in Workers, worker[w].pc # "idle"
    PROVE  /\ worker[w].job \in JobIds /\ worker[w].idx \in 0..Items /\ worker[w].since \in Nat
           /\ db[worker[w].job] \in Job /\ db[worker[w].job] # Absent
           /\ cache[worker[w].job] \in Job
           /\ Ran(runs, late, worker[w].job, db[worker[w].job])
           /\ Ran(runs, late, worker[w].job, cache[worker[w].job])
  BY ConstantFacts DEF IInv, Types, Goroutine, Marked, Stored, Records

(* It resumes after the items that the record counts.                       *)
LEMMA GetLatestInv == ASSUME IInv, NEW w \in Workers, GetLatest(w) PROVE IInv'
  <1> USE ConstantFacts
  <1> DEFINE j == worker[w].job
  <1> DEFINE latest == IF cache[j] = Absent THEN db[j] ELSE cache[j]
  <1>1. /\ UNCHANGED <<db, request, get, late, queue, sweep, runs>>
        /\ worker[w].pc = "get" /\ cache' = [cache EXCEPT ![j] = latest]
    BY DEF GetLatest, created
  <1>2. /\ j \in JobIds /\ latest \in Job /\ latest # Absent /\ Ran(runs, late, j, latest)
        /\ db[j] \in Job /\ db[j] # Absent /\ Ran(runs, late, j, db[j])
    BY <1>1, WorkerFacts
  <1>3. /\ cache' \in [JobIds -> Job] /\ cache'[j] = latest
        /\ \A k \in JobIds \ {j} : cache'[k] = cache[k]
    BY <1>1, <1>2 DEF IInv, Types
  <1>4. /\ worker' \in [Workers -> Goroutine] /\ AtWork(w)' /\ Marked'
        /\ \A v \in Workers \ {w} : worker'[v] = worker[v]
        /\ inFlight' \subseteq inFlight
    <2>1. CASE IsDone(latest)
      <3>1. Return(w)
        BY <2>1 DEF GetLatest
      <3> QED
        BY <1>1, <3>1, ReturnFacts DEF AtWork, Working
    <2>2. CASE ~IsDone(latest)
      <3> DEFINE n == latest.items
      <3> DEFINE f == latest.failed
      <3>1. worker' = [worker EXCEPT ![w].pc = "begin", ![w].idx = n, ![w].failed = f]
            /\ UNCHANGED inFlight
        BY <2>2 DEF GetLatest
      <3>2. n \in 0..Items /\ f \in BOOLEAN
        BY <1>2, RecordFacts
      <3> HIDE DEF n, f
      <3>3. /\ worker' \in [Workers -> Goroutine] /\ worker'[w].pc = "begin"
            /\ worker'[w].idx = n /\ worker'[w].job = j
            /\ \A v \in Workers \ {w} : worker'[v] = worker[v]
        BY <3>1, <3>2 DEF IInv, Types, Goroutine, Working
      <3>4. Marked'
        BY <1>1, <3>1, <3>3, KeepsMarked DEF pool
      <3>5. AtWork(w)'
        <4>1. \A i \in 1..n : runs[j][i] > 0
          BY <1>2 DEF Ran, n
        <4>2. /\ cache'[worker'[w].job] = latest /\ latest.items = worker'[w].idx
              /\ latest.items <= worker'[w].idx
          BY <1>3, <3>2, <3>3 DEF n
        <4> QED
          BY <1>1, <1>2, <2>2, <3>3, <4>1, <4>2 DEF AtWork
      <3> QED
        BY <3>1, <3>3, <3>4, <3>5
    <2> QED
      BY <2>1, <2>2
  <1>5. cache[j] # Absent => cache[j].items <= cache[j].items
    BY <1>2, RecordFacts
  <1> HIDE DEF j
  <1>6. Stored' /\ ReadRows' /\ Records' /\ \A v \in Workers \ {w} : AtWork(v)'
    <2>1. /\ cache[j] = Absent => cache'[j] = db[j]
          /\ cache[j] # Absent => cache'[j].items >= cache[j].items
                                  /\ (IsDone(cache[j]) => IsDone(cache'[j]))
      BY <1>3, <1>5
    <2>2. /\ worker[w].pc # "idle" /\ j = worker[w].job /\ cache'[j] # Absent
          /\ db' = db /\ runs' = runs /\ late' = late
      BY <1>1, <1>2, <1>3 DEF j
    <2> QED
      BY <1>1, <1>2, <1>3, <1>4, <2>1, <2>2, WorkerStep DEF IInv, Types
  <1>7. Types'
    BY <1>1, <1>3, <1>4 DEF IInv, Types, Marked, GetLatest, Return
  <1> QED
    BY <1>4, <1>6, <1>7 DEF IInv

(* A status is written to the cache, and to the database if it can be.      *)
LEMMA UpdateFacts ==
    ASSUME IInv, NEW j \in JobIds, NEW status \in Active \cup Terminal, UpdateStatus(j, status)
    PROVE  /\ db' \in [JobIds -> Job] /\ cache' \in [JobIds -> Job]
           /\ \A k \in JobIds \ {j} : db'[k] = db[k] /\ cache'[k] = cache[k]
           /\ db'[j] = db[j] \/ db'[j] = cache'[j]
           /\ cache'[j] # Absent /\ cache'[j].items = cache[j].items
           /\ IsDone(cache'[j]) <=> status \in Terminal
  <1> DEFINE row == [cache[j] EXCEPT !.status = status]
  <1>1. cache[j] \in Job
    BY DEF IInv, Types
  <1>2. /\ row \in Job /\ row # Absent /\ row.items = cache[j].items
        /\ IsDone(row) <=> status \in Terminal
    BY <1>1, RecordFacts
  <1>3. cache' = [cache EXCEPT ![j] = row] /\ db' \in {db, [db EXCEPT ![j] = row]}
    BY DEF UpdateStatus, Persist
  <1> HIDE DEF row
  <1>4. /\ cache' \in [JobIds -> Job] /\ cache'[j] = row
        /\ \A k \in JobIds \ {j} : cache'[k] = cache[k]
        /\ db' \in [JobIds -> Job] /\ db'[j] \in {db[j], row}
        /\ \A k \in JobIds \ {j} : db'[k] = db[k]
    BY <1>2, <1>3 DEF IInv, Types
  <1> QED
    BY <1>2, <1>4

(* The parts of the invariant that a worker's write of the records keeps.   *)
LEMMA WritesRecords ==
    ASSUME IInv, NEW w \in Workers, worker[w].pc \in Working,
           NEW j \in JobIds, j = worker[w].job,
           UNCHANGED <<request, get, sweep, late, runs>>, inFlight' \subseteq inFlight,
           \A v \in Workers \ {w} : worker'[v] = worker[v],
           db' \in [JobIds -> Job], cache' \in [JobIds -> Job],
           \A k \in JobIds \ {j} : db'[k] = db[k] /\ cache'[k] = cache[k],
           db'[j] = db[j] \/ db'[j] = cache'[j],
           cache'[j] # Absent, cache'[j].items = cache[j].items,
           Ran(runs, late, j, cache'[j])
    PROVE  /\ Stored' /\ ReadRows' /\ Records'
           /\ \A v \in Workers \ {w} : AtWork(v)'
  <1>1. worker[w].pc # "idle" /\ cache[j] # Absent /\ ~IsDone(cache[j])
    BY DEF IInv, AtWork, Working
  <1>2. /\ db[j] # Absent /\ cache[j] \in Job /\ Ran(runs, late, j, db[j])
    BY <1>1, WorkerFacts
  <1>3. cache[j].items <= cache'[j].items
    BY <1>2, RecordFacts
  <1>4. /\ Ran(runs', late', j, db'[j]) /\ Ran(runs', late', j, cache'[j])
        /\ db'[j] # Absent /\ runs' \in [JobIds -> [1..Items -> 0..MaxRuns]]
        /\ \A k \in JobIds \ {j} : db'[k] = db[k] /\ cache'[k] = cache[k] /\ runs'[k] = runs[k]
        /\ \A i \in 1..Items : runs[j][i] > 0 => runs'[j][i] > 0
    BY <1>2 DEF IInv, Types
  <1> QED
    BY <1>1, <1>2, <1>3, <1>4, WorkerStep

(* It marks the job as started.                                             *)
LEMMA BeginInv == ASSUME IInv, NEW w \in Workers, Begin(w) PROVE IInv'
  <1> USE ConstantFacts
  <1> DEFINE j == worker[w].job
  <1>1. /\ UNCHANGED <<request, get, late, queue, inFlight, sweep, runs>>
        /\ worker[w].pc = "begin" /\ UpdateStatus(j, "processing")
        /\ worker' = [worker EXCEPT ![w].pc = "item"]
    BY DEF Begin, created, pool
  <1>2. j \in JobIds /\ Ran(runs, late, j, cache[j])
    BY <1>1, WorkerFacts
  <1>3. /\ worker' \in [Workers -> Goroutine] /\ worker'[w].pc = "item" /\ worker'[w].job = j
        /\ worker'[w].idx = worker[w].idx
        /\ \A v \in Workers \ {w} : worker'[v] = worker[v]
    BY <1>1 DEF IInv, Types, Goroutine, Working
  <1> HIDE DEF j
  <1>4. /\ db' \in [JobIds -> Job] /\ cache' \in [JobIds -> Job]
        /\ \A k \in JobIds \ {j} : db'[k] = db[k] /\ cache'[k] = cache[k]
        /\ db'[j] = db[j] \/ db'[j] = cache'[j]
        /\ cache'[j] # Absent /\ cache'[j].items = cache[j].items /\ ~IsDone(cache'[j])
    BY <1>1, <1>2, UpdateFacts DEF Active, Terminal
  <1>5. Ran(runs, late, j, cache'[j])
    BY <1>2, <1>4 DEF Ran
  <1>6. Stored' /\ ReadRows' /\ Records' /\ \A v \in Workers \ {w} : AtWork(v)'
    <2>1. worker[w].pc \in Working /\ j = worker[w].job /\ inFlight' \subseteq inFlight
      BY <1>1 DEF Working, j
    <2> QED
      BY <1>1, <1>2, <1>3, <1>4, <1>5, <2>1, WritesRecords
  <1>7. AtWork(w)'
    BY <1>1, <1>3, <1>4 DEF IInv, AtWork, Working, j
  <1>8. Marked'
    BY <1>1, <1>3, KeepsMarked DEF pool, j
  <1>9. Types'
    BY <1>1, <1>3, <1>4 DEF IInv, Types
  <1> QED
    BY <1>6, <1>7, <1>8, <1>9 DEF IInv

(* The job ends, and the worker is free.                                    *)
LEMMA EndInv ==
    ASSUME IInv, NEW w \in Workers, worker[w].pc = "item", NEW status \in Terminal,
           UpdateStatus(worker[w].job, status), Return(w),
           UNCHANGED <<request, get, late, queue, sweep, runs>>,
           worker[w].job \notin Unregistered => worker[w].idx >= Items
    PROVE  IInv'
  <1> USE ConstantFacts
  <1> DEFINE j == worker[w].job
  <1>1. /\ j \in JobIds /\ Ran(runs, late, j, cache[j]) /\ cache[j] \in Job
        /\ worker[w].idx \in 0..Items
    BY WorkerFacts
  <1>2. /\ worker' \in [Workers -> Goroutine] /\ worker'[w] = Idle
        /\ \A v \in Workers \ {w} : worker'[v] = worker[v]
        /\ inFlight' \subseteq inFlight /\ Marked'
    BY ReturnFacts
  <1>3. /\ db' \in [JobIds -> Job] /\ cache' \in [JobIds -> Job]
        /\ \A k \in JobIds \ {j} : db'[k] = db[k] /\ cache'[k] = cache[k]
        /\ db'[j] = db[j] \/ db'[j] = cache'[j]
        /\ cache'[j] # Absent /\ cache'[j].items = cache[j].items
    BY <1>1, UpdateFacts
  <1>4. /\ \A i \in 1..worker[w].idx : runs[j][i] > 0
        /\ j \notin late => cache[j].items = worker[w].idx
    BY DEF IInv, AtWork, Working
  <1>5. Ran(runs, late, j, cache'[j])
    BY <1>1, <1>3, <1>4 DEF Ran
  <1> HIDE DEF j
  <1>6. Stored' /\ ReadRows' /\ Records' /\ \A v \in Workers \ {w} : AtWork(v)'
    <2>1. worker[w].pc \in Working /\ j = worker[w].job
      BY DEF Working, j
    <2> QED
      BY <1>1, <1>2, <1>3, <1>5, <2>1, WritesRecords
  <1>7. AtWork(w)'
    BY <1>2 DEF AtWork, Working
  <1>8. Types'
    BY <1>2, <1>3 DEF IInv, Types
  <1> QED
    BY <1>2, <1>6, <1>7, <1>8 DEF IInv

(* A job no handler is registered for fails.                                *)
LEMMA RejectInv == ASSUME IInv, NEW w \in Workers, Reject(w) PROVE IInv'
  BY EndInv DEF Reject, created, Terminal

(* A job ends after its last item.                                          *)
LEMMA FinishInv == ASSUME IInv, NEW w \in Workers, Finish(w) PROVE IInv'
  BY EndInv DEF Finish, created, Terminal

(* An item runs and is counted.                                             *)
LEMMA RunItemInv == ASSUME IInv, NEW w \in Workers, RunItem(w) PROVE IInv'
  <1> USE ConstantFacts
  <1> DEFINE j == worker[w].job
  <1> DEFINE i == worker[w].idx + 1
  <1> DEFINE n == IF cache[j].items < Items THEN cache[j].items + 1 ELSE cache[j].items
  <1> DEFINE s == worker[w].since + 1
  <1> DEFINE r == IF runs[j][i] < MaxRuns THEN runs[j][i] + 1 ELSE runs[j][i]
  <1>1. /\ UNCHANGED <<db, request, get, late, queue, inFlight, sweep>>
        /\ worker[w].pc = "item" /\ j \notin Unregistered /\ i <= Items
        /\ runs' = [runs EXCEPT ![j][i] = r]
        /\ \E fails \in BOOLEAN :
              cache' = [cache EXCEPT ![j].items = n, ![j].failed = cache[j].failed \/ fails]
        /\ worker' = [worker EXCEPT ![w].pc = "flush", ![w].idx = i, ![w].since = s]
    BY DEF RunItem, created, pool
  <1>2. /\ j \in JobIds /\ cache[j] \in Job /\ Ran(runs, late, j, cache[j])
        /\ db[j] # Absent /\ Ran(runs, late, j, db[j])
        /\ worker[w].idx \in 0..Items /\ worker[w].since \in Nat
    BY <1>1, WorkerFacts
  <1>3. /\ cache[j] # Absent /\ ~IsDone(cache[j]) /\ cache[j].items <= worker[w].idx
        /\ \A k \in 1..worker[w].idx : runs[j][k] > 0
        /\ j \notin late => cache[j].items = worker[w].idx
    BY <1>1 DEF IInv, AtWork, Working
  <1>4. cache[j].items \in Nat
    BY <1>2, RecordFacts
  <1>5. /\ i \in 1..Items /\ s \in Nat /\ n \in 0..Items /\ n = cache[j].items + 1
        /\ n <= i /\ (j \notin late => n = i) /\ r \in 1..MaxRuns /\ r > 0
    <2>1. worker[w].idx \in Nat /\ i \in 1..Items /\ s \in Nat
      BY <1>1, <1>2
    <2>2. n = cache[j].items + 1
      BY <1>1, <1>2, <1>3, <1>4
    <2>3. runs[j][i] \in 0..MaxRuns /\ MaxRuns \in Nat \ {0}
      BY <1>2, <2>1, JobsAssumption DEF IInv, Types
    <2>4. r \in 1..MaxRuns /\ r > 0
      BY <2>3
    <2> QED
      BY <1>3, <1>4, <2>1, <2>2, <2>4
  <1> HIDE DEF n, s, r
  <1>6. /\ runs' \in [JobIds -> [1..Items -> 0..MaxRuns]] /\ runs'[j][i] = r
        /\ \A k \in 1..Items \ {i} : runs'[j][k] = runs[j][k]
        /\ \A k \in JobIds \ {j} : runs'[k] = runs[k]
    BY <1>1, <1>2, <1>5 DEF IInv, Types
  <1>7. /\ cache' \in [JobIds -> Job] /\ cache'[j].items = n
        /\ cache'[j].status = cache[j].status
        /\ \A k \in JobIds \ {j} : cache'[k] = cache[k]
    <2>1. PICK fails \in BOOLEAN :
             cache' = [cache EXCEPT ![j].items = n, ![j].failed = cache[j].failed \/ fails]
      BY <1>1
    <2> DEFINE f == cache[j].failed \/ fails
    <2>2. f \in BOOLEAN
      OBVIOUS
    <2>3. cache' = [cache EXCEPT ![j].items = n, ![j].failed = f]
      BY <2>1
    <2> HIDE DEF f
    <2> QED
      BY <1>2, <1>5, <2>2, <2>3 DEF IInv, Types, Job
  <1> HIDE DEF i
  <1>8. /\ worker' \in [Workers -> Goroutine] /\ worker'[w].pc = "flush" /\ worker'[w].idx = i
        /\ worker'[w].job = j
        /\ \A v \in Workers \ {w} : worker'[v] = worker[v]
    <2>1. worker \in [Workers -> Goroutine] /\ i \in 0..Items
      BY <1>5 DEF IInv, Types
    <2>2. worker' = [worker EXCEPT ![w].pc = "flush", ![w].idx = i, ![w].since = s]
      BY <1>1
    <2> QED
      BY <1>5, <2>1, <2>2 DEF Goroutine, Working
  <1>9. /\ cache'[j] # Absent /\ ~IsDone(cache'[j])
    BY <1>3, <1>4, <1>5, <1>7 DEF IsDone
  <1>10. /\ \A k \in 1..i : runs'[j][k] > 0
         /\ \A k \in 1..Items : runs[j][k] > 0 => runs'[j][k] > 0
    <2>1. runs'[j][i] > 0
      BY <1>5, <1>6
    <2>2. \A k \in 1..i : k = i \/ k \in (1..worker[w].idx) \ {i}
      BY <1>2 DEF i
    <2>3. \A k \in 1..worker[w].idx : k \in 1..Items
      BY <1>2
    <2> QED
      BY <1>3, <1>6, <2>1, <2>2, <2>3
  <1>11. Ran(runs', late, j, cache'[j])
    BY <1>5, <1>7, <1>9, <1>10 DEF Ran
  <1>12. Ran(runs', late, j, db[j])
    <2>1. db[j] \in Job
      BY <1>2 DEF IInv, Types
    <2> QED
      BY <1>2, <1>10, <2>1, RanGrows
  <1>13. cache[j].items <= cache'[j].items
    BY <1>4, <1>5, <1>7
  <1> HIDE DEF j
  <1>14. Stored' /\ ReadRows' /\ Records' /\ \A v \in Workers \ {w} : AtWork(v)'
    <2>1. /\ worker[w].pc # "idle" /\ j = worker[w].job
          /\ db' = db /\ late' = late /\ db' \in [JobIds -> Job] /\ inFlight' \subseteq inFlight
          /\ UNCHANGED <<request, get, sweep, late>>
      BY <1>1 DEF j, IInv, Types
    <2>2. /\ \A k \in JobIds \ {j} : db'[k] = db[k] /\ cache'[k] = cache[k] /\ runs'[k] = runs[k]
          /\ db'[j] # Absent /\ Ran(runs', late', j, db'[j]) /\ Ran(runs', late', j, cache'[j])
      BY <1>2, <1>6, <1>7, <1>11, <1>12, <2>1
    <2>3. cache[j] # Absent /\ ~IsDone(cache[j])
      BY <1>3
    <2> QED
      BY <1>2, <1>6, <1>7, <1>8, <1>9, <1>10, <1>13, <2>1, <2>2, <2>3, WorkerStep
  <1>15. AtWork(w)'
    BY <1>1, <1>5, <1>7, <1>8, <1>9, <1>10 DEF AtWork
  <1>16. Marked'
    BY <1>1, <1>8, KeepsMarked DEF pool, j
  <1>17. Types'
    BY <1>1, <1>6, <1>7, <1>8 DEF IInv, Types
  <1> QED
    BY <1>14, <1>15, <1>16, <1>17 DEF IInv

(* The worker is at the next item, which is the one after it in the cache   *)
(* too.                                                                     *)
LEMMA NextItemFacts ==
    ASSUME IInv, NEW w \in Workers, worker[w].pc = "flush", NEW since \in Nat,
           worker' = NextItem(w, since)
    PROVE  /\ worker' \in [Workers -> Goroutine] /\ worker'[w].pc = "item"
           /\ worker'[w].job = worker[w].job /\ worker'[w].idx = worker[w].idx
           /\ \A v \in Workers \ {w} : worker'[v] = worker[v]
  <1> DEFINE j == worker[w].job
  <1> DEFINE f == cache[j].failed
  <1>1. j \in JobIds /\ cache[j] \in Job /\ worker[w].idx \in 0..Items
    BY WorkerFacts
  <1>2. cache[j].items <= worker[w].idx
    BY DEF IInv, AtWork, Working
  <1>3. cache[j].items \in Nat /\ f \in BOOLEAN
    BY <1>1, RecordFacts
  <1>4. ~(cache[j].items > worker[w].idx)
    BY <1>1, <1>2, <1>3
  <1> DEFINE n == worker[w].idx
  <1>5. worker' = [worker EXCEPT ![w].pc = "item", ![w].since = since, ![w].idx = n,
                                 ![w].failed = f]
    BY <1>4 DEF NextItem
  <1>6. worker \in [Workers -> Goroutine] /\ n \in 0..Items
    BY <1>1 DEF IInv, Types
  <1> HIDE DEF j, f, n
  <1> DEFINE half == [worker EXCEPT ![w].pc = "item", ![w].since = since]
  <1>7. /\ half \in [Workers -> Goroutine] /\ half[w].pc = "item"
        /\ half[w].job = worker[w].job
        /\ \A v \in Workers \ {w} : half[v] = worker[v]
    BY <1>6 DEF Goroutine, Working
  <1>8. worker' = [half EXCEPT ![w].idx = n, ![w].failed = f]
    BY <1>5
  <1> HIDE DEF half
  <1>9. /\ worker' \in [Workers -> Goroutine] /\ worker'[w].pc = half[w].pc
        /\ worker'[w].job = half[w].job /\ worker'[w].idx = n
        /\ \A v \in Workers \ {w} : worker'[v] = half[v]
    <2>1. worker' \in [Workers -> Goroutine]
      BY <1>3, <1>6, <1>7, <1>8 DEF Goroutine
    <2>2. worker'[w].pc = half[w].pc
      BY <1>7, <1>8 DEF Goroutine
    <2>3. worker'[w].job = half[w].job
      BY <1>7, <1>8 DEF Goroutine
    <2>4. worker'[w].idx = n
      BY <1>7, <1>8 DEF Goroutine
    <2>5. \A v \in Workers \ {w} : worker'[v] = half[v]
      BY <1>7, <1>8
    <2> QED
      BY <2>1, <2>2, <2>3, <2>4, <2>5
  <1> QED
    BY <1>7, <1>9 DEF n

(* The record is not written every time.                                    *)
LEMMA SkipFlushInv == ASSUME IInv, NEW w \in Workers, SkipFlush(w) PROVE IInv'
  <1>1. /\ UNCHANGED <<db, cache, request, get, late, queue, inFlight, sweep, runs>>
        /\ worker[w].pc = "flush" /\ worker' = NextItem(w, worker[w].since)
    BY DEF SkipFlush, created, pool
  <1>2. /\ worker' \in [Workers -> Goroutine] /\ worker'[w].pc = "item"
        /\ worker'[w].job = worker[w].job /\ worker'[w].idx = worker[w].idx
        /\ \A v \in Workers \ {w} : worker'[v] = worker[v]
    BY <1>1, NextItemFacts, WorkerFacts
  <1>3. Types'
    BY <1>1, <1>2 DEF IInv, Types
  <1>4. Marked'
    BY <1>1, <1>2, KeepsMarked DEF pool
  <1>5. Stored' /\ ReadRows' /\ Records'
    BY <1>1 DEF IInv, Stored, ReadRows, Records
  <1>6. \A v \in Workers : AtWork(v)'
    BY <1>1, <1>2 DEF IInv, AtWork, Working
  <1> QED
    BY <1>3, <1>4, <1>5, <1>6 DEF IInv

(* When it is, the write may fail.                                          *)
LEMMA FlushResultsInv == ASSUME IInv, NEW w \in Workers, FlushResults(w) PROVE IInv'
  <1> USE ConstantFacts
  <1> DEFINE j == worker[w].job
  <1>1. PICK outcome \in Outcomes :
           /\ UNCHANGED <<cache, request, get, late, queue, sweep, runs>>
           /\ worker[w].pc = "flush" /\ Persist(j, cache[j], outcome)
           /\ IF outcome = "transient" THEN Return(w)
              ELSE worker' = NextItem(w, 0) /\ UNCHANGED inFlight
    BY DEF FlushResults, created
  <1>2. /\ j \in JobIds /\ cache[j] \in Job /\ Ran(runs, late, j, cache[j])
        /\ cache[j] # Absent
    BY <1>1, WorkerFacts DEF IInv, AtWork, Working
  <1>3. /\ db' \in [JobIds -> Job] /\ (db'[j] = db[j] \/ db'[j] = cache[j])
        /\ \A k \in JobIds \ {j} : db'[k] = db[k]
    BY <1>1, <1>2 DEF Persist, IInv, Types
  <1>4. /\ worker' \in [Workers -> Goroutine] /\ AtWork(w)' /\ Marked'
        /\ \A v \in Workers \ {w} : worker'[v] = worker[v]
        /\ inFlight' \subseteq inFlight
    <2>1. CASE outcome = "transient"
      BY <1>1, <2>1, ReturnFacts DEF AtWork, Working
    <2>2. CASE outcome # "transient"
      <3>1. /\ worker' \in [Workers -> Goroutine] /\ worker'[w].pc = "item"
            /\ worker'[w].job = worker[w].job /\ worker'[w].idx = worker[w].idx
            /\ \A v \in Workers \ {w} : worker'[v] = worker[v]
        BY <1>1, <2>2, NextItemFacts
      <3>2. Marked'
        BY <1>1, <2>2, <3>1, KeepsMarked DEF pool
      <3>3. AtWork(w)'
        BY <1>1, <3>1 DEF IInv, AtWork, Working
      <3> QED
        BY <1>1, <2>2, <3>1, <3>2, <3>3
    <2> QED
      BY <2>1, <2>2
  <1> HIDE DEF j
  <1>5. Stored' /\ ReadRows' /\ Records' /\ \A v \in Workers \ {w} : AtWork(v)'
    <2>1. worker[w].pc \in Working /\ j = worker[w].job /\ cache' = cache
          /\ cache \in [JobIds -> Job]
      BY <1>1 DEF Working, j, IInv, Types
    <2> QED
      BY <1>1, <1>2, <1>3, <1>4, <2>1, WritesRecords
  <1>6. Types'
    BY <1>1, <1>3, <1>4 DEF IInv, Types, Marked
  <1> QED
    BY <1>4, <1>5, <1>6 DEF IInv

-----------------------------------------------------------------------------
(* Every step keeps the invariant.                                          *)
LEMMA InvNext == ASSUME IInv, [Next]_vars PROVE IInv'
  <1>1. ASSUME NEW j \in JobIds, Request(j) \/ GetReads(j) \/ Cleanup(j) PROVE IInv'
    BY <1>1, SubmitInv, CacheNewJobInv, DispatchInv, GetReadsInv, CleanupInv DEF Request
  <1>2. CASE GetCaches \/ Sweep \/ Crash
    BY <1>2, GetCachesInv, SweepQueryInv, SweepFillInv, SweepEnqueueInv, CrashInv DEF Sweep
  <1>3. ASSUME NEW w \in Workers, Take(w) \/ Process(w) PROVE IInv'
    BY <1>3, TakeInv, GetLatestInv, BeginInv, RejectInv, RunItemInv, SkipFlushInv,
       FlushResultsInv, FinishInv DEF Process
  <1>4. CASE UNCHANGED vars
    <2>1. /\ UNCHANGED <<db, cache, request, get, late, queue, inFlight, worker, sweep, runs>>
      BY <1>4 DEF vars, created, pool
    <2>2. Types'
      BY <2>1 DEF IInv, Types
    <2>3. Marked' /\ Stored' /\ ReadRows' /\ Records' /\ \A w \in Workers : AtWork(w)'
      BY <2>1 DEF IInv, Marked, OneWorkerPerJob, Stored, ReadRows, Records, AtWork
    <2> QED
      BY <2>2, <2>3 DEF IInv
  <1> QED
    BY <1>1, <1>2, <1>3, <1>4 DEF Next

(* What the invariant says of the properties.                               *)
LEMMA InvSafe ==
    ASSUME IInv
    PROVE  TypeOK /\ OneWorkerPerJob /\ FinishedJobsHaveRun /\ FinishedJobsAreComplete
  <1>1. TypeOK
    BY ConstantFacts DEF IInv, Types, Goroutine, Working, TypeOK
  <1>2. OneWorkerPerJob
    BY DEF IInv, Marked
  <1>3. FinishedJobsHaveRun /\ FinishedJobsAreComplete
    BY DEF IInv, Records, Ran, FinishedJobsHaveRun, FinishedJobsAreComplete
  <1> QED
    BY <1>1, <1>2, <1>3

-----------------------------------------------------------------------------
(* Items that run more than once                                            *)

(* The items of a worker since the last write of the results: they run      *)
(* again if that write is lost.                                             *)
Window(w) == {i \in 1..Items : worker[w].idx - worker[w].since < i /\ i <= worker[w].idx}

Again(j) == {i \in 1..Items : runs[j][i] > 1}

(* What has run again, or may: what the database does not count, save the   *)
(* window of the worker at work, which no loss has been paid for.           *)
Exposed(j) == {i \in 1..Items :
    \/ runs[j][i] > 1
    \/ /\ runs[j][i] = 1 /\ i > db[j].items
       /\ \A w \in Workers : worker[w].job = j => i \notin Window(w)}

Paced(w) ==
    /\ worker[w].since <= FlushBatch
    /\ worker[w].pc \in {"idle", "get", "begin"} => worker[w].since = 0
    /\ worker[w].pc = "item" =>
          worker[w].since < FlushBatch /\ (worker[w].idx = Items => worker[w].since = 0)
    /\ worker[w].job \in Unregistered => worker[w].since = 0

Losses == FlushBatch * (crashes + errors)

Reruns ==
    /\ crashes \in Nat /\ errors \in Nat
    /\ \A j \in JobIds : request[j] = "new" => \A i \in 1..Items : runs[j][i] = 0
    /\ \A j \in JobIds \ late :
          /\ db[j] # Absent /\ cache[j] # Absent => db[j].items <= cache[j].items
          /\ Cardinality(Again(j)) <= Losses
          /\ db[j] # Absent => Cardinality(Exposed(j)) <= Losses
    /\ \A w \in Workers : Paced(w)

(* Sets of items are finite.                                                *)
LEMMA ItemSets ==
    ASSUME NEW S \in SUBSET (1..Items)
    PROVE  /\ IsFiniteSet(S) /\ Cardinality(S) \in Nat
           /\ \A T \in SUBSET S : Cardinality(T) <= Cardinality(S)
  <1>1. IsFiniteSet(1..Items)
    BY ConstantFacts, FS_Interval
  <1>2. IsFiniteSet(S)
    BY <1>1, FS_Subset
  <1> QED
    BY <1>2, FS_Subset, FS_CardinalityType

(* The items since the last flush are a batch at most.                      *)
LEMMA WindowSize ==
    ASSUME IInv, Reruns, NEW w \in Workers
    PROVE  /\ Window(w) \in SUBSET (1..Items) /\ Cardinality(Window(w)) <= FlushBatch
           /\ worker[w].since = 0 => Window(w) = {}
  <1> DEFINE a == worker[w].idx
  <1> DEFINE s == worker[w].since
  <1>1. a \in Nat /\ s \in Nat /\ s <= FlushBatch /\ FlushBatch \in Nat
    BY ConstantFacts, JobsAssumption DEF IInv, Types, Goroutine, Reruns, Paced
  <1>2. Window(w) = {i \in 1..Items : a - s < i /\ i <= a}
    BY DEF Window
  <1> HIDE DEF a, s
  <1>3. Window(w) \subseteq a - s + 1 .. a
    BY <1>1, <1>2, ConstantFacts
  <1>4. a - s + 1 \in Int /\ a \in Int /\ (IF a - s + 1 > a THEN 0 ELSE a - (a - s + 1) + 1) = s
    BY <1>1
  <1>5. IsFiniteSet(a - s + 1 .. a) /\ Cardinality(a - s + 1 .. a) = s
    BY <1>4, FS_Interval
  <1>6. Cardinality(Window(w)) <= s
    BY <1>3, <1>5, FS_Subset
  <1>7. Window(w) \in SUBSET (1..Items) /\ Cardinality(Window(w)) \in Nat
    BY <1>2, ItemSets
  <1>8. s = 0 => Window(w) = {}
    BY <1>1, <1>2, ConstantFacts
  <1> QED
    BY <1>1, <1>6, <1>7, <1>8 DEF s

(* A step adds nothing to what may run again, or what one lost write or     *)
(* restart pays for.                                                        *)
LEMMA RerunsKept ==
    ASSUME IInv, Reruns, crashes' \in Nat, errors' \in Nat, late \subseteq late',
           crashes + errors <= crashes' + errors',
           \A j \in JobIds : request'[j] = "new" => request[j] = "new" /\ runs'[j] = runs[j],
           \A w \in Workers : Paced(w)',
           \A j \in JobIds \ late' :
              /\ db'[j] # Absent /\ cache'[j] # Absent => db'[j].items <= cache'[j].items
              /\ db'[j] = Absent => Again(j)' \subseteq Again(j)
              /\ db'[j] # Absent =>
                    \/ Exposed(j)' = {}
                    \/ db[j] # Absent /\ Exposed(j)' \subseteq Exposed(j)
                    \/ /\ db[j] # Absent /\ crashes' + errors' = crashes + errors + 1
                       /\ \E w \in Workers : Exposed(j)' \subseteq Exposed(j) \cup Window(w)
    PROVE  Reruns'
  <1> DEFINE n == crashes + errors
  <1> DEFINE m == crashes' + errors'
  <1>1. n \in Nat /\ m \in Nat /\ n <= m /\ FlushBatch \in Nat
    BY JobsAssumption DEF Reruns
  <1>2. /\ Losses = FlushBatch * n /\ Losses' = FlushBatch * m
        /\ Losses \in Nat /\ Losses' \in Nat /\ Losses <= Losses'
        /\ m = n + 1 => Losses' = Losses + FlushBatch
    <2>1. Losses = FlushBatch * n /\ Losses' = FlushBatch * m
      BY DEF Losses
    <2> HIDE DEF n, m
    <2>2. PICK d \in Nat : m = n + d
      <3>1. m - n \in Nat /\ m = n + (m - n)
        BY <1>1
      <3> QED
        BY <3>1
    <2>3. FlushBatch * m = FlushBatch * n + FlushBatch * d
      BY <1>1, <2>2
    <2>4. FlushBatch * n \in Nat /\ FlushBatch * m \in Nat /\ FlushBatch * d \in Nat
      BY <1>1
    <2>5. m = n + 1 => d = 1 /\ FlushBatch * d = FlushBatch
      BY <1>1, <2>2
    <2> QED
      BY <2>1, <2>3, <2>4, <2>5
  <1>3. ASSUME NEW j \in JobIds \ late' PROVE
           /\ Cardinality(Again(j)') <= Losses'
           /\ db'[j] # Absent => Cardinality(Exposed(j)') <= Losses'
    <2>1. /\ Exposed(j) \in SUBSET (1..Items) /\ Exposed(j)' \in SUBSET (1..Items)
          /\ Again(j) \in SUBSET (1..Items) /\ Again(j)' \in SUBSET (1..Items)
          /\ Again(j)' \subseteq Exposed(j)'
      BY DEF Exposed, Again
    <2>2. /\ Cardinality(Exposed(j)) \in Nat /\ Cardinality(Exposed(j)') \in Nat
          /\ Cardinality(Again(j)) \in Nat /\ Cardinality(Again(j)') \in Nat
          /\ Cardinality(Again(j)') <= Cardinality(Exposed(j)')
      BY <2>1, ItemSets
    <2>3. /\ Cardinality(Again(j)) <= Losses
          /\ db[j] # Absent => Cardinality(Exposed(j)) <= Losses
      BY DEF Reruns
    <2>4. CASE db'[j] = Absent
      <3>1. Cardinality(Again(j)') <= Cardinality(Again(j))
        BY <2>1, <2>4, ItemSets
      <3> QED
        BY <1>2, <2>2, <2>3, <2>4, <3>1
    <2>5. CASE db'[j] # Absent /\ Exposed(j)' = {}
      <3>1. Cardinality(Exposed(j)') = 0
        BY <2>5, FS_EmptySet
      <3> QED
        BY <1>2, <2>2, <3>1
    <2>6. CASE db'[j] # Absent /\ db[j] # Absent /\ Exposed(j)' \subseteq Exposed(j)
      <3>1. Cardinality(Exposed(j)') <= Cardinality(Exposed(j))
        BY <2>1, <2>6, ItemSets
      <3> QED
        BY <1>2, <2>2, <2>3, <2>6, <3>1
    <2>7. ASSUME db'[j] # Absent, db[j] # Absent, m = n + 1,
                 NEW w \in Workers, Exposed(j)' \subseteq Exposed(j) \cup Window(w)
          PROVE  /\ Cardinality(Again(j)') <= Losses'
                 /\ Cardinality(Exposed(j)') <= Losses'
      <3>1. Window(w) \in SUBSET (1..Items) /\ Cardinality(Window(w)) <= FlushBatch
        BY WindowSize
      <3>2. /\ IsFiniteSet(Exposed(j)) /\ IsFiniteSet(Window(w)) /\ Cardinality(Window(w)) \in Nat
            /\ IsFiniteSet(Exposed(j) \cap Window(w)) /\ Cardinality(Exposed(j) \cap Window(w)) \in Nat
        BY <2>1, <3>1, ItemSets
      <3>3. Cardinality(Exposed(j) \cup Window(w)) <= Cardinality(Exposed(j)) + Cardinality(Window(w))
            /\ Cardinality(Exposed(j) \cup Window(w)) \in Nat
        <4>1. /\ IsFiniteSet(Exposed(j) \cup Window(w))
              /\ Cardinality(Exposed(j) \cup Window(w)) = Cardinality(Exposed(j))
                    + Cardinality(Window(w)) - Cardinality(Exposed(j) \cap Window(w))
          BY <3>2, FS_Union
        <4> QED
          BY <2>2, <3>2, <4>1, FS_CardinalityType
      <3>4. Cardinality(Exposed(j)') <= Cardinality(Exposed(j) \cup Window(w))
        BY <2>1, <2>7, <3>1, ItemSets
      <3> QED
        BY <1>1, <1>2, <2>2, <2>3, <2>7, <3>1, <3>2, <3>3, <3>4
    <2> QED
      BY <2>4, <2>5, <2>6, <2>7
  <1>4. \A j \in JobIds : request'[j] = "new" => \A i \in 1..Items : runs'[j][i] = 0
    BY DEF Reruns
  <1> QED
    BY <1>3, <1>4 DEF Reruns

(* Nothing has run at the beginning.                                        *)
LEMMA RerunsInit == Init => Reruns
  <1> SUFFICES ASSUME Init PROVE Reruns
    OBVIOUS
  <1> USE ConstantFacts
  <1>1. /\ \A j \in JobIds : /\ db[j] = Absent /\ Again(j) = {}
                             /\ \A i \in 1..Items : runs[j][i] = 0
        /\ crashes = 0 /\ errors = 0
        /\ \A w \in Workers : worker[w].since = 0 /\ worker[w].pc = "idle"
    BY DEF Init, Again, Idle
  <1>2. Losses = 0 /\ Cardinality({}) = 0 /\ FlushBatch \in Nat \ {0}
    BY <1>1, JobsAssumption, FS_EmptySet DEF Losses
  <1>3. \A w \in Workers : Paced(w)
    BY <1>1, <1>2 DEF Paced
  <1>4. \A j \in JobIds : Cardinality(Again(j)) = 0
    BY <1>1, <1>2
  <1> QED
    BY <1>1, <1>2, <1>3, <1>4 DEF Reruns

(* Nothing more is exposed when the runs are the same, the database counts  *)
(* no less and what was in a window still is, or is counted.                *)
LEMMA ExposedKept ==
    ASSUME NEW j \in JobIds, runs'[j] = runs[j], db[j] \in Job, db'[j] \in Job,
           db[j].items <= db'[j].items,
           \A i \in 1..Items : \A w \in Workers : worker[w].job = j /\ i \in Window(w) =>
              i <= db'[j].items \/ \E v \in Workers : worker'[v].job = j /\ i \in Window(v)'
    PROVE  Exposed(j)' \subseteq Exposed(j)
  <1>1. db[j].items \in Nat /\ db'[j].items \in Nat
    BY RecordFacts
  <1> SUFFICES ASSUME NEW i \in Exposed(j)', i \notin Exposed(j) PROVE FALSE
    OBVIOUS
  <1>2. i \in 1..Items /\ ~(runs[j][i] > 1) /\ runs[j][i] = 1 /\ i > db'[j].items
        /\ \A v \in Workers : worker'[v].job = j => i \notin Window(v)'
    BY DEF Exposed
  <1>3. i > db[j].items
    BY <1>1, <1>2
  <1>4. PICK w \in Workers : worker[w].job = j /\ i \in Window(w)
    BY <1>2, <1>3 DEF Exposed
  <1> QED
    BY <1>1, <1>2, <1>4

(* The same, for the window of a worker that stays.                         *)
LEMMA WindowSame ==
    ASSUME NEW w \in Workers, worker'[w].idx = worker[w].idx, worker'[w].since = worker[w].since
    PROVE  Window(w)' = Window(w)
  BY DEF Window

(* A worker that does not move keeps its pace.                              *)
LEMMA PacedSame ==
    ASSUME Reruns, NEW w \in Workers, worker'[w] = worker[w] PROVE Paced(w)'
  BY DEF Reruns, Paced

(* Restarts and lost writes are counted once and for all.                   *)
LEMMA LossesGrow ==
    ASSUME Reruns, crashes' = crashes, errors' \in {errors, errors + 1}
    PROVE  crashes' \in Nat /\ errors' \in Nat /\ crashes + errors <= crashes' + errors'
  <1>1. crashes \in Nat /\ errors \in Nat
    BY DEF Reruns
  <1>2. CASE errors' = errors
    BY <1>1, <1>2
  <1>3. CASE errors' = errors + 1
    BY <1>1, <1>3
  <1> QED
    BY <1>2, <1>3

(* Requests and reads, the sweep and the cleanup.                           *)
LEMMA RerunsAround ==
    ASSUME IInv, IInv', Reruns, UNCHANGED <<runs, worker, crashes, errors>>, late \subseteq late',
           \A j \in JobIds : request'[j] = "new" => request[j] = "new",
           \A j \in JobIds : db'[j] \in {db[j], Absent},
           \A j \in JobIds \ late' : cache'[j] # Absent /\ db'[j] # Absent =>
              cache'[j] \in {cache[j], db[j]}
    PROVE  Reruns'
  <1>1. \A w \in Workers : Window(w)' = Window(w) /\ Paced(w)'
    BY WindowSame, PacedSame
  <1>2. ASSUME NEW j \in JobIds \ late' PROVE
           /\ db'[j] # Absent /\ cache'[j] # Absent => db'[j].items <= cache'[j].items
           /\ Again(j)' \subseteq Again(j)
           /\ db'[j] # Absent => db[j] # Absent /\ Exposed(j)' \subseteq Exposed(j)
    <2>1. db[j] \in Job /\ db'[j] \in Job
      BY DEF IInv, Types
    <2>2. db[j].items \in Nat /\ db[j].items <= db[j].items
      BY <2>1, RecordFacts
    <2>3. db'[j] # Absent => db'[j] = db[j]
      OBVIOUS
    <2>4. db'[j] # Absent /\ cache'[j] # Absent => db'[j].items <= cache'[j].items
      BY <2>2, <2>3 DEF Reruns
    <2>5. db'[j] # Absent => Exposed(j)' \subseteq Exposed(j)
      BY <1>1, <2>1, <2>2, <2>3, ExposedKept
    <2>6. Again(j)' \subseteq Again(j)
      BY DEF Again
    <2> QED
      BY <2>3, <2>4, <2>5, <2>6
  <1>3. /\ crashes' \in Nat /\ errors' \in Nat /\ crashes + errors <= crashes' + errors'
        /\ \A j \in JobIds : request'[j] = "new" => request[j] = "new" /\ runs'[j] = runs[j]
    BY DEF Reruns
  <1> QED
    BY <1>1, <1>2, <1>3, RerunsKept

(* Requests and the sweep run nothing.                                      *)
LEMMA RerunsRequests ==
    ASSUME IInv, IInv', Reruns,
           \/ \E j \in JobIds : CacheNewJob(j) \/ Dispatch(j) \/ GetReads(j) \/ Cleanup(j)
           \/ GetCaches \/ Sweep
    PROVE  Reruns'
  <1>1. ASSUME NEW j \in JobIds, CacheNewJob(j) PROVE Reruns'
    <2>1. /\ UNCHANGED <<db, runs, worker, crashes, errors>> /\ Overwrite(j, NewJob)
          /\ request[j] = "stored" /\ request' = [request EXCEPT ![j] = "cached"]
      BY <1>1 DEF CacheNewJob
    <2>2. cache[j] = Absent => db[j] = NewJob
      BY <2>1 DEF IInv, Stored
    <2>3. /\ cache'[j] = NewJob /\ \A k \in JobIds \ {j} : cache'[k] = cache[k]
          /\ late \subseteq late' /\ (cache[j] # Absent /\ cache[j] # NewJob => j \in late')
      BY <2>1, OverwriteFacts, ConstantFacts
    <2>4. \A k \in JobIds : request'[k] = "new" => request[k] = "new"
      BY <2>1 DEF IInv, Types
    <2> QED
      BY <2>1, <2>2, <2>3, <2>4, RerunsAround
  <1>2. ASSUME NEW j \in JobIds, Dispatch(j) PROVE Reruns'
    <2>1. /\ UNCHANGED <<db, cache, late, runs, worker, crashes, errors>>
          /\ request[j] = "cached" /\ request' = [request EXCEPT ![j] = "over"]
      BY <1>2 DEF Dispatch
    <2>2. \A k \in JobIds : request'[k] = "new" => request[k] = "new"
      BY <2>1 DEF IInv, Types
    <2> QED
      BY <2>1, <2>2, RerunsAround
  <1>3. ASSUME NEW j \in JobIds, GetReads(j) PROVE Reruns'
    BY <1>3, RerunsAround DEF GetReads
  <1>4. CASE GetCaches
    <2>1. /\ UNCHANGED <<db, request, runs, worker, crashes, errors>>
          /\ get # NoGet /\ Overwrite(get.job, get.row)
      BY <1>4 DEF GetCaches
    <2>2. get.job \in JobIds /\ get.row \in Job
      BY <2>1 DEF IInv, Types
    <2>3. cache[get.job] = Absent => get.row = db[get.job] \/ db[get.job] = Absent
      BY <2>2 DEF IInv, ReadRows
    <2>4. /\ cache'[get.job] = get.row /\ \A k \in JobIds \ {get.job} : cache'[k] = cache[k]
          /\ late \subseteq late'
          /\ cache[get.job] # Absent /\ cache[get.job] # get.row => get.job \in late'
      BY <2>1, <2>2, OverwriteFacts
    <2>5. \A j \in JobIds \ late' : cache'[j] # Absent /\ db'[j] # Absent =>
              cache'[j] \in {cache[j], db[j]}
      BY <2>1, <2>3, <2>4
    <2> QED
      BY <2>1, <2>4, <2>5, RerunsAround
  <1>5. CASE SweepQuery \/ SweepEnqueue
    BY <1>5, RerunsAround DEF SweepQuery, SweepEnqueue, created
  <1>6. CASE SweepFill
    <2>1. /\ UNCHANGED <<db, request, late, runs, worker, crashes, errors>> /\ sweep.pc = "fill"
      BY <1>6 DEF SweepFill, created
    <2>2. \A j \in JobIds : cache'[j] \in {cache[j], db[j]}
      BY <1>6, <2>1 DEF SweepFill, Fill, IInv, ReadRows
    <2> QED
      BY <2>1, <2>2, RerunsAround
  <1>7. ASSUME NEW j \in JobIds, Cleanup(j) PROVE Reruns'
    <2>1. /\ UNCHANGED <<request, late, runs, worker, crashes, errors>>
          /\ db' = IF IsDone(db[j]) THEN [db EXCEPT ![j] = Absent] ELSE db
          /\ cache' = IF IsDone(cache[j]) THEN [cache EXCEPT ![j] = Absent] ELSE cache
      BY <1>7 DEF Cleanup, created
    <2>2. \A k \in JobIds : db'[k] \in {db[k], Absent} /\ cache'[k] \in {cache[k], Absent}
      BY <2>1 DEF IInv, Types
    <2> QED
      BY <2>1, <2>2, RerunsAround
  <1> QED
    BY <1>1, <1>2, <1>3, <1>4, <1>5, <1>6, <1>7 DEF Sweep

(* A job that is new has run nothing.                                       *)
LEMMA RerunsSubmit == ASSUME IInv, IInv', Reruns, NEW j \in JobIds, Submit(j) PROVE Reruns'
  <1>1. PICK outcome \in Outcomes :
           /\ Persist(j, NewJob, outcome)
           /\ request' = [request EXCEPT ![j] = IF outcome = "ok" THEN "stored" ELSE "over"]
    BY DEF Submit
  <1>2. /\ UNCHANGED <<cache, late, runs, worker, crashes>> /\ request[j] = "new"
    BY JobsAssumption DEF Submit, pool
  <1>3. /\ \A k \in JobIds \ {j} : db'[k] = db[k]
        /\ \A k \in JobIds : request'[k] = "new" => request[k] = "new" /\ runs'[k] = runs[k]
        /\ errors' \in {errors, errors + 1}
    BY <1>1, <1>2 DEF Persist, IInv, Types
  <1>4. \A w \in Workers : Window(w)' = Window(w) /\ Paced(w)'
    BY <1>2, WindowSame, PacedSame
  <1>5. /\ \A i \in 1..Items : runs'[j][i] = 0
        /\ db[j] = Absent /\ cache'[j] = Absent
    BY <1>2 DEF Reruns, IInv, Stored
  <1>6. ASSUME NEW k \in JobIds \ late' PROVE
           /\ db'[k] # Absent /\ cache'[k] # Absent => db'[k].items <= cache'[k].items
           /\ Again(k)' \subseteq Again(k)
           /\ db'[k] # Absent =>
                 Exposed(k)' = {} \/ (db[k] # Absent /\ Exposed(k)' \subseteq Exposed(k))
    <2>1. Again(k)' \subseteq Again(k)
      BY <1>2 DEF Again
    <2>2. CASE k = j
      <3>1. Exposed(k)' = {}
        BY <1>5, <2>2 DEF Exposed
      <3> QED
        BY <1>5, <2>1, <2>2, <3>1
    <2>3. CASE k # j
      <3>1. db'[k] = db[k] /\ cache'[k] = cache[k] /\ db[k] \in Job
        BY <1>2, <1>3, <2>3 DEF IInv, Types
      <3>2. db[k].items <= db'[k].items
        BY <3>1, RecordFacts
      <3>3. Exposed(k)' \subseteq Exposed(k)
        BY <1>2, <1>4, <3>1, <3>2, ExposedKept
      <3> QED
        BY <1>2, <2>1, <3>1, <3>3 DEF Reruns
    <2> QED
      BY <2>2, <2>3
  <1>7. crashes' \in Nat /\ errors' \in Nat /\ crashes + errors <= crashes' + errors'
    BY <1>2, <1>3, LossesGrow
  <1> QED
    BY <1>2, <1>3, <1>4, <1>6, <1>7, RerunsKept

(* Steps of one worker that runs no item and loses no write.                *)
LEMMA RerunsWorker ==
    ASSUME IInv, IInv', Reruns, NEW w \in Workers, worker[w].pc # "idle",
           NEW j \in JobIds, j = worker[w].job,
           UNCHANGED <<request, late, runs, crashes>>, errors' \in {errors, errors + 1},
           \A v \in Workers \ {w} : worker'[v] = worker[v], Paced(w)',
           \A k \in JobIds \ {j} : db'[k] = db[k] /\ cache'[k] = cache[k],
           j \notin late => db[j].items <= db'[j].items /\ db'[j].items <= cache'[j].items,
           j \notin late => \A i \in Window(w) :
              i <= db'[j].items \/ (worker'[w].job = j /\ i \in Window(w)')
    PROVE  Reruns'
  <1>1. \A v \in Workers \ {w} : Window(v)' = Window(v) /\ Paced(v)'
    BY WindowSame, PacedSame
  <1>2. db[j] # Absent
    BY WorkerFacts
  <1>3. ASSUME NEW k \in JobIds \ late' PROVE
           /\ db'[k] # Absent /\ cache'[k] # Absent => db'[k].items <= cache'[k].items
           /\ Again(k)' \subseteq Again(k)
           /\ db'[k] # Absent => db[k] # Absent /\ Exposed(k)' \subseteq Exposed(k)
    <2>1. Again(k)' \subseteq Again(k)
      BY DEF Again
    <2>2. db[k] \in Job /\ db'[k] \in Job
      BY DEF IInv, Types
    <2>3. CASE k = j
      <3>1. \A i \in 1..Items : \A v \in Workers : worker[v].job = k /\ i \in Window(v) =>
               i <= db'[k].items \/ \E u \in Workers : worker'[u].job = k /\ i \in Window(u)'
        BY <1>1, <2>3
      <3>2. Exposed(k)' \subseteq Exposed(k)
        BY <2>2, <2>3, <3>1, ExposedKept
      <3> QED
        BY <1>2, <2>1, <2>3, <3>2
    <2>4. CASE k # j
      <3>1. db'[k] = db[k] /\ cache'[k] = cache[k] /\ db[k].items <= db'[k].items
        BY <2>2, <2>4, RecordFacts
      <3>2. \A i \in 1..Items : \A v \in Workers : worker[v].job = k /\ i \in Window(v) =>
               worker'[v].job = k /\ i \in Window(v)'
        BY <1>1, <2>4
      <3>3. Exposed(k)' \subseteq Exposed(k)
        BY <2>2, <3>1, <3>2, ExposedKept
      <3> QED
        BY <2>1, <3>1, <3>3 DEF Reruns
    <2> QED
      BY <2>3, <2>4
  <1>4. crashes' \in Nat /\ errors' \in Nat /\ crashes + errors <= crashes' + errors'
    BY LossesGrow
  <1> QED
    BY <1>1, <1>3, <1>4, RerunsKept

(* Nor does the worker that takes a job.                                    *)
LEMMA RerunsTake == ASSUME IInv, IInv', Reruns, NEW w \in Workers, Take(w) PROVE Reruns'
  <1>1. /\ UNCHANGED <<db, cache, request, late, runs, crashes, errors>>
        /\ worker[w].pc = "idle"
        /\ worker' = [worker EXCEPT ![w] = [Idle EXCEPT !.pc = "get", !.job = Head(queue)]]
    BY DEF Take, created
  <1>2. /\ worker'[w].since = 0 /\ worker'[w].pc = "get"
        /\ \A v \in Workers \ {w} : worker'[v] = worker[v]
    BY <1>1 DEF IInv, Types, Idle
  <1>3. \A v \in Workers \ {w} : Window(v)' = Window(v) /\ Paced(v)'
    BY <1>2, WindowSame, PacedSame
  <1>4. Paced(w)' /\ Window(w) = {}
    <2>1. worker[w].since = 0 /\ FlushBatch \in Nat \ {0}
      BY <1>1, JobsAssumption DEF Reruns, Paced
    <2> QED
      BY <1>2, <2>1, WindowSize DEF Paced
  <1>5. ASSUME NEW k \in JobIds PROVE
           Again(k)' \subseteq Again(k) /\ Exposed(k)' \subseteq Exposed(k)
    <2>1. Again(k)' \subseteq Again(k)
      BY <1>1 DEF Again
    <2>2. db[k] \in Job /\ db'[k] = db[k] /\ db[k].items <= db'[k].items
      BY <1>1, RecordFacts DEF IInv, Types
    <2>3. \A i \in 1..Items : \A v \in Workers : worker[v].job = k /\ i \in Window(v) =>
             worker'[v].job = k /\ i \in Window(v)'
      BY <1>2, <1>3, <1>4
    <2>4. Exposed(k)' \subseteq Exposed(k)
      BY <1>1, <2>2, <2>3, ExposedKept
    <2> QED
      BY <2>1, <2>4
  <1>6. /\ crashes' \in Nat /\ errors' \in Nat /\ crashes + errors <= crashes' + errors'
        /\ \A j \in JobIds \ late : db[j] # Absent /\ cache[j] # Absent => db[j].items <= cache[j].items
    BY <1>1 DEF Reruns
  <1> QED
    BY <1>1, <1>3, <1>4, <1>5, <1>6, RerunsKept

(* What the resumed worker runs again is what it had lost.                  *)
LEMMA RerunsGetLatest == ASSUME IInv, IInv', Reruns, NEW w \in Workers, GetLatest(w) PROVE Reruns'
  <1> DEFINE j == worker[w].job
  <1> DEFINE latest == IF cache[j] = Absent THEN db[j] ELSE cache[j]
  <1>1. /\ UNCHANGED <<db, request, late, runs, crashes, errors>>
        /\ worker[w].pc = "get" /\ cache' = [cache EXCEPT ![j] = latest]
    BY DEF GetLatest, created
  <1>2. j \in JobIds /\ db[j] \in Job /\ db[j] # Absent
    BY <1>1, WorkerFacts
  <1>3. cache'[j] = latest /\ \A k \in JobIds \ {j} : cache'[k] = cache[k]
    BY <1>1, <1>2 DEF IInv, Types
  <1>4. worker[w].since = 0 /\ FlushBatch \in Nat \ {0}
    BY <1>1, JobsAssumption DEF Reruns, Paced
  <1>5. /\ worker'[w].since = 0 /\ worker'[w].pc \in {"idle", "begin"}
        /\ \A v \in Workers \ {w} : worker'[v] = worker[v]
    <2>1. CASE IsDone(latest)
      <3>1. Return(w)
        BY <2>1 DEF GetLatest
      <3> QED
        BY <3>1 DEF Return, Idle, IInv, Types
    <2>2. CASE ~IsDone(latest)
      <3> DEFINE n == latest.items
      <3> DEFINE f == latest.failed
      <3>1. worker' = [worker EXCEPT ![w].pc = "begin", ![w].idx = n, ![w].failed = f]
        BY <2>2 DEF GetLatest
      <3>2. worker \in [Workers -> Goroutine]
        BY DEF IInv, Types
      <3> HIDE DEF n, f
      <3> QED
        BY <1>4, <3>1, <3>2 DEF Goroutine
    <2> QED
      BY <2>1, <2>2
  <1>6. Paced(w)' /\ Window(w) = {}
    BY <1>4, <1>5, WindowSize DEF Paced
  <1>7. j \notin late => db[j].items <= db'[j].items /\ db'[j].items <= cache'[j].items
    BY <1>1, <1>2, <1>3, RecordFacts DEF Reruns
  <1> HIDE DEF j
  <1>8. worker[w].pc # "idle" /\ j = worker[w].job /\ \A k \in JobIds \ {j} : db'[k] = db[k]
    BY <1>1 DEF j
  <1> QED
    BY <1>1, <1>2, <1>3, <1>5, <1>6, <1>7, <1>8, RerunsWorker

(* A record that is written has all the items that the database has.        *)
LEMMA RerunsUpdate ==
    ASSUME IInv, IInv', Reruns, NEW w \in Workers, worker[w].pc \in Working,
           NEW status \in Active \cup Terminal, UpdateStatus(worker[w].job, status),
           UNCHANGED <<request, late, runs, crashes>>, Paced(w)',
           \A v \in Workers \ {w} : worker'[v] = worker[v],
           worker[w].job \notin late => worker[w].since = 0
    PROVE  Reruns'
  <1> DEFINE j == worker[w].job
  <1>1. /\ j \in JobIds /\ db[j] \in Job /\ db[j] # Absent /\ cache[j] \in Job
        /\ worker[w].pc # "idle" /\ cache[j] # Absent
    BY WorkerFacts DEF Working, IInv, AtWork
  <1>2. /\ \A k \in JobIds \ {j} : db'[k] = db[k] /\ cache'[k] = cache[k]
        /\ db'[j] = db[j] \/ db'[j] = cache'[j]
        /\ cache'[j].items = cache[j].items
    BY <1>1, UpdateFacts
  <1>3. errors' \in {errors, errors + 1}
    BY DEF UpdateStatus, Persist
  <1>4. db[j].items \in Nat /\ cache[j].items \in Nat
    BY <1>1, RecordFacts
  <1>5. j \notin late => db[j].items <= db'[j].items /\ db'[j].items <= cache'[j].items
    BY <1>1, <1>2, <1>4 DEF Reruns
  <1>6. j \notin late => Window(w) = {}
    BY WindowSize
  <1> HIDE DEF j
  <1>7. j = worker[w].job
    BY DEF j
  <1> QED
    BY <1>1, <1>2, <1>3, <1>5, <1>6, <1>7, RerunsWorker

(* A status is written to the row with the items of the cache.              *)
LEMMA RerunsBegin == ASSUME IInv, IInv', Reruns, NEW w \in Workers, Begin(w) PROVE Reruns'
  <1>1. /\ UNCHANGED <<request, late, runs, crashes>> /\ worker[w].pc = "begin"
        /\ UpdateStatus(worker[w].job, "processing")
        /\ worker' = [worker EXCEPT ![w].pc = "item"]
    BY DEF Begin, created
  <1>2. worker[w].since = 0 /\ FlushBatch \in Nat \ {0}
    BY <1>1, JobsAssumption DEF Reruns, Paced
  <1>3. /\ worker'[w].since = 0 /\ \A v \in Workers \ {w} : worker'[v] = worker[v]
    BY <1>1, <1>2 DEF IInv, Types, Goroutine
  <1>4. Paced(w)'
    BY <1>2, <1>3 DEF Paced
  <1> QED
    BY <1>1, <1>2, <1>3, <1>4, RerunsUpdate DEF Working, Active

(* So is the last one.                                                      *)
LEMMA RerunsEnd ==
    ASSUME IInv, IInv', Reruns, NEW w \in Workers, Reject(w) \/ Finish(w) PROVE Reruns'
  <1>1. /\ UNCHANGED <<request, late, runs, crashes>> /\ worker[w].pc = "item" /\ Return(w)
        /\ \E status \in Terminal : UpdateStatus(worker[w].job, status)
        /\ worker[w].job \in Unregistered \/ worker[w].idx >= Items
    BY DEF Reject, Finish, created, Terminal
  <1>2. worker[w].idx \in 0..Items
    BY <1>1, WorkerFacts
  <1>3. worker[w].since = 0 /\ FlushBatch \in Nat \ {0}
    BY <1>1, <1>2, JobsAssumption, ConstantFacts DEF Reruns, Paced
  <1>4. worker'[w].since = 0 /\ \A v \in Workers \ {w} : worker'[v] = worker[v]
    BY <1>1 DEF Return, Idle, IInv, Types
  <1>5. Paced(w)'
    BY <1>3, <1>4 DEF Paced
  <1> QED
    BY <1>1, <1>3, <1>4, <1>5, RerunsUpdate DEF Working

(* An item that has run and is not counted runs again; another one is in    *)
(* the window.                                                              *)
LEMMA RerunsRunItem ==
    ASSUME IInv, IInv', Reruns, NEW w \in Workers, NEW j \in JobIds, j = worker[w].job, RunItem(w)
    PROVE  Reruns'
  <1> USE ConstantFacts
  <1> DEFINE i == worker[w].idx + 1
  <1> DEFINE s == worker[w].since + 1
  <1> DEFINE r == IF runs[j][i] < MaxRuns THEN runs[j][i] + 1 ELSE runs[j][i]
  <1> DEFINE a == worker[w].idx
  <1> DEFINE b == worker[w].since
  <1>1. /\ UNCHANGED <<db, request, late, crashes, errors>>
        /\ worker[w].pc = "item" /\ j \notin Unregistered /\ i <= Items
        /\ runs' = [runs EXCEPT ![j][i] = r]
        /\ worker' = [worker EXCEPT ![w].pc = "flush", ![w].idx = i, ![w].since = s]
        /\ \A k \in JobIds \ {j} : cache'[k] = cache[k]
    BY DEF RunItem, created, pool, IInv, Types
  <1>2. /\ j \in JobIds /\ cache[j] \in Job /\ db[j] \in Job /\ db[j] # Absent
        /\ a \in 0..Items /\ b \in Nat /\ worker \in [Workers -> Goroutine]
    BY <1>1, WorkerFacts DEF IInv, Types
  <1>3. /\ cache[j] # Absent /\ cache[j].items <= a
        /\ j \notin late => cache[j].items = a
    BY <1>1 DEF IInv, AtWork, Working
  <1>4. /\ i \in 1..Items /\ i = a + 1 /\ s = b + 1 /\ s \in Nat /\ runs[j][i] \in 0..MaxRuns
        /\ MaxRuns \in Nat \ {0}
    <2>1. i \in 1..Items /\ i = a + 1 /\ s = b + 1 /\ s \in Nat
      BY <1>1, <1>2
    <2> QED
      BY <1>2, <2>1, JobsAssumption DEF IInv, Types
  <1>5. /\ runs'[j][i] = r /\ \A k \in 1..Items \ {i} : runs'[j][k] = runs[j][k]
        /\ \A k \in JobIds \ {j} : runs'[k] = runs[k]
    BY <1>1, <1>2, <1>4 DEF IInv, Types
  <1>6. runs[j][i] = 0 => r = 1
    BY <1>4
  <1>7. cache'[j].items = cache[j].items \/ cache'[j].items = cache[j].items + 1
    <2>1. \E fails \in BOOLEAN :
             cache' = [cache EXCEPT ![j].items = IF @ < Items THEN @ + 1 ELSE @,
                                    ![j].failed = @ \/ fails]
      BY DEF RunItem
    <2> QED
      BY <1>2, <2>1 DEF IInv, Types, Job
  <1>8. \A v \in Workers \ {w} : worker'[v] = worker[v] /\ Window(v)' = Window(v) /\ Paced(v)'
    <2>1. \A v \in Workers \ {w} : worker'[v] = worker[v]
      BY <1>1, <1>2
    <2> QED
      BY <2>1, WindowSame, PacedSame
  <1> HIDE DEF r, s, i
  <1>9. worker'[w].pc = "flush" /\ worker'[w].idx = i /\ worker'[w].since = s /\ worker'[w].job = j
    BY <1>1, <1>2 DEF Goroutine
  <1>10. Paced(w)'
    <2>1. b < FlushBatch /\ FlushBatch \in Nat \ {0}
      BY <1>1, JobsAssumption DEF Reruns, Paced
    <2> QED
      BY <1>1, <1>2, <1>4, <1>9, <2>1 DEF Paced
  <1>11. \A k \in 1..Items : k \in Window(w) => k \in Window(w)' /\ k # i
    <2> HIDE DEF a, b
    <2>1. \A k \in Window(w) : k \in 1..Items /\ a - b < k /\ k <= a
      BY DEF Window, a, b
    <2>2. \A k \in 1..Items : k \in Window(w)' <=> i - s < k /\ k <= i
      BY <1>9 DEF Window
    <2> QED
      BY <1>2, <1>4, <2>1, <2>2
  <1>12. i \in Window(w)'
    BY <1>2, <1>4, <1>9 DEF Window
  <1>13. j \notin late => db[j].items <= cache'[j].items /\ db[j].items <= a
    <2>1. db[j].items \in Nat /\ cache[j].items \in Nat
      BY <1>2, RecordFacts
    <2> QED
      BY <1>2, <1>3, <1>7, <2>1 DEF Reruns
  <1>14. ASSUME j \notin late PROVE Exposed(j)' \subseteq Exposed(j)
    <2> SUFFICES ASSUME NEW k \in Exposed(j)' PROVE k \in Exposed(j)
      OBVIOUS
    <2>1. k \in 1..Items /\ db[j].items \in Nat
      BY <1>2, RecordFacts DEF Exposed
    <2>2. CASE k = i
      <3>1. runs[j][i] # 0
        <4> SUFFICES ASSUME runs[j][i] = 0 PROVE FALSE
          OBVIOUS
        <4>1. runs'[j][k] = 1
          BY <1>5, <1>6, <2>2
        <4>2. k \notin Window(w)'
          BY <1>9, <4>1 DEF Exposed
        <4> QED
          BY <1>12, <2>2, <4>2
      <3>2. i > db[j].items
        BY <1>2, <1>4, <1>13, <1>14, <2>1
      <3>3. \A v \in Workers : worker[v].job = j => i \notin Window(v)
        BY <1>4, <1>11 DEF IInv, Marked, OneWorkerPerJob
      <3> QED
        BY <1>4, <2>1, <2>2, <3>1, <3>2, <3>3 DEF Exposed
    <2>3. CASE k # i
      <3>1. runs'[j][k] = runs[j][k]
        BY <1>5, <2>1, <2>3
      <3>2. CASE runs[j][k] > 1
        BY <2>1, <3>2 DEF Exposed
      <3>3. CASE ~(runs[j][k] > 1)
        <4>1. /\ runs[j][k] = 1 /\ k > db[j].items
              /\ \A v \in Workers : worker'[v].job = j => k \notin Window(v)'
          BY <1>1, <3>1, <3>3 DEF Exposed
        <4>2. \A v \in Workers : worker[v].job = j => k \notin Window(v)
          BY <1>8, <1>9, <1>11, <2>1, <4>1
        <4> QED
          BY <2>1, <4>1, <4>2 DEF Exposed
      <3> QED
        BY <3>2, <3>3
    <2> QED
      BY <2>2, <2>3
  <1>15. ASSUME NEW k \in JobIds \ {j}
         PROVE  Again(k)' \subseteq Again(k) /\ Exposed(k)' \subseteq Exposed(k)
    <2>1. db[k] \in Job /\ db'[k] = db[k] /\ db[k].items <= db'[k].items
      BY <1>1, RecordFacts DEF IInv, Types
    <2>2. \A l \in 1..Items : \A v \in Workers : worker[v].job = k /\ l \in Window(v) =>
             worker'[v].job = k /\ l \in Window(v)'
      BY <1>8
    <2>3. Exposed(k)' \subseteq Exposed(k)
      BY <1>5, <2>1, <2>2, ExposedKept
    <2> QED
      BY <1>5, <2>3 DEF Again
  <1> HIDE DEF a, b
  <1>16. ASSUME NEW k \in JobIds \ late' PROVE
           /\ db'[k] # Absent /\ cache'[k] # Absent => db'[k].items <= cache'[k].items
           /\ db'[k] = Absent => Again(k)' \subseteq Again(k)
           /\ db'[k] # Absent => db[k] # Absent /\ Exposed(k)' \subseteq Exposed(k)
    <2>1. CASE k = j
      BY <1>1, <1>2, <1>13, <1>14, <2>1
    <2>2. CASE k # j
      <3>1. k \in JobIds \ {j} /\ db'[k] = db[k] /\ cache'[k] = cache[k]
        BY <1>1, <2>2
      <3> QED
        BY <1>1, <1>15, <3>1 DEF Reruns
    <2> QED
      BY <2>1, <2>2
  <1>17. /\ crashes' \in Nat /\ errors' \in Nat /\ crashes + errors <= crashes' + errors'
         /\ \A k \in JobIds : request'[k] = "new" => request[k] = "new" /\ runs'[k] = runs[k]
    <2>1. crashes \in Nat /\ errors \in Nat
      BY DEF Reruns
    <2>2. request[j] # "new"
      BY <1>1, <1>2, ConstantFacts DEF IInv, Marked, Stored
    <2> QED
      BY <1>1, <1>5, <2>1, <2>2
  <1> QED
    BY <1>1, <1>8, <1>10, <1>16, <1>17, RerunsKept

(* A worker that need not flush is within its batch.                        *)
LEMMA RerunsSkipFlush == ASSUME IInv, IInv', Reruns, NEW w \in Workers, SkipFlush(w) PROVE Reruns'
  <1>1. /\ UNCHANGED <<db, cache, request, late, runs, crashes, errors>>
        /\ worker[w].pc = "flush" /\ worker' = NextItem(w, worker[w].since) /\ ~MustFlush(w)
    BY DEF SkipFlush, created
  <1>2. PICK j \in JobIds : j = worker[w].job
    BY <1>1, WorkerFacts
  <1>3. /\ db[j] \in Job /\ db[j] # Absent /\ cache[j] # Absent /\ worker[w].idx \in 0..Items
        /\ worker[w].since \in Nat
    BY <1>1, <1>2, WorkerFacts DEF IInv, AtWork, Working
  <1>4. /\ worker'[w].pc = "item" /\ worker'[w].job = j /\ worker'[w].idx = worker[w].idx
        /\ \A v \in Workers \ {w} : worker'[v] = worker[v]
    BY <1>1, <1>2, <1>3, NextItemFacts
  <1>5. worker'[w].since = worker[w].since
    <2> DEFINE s == worker[w].since
    <2> DEFINE n == IF cache[j].items > worker[w].idx THEN cache[j].items ELSE worker[w].idx
    <2> DEFINE f == cache[j].failed
    <2>1. worker' = [worker EXCEPT ![w].pc = "item", ![w].since = s, ![w].idx = n, ![w].failed = f]
      BY <1>1, <1>2 DEF NextItem
    <2>2. worker \in [Workers -> Goroutine]
      BY DEF IInv, Types
    <2> HIDE DEF s, n, f
    <2>3. worker'[w].since = s
      BY <2>1, <2>2 DEF Goroutine
    <2> QED
      BY <2>3 DEF s
  <1>6. Paced(w)'
    <2>1. /\ worker[w].since < FlushBatch /\ worker[w].idx # Items /\ FlushBatch \in Nat
      BY <1>1, <1>3, JobsAssumption DEF MustFlush
    <2>2. worker[w].job \in Unregistered => worker[w].since = 0
      BY DEF Reruns, Paced
    <2> QED
      BY <1>2, <1>3, <1>4, <1>5, <2>1, <2>2 DEF Paced
  <1>7. Window(w)' = Window(w)
    BY <1>4, <1>5, WindowSame
  <1>8. /\ worker[w].pc # "idle" /\ db' = db /\ cache' = cache /\ db[j].items <= db'[j].items
        /\ j \notin late => db'[j].items <= cache'[j].items
    BY <1>1, <1>3, RecordFacts DEF Reruns
  <1> QED
    BY <1>1, <1>2, <1>4, <1>6, <1>7, <1>8, RerunsWorker

(* A lost write puts the window of one worker at stake.                     *)
LEMMA ExposedLost ==
    ASSUME NEW j \in JobIds, NEW w \in Workers, runs'[j] = runs[j], db'[j] = db[j],
           \A v \in Workers : worker[v].job = j /\ v # w =>
              Window(v) = {} \/ (worker'[v].job = j /\ Window(v)' = Window(v))
    PROVE  Exposed(j)' \subseteq Exposed(j) \cup Window(w)
  <1> SUFFICES ASSUME NEW i \in Exposed(j)', i \notin Exposed(j) PROVE i \in Window(w)
    OBVIOUS
  <1>1. i \in 1..Items /\ ~(runs[j][i] > 1) /\ runs[j][i] = 1 /\ i > db[j].items
        /\ \A v \in Workers : worker'[v].job = j => i \notin Window(v)'
    BY DEF Exposed
  <1>2. PICK v \in Workers : worker[v].job = j /\ i \in Window(v)
    BY <1>1 DEF Exposed
  <1> QED
    BY <1>1, <1>2

(* A flush empties the window, or the lost write is counted.                *)
LEMMA RerunsFlush == ASSUME IInv, IInv', Reruns, NEW w \in Workers, FlushResults(w) PROVE Reruns'
  <1>1. PICK outcome \in Outcomes :
           /\ UNCHANGED <<cache, request, late, runs, crashes>>
           /\ worker[w].pc = "flush" /\ Persist(worker[w].job, cache[worker[w].job], outcome)
           /\ IF outcome = "transient" THEN Return(w) ELSE worker' = NextItem(w, 0)
    BY DEF FlushResults, created
  <1>2. PICK j \in JobIds : j = worker[w].job
    BY <1>1, WorkerFacts
  <1>3. /\ db[j] \in Job /\ db[j] # Absent /\ cache[j] \in Job /\ cache[j] # Absent
        /\ worker[w].idx \in 0..Items /\ FlushBatch \in Nat \ {0}
        /\ j \notin late => cache[j].items = worker[w].idx
    BY <1>1, <1>2, WorkerFacts, JobsAssumption DEF IInv, AtWork, Working
  <1>4. /\ worker'[w].since = 0 /\ worker'[w].pc \in {"idle", "item"}
        /\ \A v \in Workers \ {w} : worker'[v] = worker[v]
    <2>1. CASE outcome = "transient"
      BY <1>1, <2>1 DEF Return, Idle, IInv, Types
    <2>2. CASE outcome # "transient"
      <3> DEFINE n == IF cache[j].items > worker[w].idx THEN cache[j].items ELSE worker[w].idx
      <3> DEFINE f == cache[j].failed
      <3>1. worker' = [worker EXCEPT ![w].pc = "item", ![w].since = 0, ![w].idx = n,
                                     ![w].failed = f]
        BY <1>1, <1>2, <2>2 DEF NextItem
      <3>2. worker \in [Workers -> Goroutine]
        BY DEF IInv, Types
      <3> HIDE DEF n, f
      <3> QED
        BY <3>1, <3>2 DEF Goroutine
    <2> QED
      BY <2>1, <2>2
  <1>5. Paced(w)'
    BY <1>3, <1>4 DEF Paced
  <1>6. db[j].items \in Nat /\ cache[j].items \in Nat
    BY <1>3, RecordFacts
  <1>7. CASE outcome = "ok"
    <2>1. db' = [db EXCEPT ![j] = cache[j]] /\ errors' = errors
      BY <1>1, <1>2, <1>7 DEF Persist
    <2>2. db'[j] = cache[j] /\ \A k \in JobIds \ {j} : db'[k] = db[k]
      BY <2>1 DEF IInv, Types
    <2>3. j \notin late => db[j].items <= db'[j].items /\ db'[j].items <= cache'[j].items
      BY <1>1, <1>3, <1>6, <2>2 DEF Reruns
    <2>4. j \notin late => \A i \in Window(w) : i <= db'[j].items
      BY <1>3, <2>2 DEF Window
    <2>5. worker[w].pc # "idle"
      BY <1>1
    <2> QED
      BY <1>1, <1>2, <1>4, <1>5, <2>1, <2>2, <2>3, <2>4, <2>5, RerunsWorker
  <1>8. CASE outcome # "ok"
    <2>1. db' = db /\ errors' = errors + 1
      BY <1>1, <1>8 DEF Persist
    <2>2. \A v \in Workers \ {w} : Window(v)' = Window(v) /\ Paced(v)'
      BY <1>4, WindowSame, PacedSame
    <2>3. ASSUME NEW k \in JobIds \ late'
          PROVE  Exposed(k)' \subseteq Exposed(k) \cup Window(w) /\ Again(k)' \subseteq Again(k)
      <3>1. runs'[k] = runs[k] /\ db'[k] = db[k]
        BY <1>1, <2>1
      <3>2. \A v \in Workers : worker[v].job = k /\ v # w =>
               worker'[v].job = k /\ Window(v)' = Window(v)
        BY <1>4, <2>2
      <3> QED
        BY <3>1, <3>2, ExposedLost DEF Again
    <2>4. /\ crashes' \in Nat /\ errors' \in Nat /\ crashes' + errors' = crashes + errors + 1
          /\ crashes + errors <= crashes' + errors'
      <3>1. crashes \in Nat /\ errors \in Nat /\ crashes' = crashes
        BY <1>1 DEF Reruns
      <3> QED
        BY <2>1, <3>1
    <2>5. \A k \in JobIds \ late' : db'[k] # Absent /\ cache'[k] # Absent =>
             db'[k].items <= cache'[k].items
      BY <1>1, <2>1 DEF Reruns
    <2> QED
      BY <1>1, <1>5, <2>1, <2>2, <2>3, <2>4, <2>5, RerunsKept
  <1> QED
    BY <1>7, <1>8

(* A restart loses the window of the one worker that has the job.           *)
LEMMA RerunsCrash == ASSUME IInv, IInv', Reruns, Crash PROVE Reruns'
  <1> USE ConstantFacts
  <1>1. /\ UNCHANGED <<db, late, runs, errors>> /\ crashes' = crashes + 1
        /\ cache' = [j \in JobIds |-> Absent]
        /\ request' = [j \in JobIds |-> IF request[j] = "new" THEN "new" ELSE "over"]
        /\ worker' = [w \in Workers |-> Idle]
    BY DEF Crash
  <1>2. \A w \in Workers : worker'[w].since = 0 /\ worker'[w].pc = "idle"
    BY <1>1 DEF Idle
  <1>3. \A w \in Workers : Paced(w)'
    BY <1>2, JobsAssumption DEF Paced
  <1>4. ASSUME NEW j \in JobIds PROVE
           \/ Exposed(j)' \subseteq Exposed(j)
           \/ \E w \in Workers : Exposed(j)' \subseteq Exposed(j) \cup Window(w)
    <2>1. runs'[j] = runs[j] /\ db'[j] = db[j]
      BY <1>1
    <2>2. ASSUME NEW w \in Workers, worker[w].job = j
          PROVE  Exposed(j)' \subseteq Exposed(j) \cup Window(w)
      <3>1. \A v \in Workers : worker[v].job = j => v = w
        BY <2>2 DEF IInv, Marked, OneWorkerPerJob
      <3> QED
        BY <2>1, <3>1, ExposedLost
    <2>3. CASE \A w \in Workers : worker[w].job # j
      <3>1. db[j] \in Job /\ db'[j] \in Job /\ db[j].items <= db'[j].items
        BY <2>1, RecordFacts DEF IInv, Types
      <3>2. Exposed(j)' \subseteq Exposed(j)
        BY <2>1, <2>3, <3>1, ExposedKept
      <3> QED
        BY <3>2
    <2> QED
      BY <2>2, <2>3
  <1>5. /\ crashes' \in Nat /\ errors' \in Nat /\ crashes' + errors' = crashes + errors + 1
        /\ crashes + errors <= crashes' + errors'
    <2>1. crashes \in Nat /\ errors \in Nat /\ errors' = errors
      BY <1>1 DEF Reruns
    <2> QED
      BY <1>1, <2>1
  <1>6. \A j \in JobIds : request'[j] = "new" => request[j] = "new" /\ runs'[j] = runs[j]
    BY <1>1
  <1>7. \A j \in JobIds : cache'[j] = Absent /\ Again(j)' \subseteq Again(j)
    BY <1>1 DEF Again
  <1> QED
    BY <1>1, <1>3, <1>4, <1>5, <1>6, <1>7, RerunsKept

(* Every step keeps what runs again within the losses.                      *)
LEMMA RerunsNext == ASSUME IInv, Reruns, [Next]_vars PROVE Reruns'
  <1>0. IInv'
    BY InvNext
  <1>1. CASE \E j \in JobIds : Request(j) \/ GetReads(j) \/ Cleanup(j)
    BY <1>0, <1>1, RerunsSubmit, RerunsRequests DEF Request
  <1>2. CASE GetCaches \/ Sweep
    BY <1>0, <1>2, RerunsRequests
  <1>3. CASE Crash
    BY <1>0, <1>3, RerunsCrash
  <1>4. ASSUME NEW w \in Workers, Take(w) \/ Process(w) PROVE Reruns'
    <2>1. ASSUME RunItem(w) PROVE Reruns'
      <3>1. worker[w].job \in JobIds
        BY <2>1, WorkerFacts DEF RunItem
      <3> QED
        BY <1>0, <2>1, <3>1, RerunsRunItem
    <2> QED
      BY <1>0, <1>4, <2>1, RerunsTake, RerunsGetLatest, RerunsBegin, RerunsEnd, RerunsSkipFlush,
         RerunsFlush DEF Process
  <1>5. CASE UNCHANGED vars
    BY <1>5 DEF vars, created, Reruns, Again, Exposed, Window, Losses, Paced
  <1> QED
    BY <1>1, <1>2, <1>3, <1>4, <1>5 DEF Next

(* The bound that the property states.                                      *)
LEMMA RerunsSafe == ASSUME IInv, Reruns PROVE RerunWindow
  BY DEF Reruns, Again, Losses, RerunWindow

-----------------------------------------------------------------------------
(* Progress                                                                 *)

(* An item more is counted at most. *)
LEMMA ItemCounted ==
    ASSUME IInv, NEW w \in Workers, NEW j \in JobIds, j = worker[w].job, RunItem(w)
    PROVE  cache'[j].items = cache[j].items \/ cache'[j].items = cache[j].items + 1
  BY DEF RunItem, IInv, Types, Job

(* No step takes items from a record of the cache that stays there.         *)
LEMMA NotBack ==
    ASSUME IInv, IInv', [Next]_vars, NEW j \in JobIds,
           cache[j] # Absent, cache'[j] # Absent, j \notin late'
    PROVE  ~(cache'[j].items < cache[j].items)
  <1>1. cache[j] \in Job /\ cache[j].items \in Nat
    BY RecordFacts DEF IInv, Types
  <1>2. CASE cache'[j] = cache[j]
    BY <1>1, <1>2
  <1>3. ASSUME NEW k \in JobIds, NEW row \in Job, Overwrite(k, row) PROVE cache'[j] = cache[j]
    BY <1>3, OverwriteFacts
  <1>4. ASSUME NEW k \in JobIds, Request(k) \/ GetReads(k) \/ Cleanup(k) PROVE cache'[j] = cache[j]
    BY <1>3, <1>4, ConstantFacts
    DEF Request, Submit, CacheNewJob, Dispatch, GetReads, Cleanup, IInv, Types
  <1>5. CASE GetCaches
    <2>1. get.job \in JobIds /\ get.row \in Job
      BY <1>5 DEF GetCaches, IInv, Types
    <2> QED
      BY <1>2, <1>3, <1>5, <2>1 DEF GetCaches
  <1>6. CASE Sweep \/ Crash
    <2>1. cache'[j] = cache[j]
      BY <1>6 DEF Sweep, SweepQuery, SweepFill, Fill, SweepEnqueue, Crash
    <2> QED
      BY <1>2, <2>1
  <1>7. ASSUME NEW w \in Workers, Take(w) \/ Process(w) PROVE ~(cache'[j].items < cache[j].items)
    <2>1. CASE Take(w) \/ SkipFlush(w) \/ FlushResults(w) \/ GetLatest(w)
      <3>1. cache'[j] = cache[j]
        BY <2>1 DEF Take, SkipFlush, FlushResults, GetLatest, IInv, Types
      <3> QED
        BY <1>2, <3>1
    <2>2. CASE Begin(w) \/ Reject(w) \/ Finish(w)
      <3>1. PICK status \in Active \cup Terminal : UpdateStatus(worker[w].job, status)
        BY <2>2 DEF Begin, Reject, Finish, Active, Terminal
      <3>2. worker[w].job \in JobIds
        BY <2>2, WorkerFacts DEF Begin, Reject, Finish
      <3>3. cache'[j].items = cache[j].items
        BY <3>1, <3>2, UpdateFacts
      <3> QED
        BY <1>1, <3>3
    <2>3. CASE RunItem(w)
      <3>1. worker[w].job \in JobIds
        BY <2>3, WorkerFacts DEF RunItem
      <3>2. cache'[j].items = cache[j].items \/ cache'[j].items = cache[j].items + 1
        <4>1. CASE j = worker[w].job
          BY <2>3, <4>1, ItemCounted
        <4>2. CASE j # worker[w].job
          BY <2>3, <4>2 DEF RunItem, IInv, Types
        <4> QED
          BY <4>1, <4>2
      <3> QED
        BY <1>1, <3>2
    <2> QED
      BY <1>7, <2>1, <2>2, <2>3 DEF Process
  <1>8. CASE UNCHANGED vars
    BY <1>2, <1>8 DEF vars
  <1> QED
    BY <1>2, <1>4, <1>5, <1>6, <1>7, <1>8 DEF Next

-----------------------------------------------------------------------------
(* The theorems                                                             *)

(* Every behaviour keeps the invariant.                                     *)
LEMMA SpecInv == Spec => []IInv
<1>1. Init => IInv
  BY InvInit
<1>2. IInv /\ [Next]_vars => IInv'
  BY InvNext
<1> QED
  BY <1>1, <1>2, PTL DEF Spec

(* The variables have their types.                                          *)
THEOREM TypesTheorem == Spec => []TypeOK
<1>1. IInv => TypeOK
  BY InvSafe
<1> QED
  BY <1>1, SpecInv, PTL

(* The report of a job that is reported as ended has a result for each of   *)
(* its items, unless a late write lost some.                                *)
THEOREM FinishedJobsAreCompleteTheorem == Spec => []FinishedJobsAreComplete
<1>1. IInv => FinishedJobsAreComplete
  BY InvSafe
<1> QED
  BY <1>1, SpecInv, PTL

(* In memory the progress of a job goes back by a late write alone.         *)
THEOREM ProgressIsKeptTheorem == Spec => ProgressIsKept
<1> DEFINE Kept == \A j \in JobIds :
        (cache[j] # Absent /\ cache'[j] # Absent /\ cache'[j].items < cache[j].items)
            => j \in late'
<1>1. IInv /\ [Next]_vars => [Kept]_cache
  BY InvNext, NotBack
<1> HIDE DEF Kept
<1>2. Spec => [][Kept]_cache
  BY <1>1, SpecInv, PTL DEF Spec
<1> QED
  BY <1>2 DEF Kept, ProgressIsKept
=============================================================================
