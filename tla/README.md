# A TLA+ verification of the Spuri backend

Spuri (`rastreio-backend`) is a Go backend for school records: academies,
students, classes, marks, monthly fees, payments and the requests that change
any of them. Every fact is an event in an append-only, hash-chained table
(`spuri_ledger`, PostgreSQL); read models are projections of it. These modules
model the parts of the backend where the order of events, a failure or a second
actor decides whether the data stay right.

* [The system](#1-the-system)
* [Modules and the code they model](#2-modules-and-the-code-they-model)
* [Runs](#3-runs)
* [Fairness](#4-fairness)
* [Where code and documents disagree](#5-where-code-and-documents-disagree)
* [Proofs](#6-proofs)
* [Not modelled](#7-not-modelled)
* [Plan](#8-plan)

All paths are relative to the repository root; `internal/` is the Go code.

## 1. The system

One process serves HTTP (`cmd/server/main.go`), runs a projection goroutine, a pool
of job workers and a job sweep. All state that survives a restart is in
PostgreSQL or in the object storage.

| Component | State | Operations | Talks to | What makes it correct |
|---|---|---|---|---|
| **Event ledger and repository** (`internal/db/repository.go`, `event_store.go`, migrations 001, 091) | `spuri_ledger`: id (sequence), aggregate id, version, hash, previous hash; the open transactions | `Load`, `Save`, `SaveWithAudit` (10 attempts, SERIALIZABLE), `AppendTx`, `verify_hash_chain` | every handler; wakes the projection manager after a save | versions of a stream have no gap and no duplicate, the chain verifies, a batch is appended whole and once, saves return |
| **Projection manager** (`internal/projections/manager.go`) | `projection_checkpoints`; the read models; a wake channel; a rebuild lock | poll cycle, `Handle`/`HandleTx`, retries, checkpoint, `Wake`, `Rebuild`, `RebuildAll` | reads the ledger by id; rebuilds run beside it | no committed event is skipped, counters count once, everything committed is projected, a rebuild has all it read |
| **Job engine** (`internal/jobs`) | `async_jobs` rows, a cache of jobs, a bounded queue, the in-flight set, the workers | `Enqueue`, `Get`, `ListActive` (sweep), `process`, flush of results, `Cleanup` | handlers enqueue; job handlers write to the ledger | one worker per job, progress is kept, re-runs after a crash are bounded, each job ends with a result for each item |
| **Change requests** (`solicitacao_edicao_dado_estudante`, `solicitacao_alteracao_nif_academia`) **and the unique operation guard** (`internal/db/unique_operation_guard.go`) | guard rows per key; the request's stream; its read model; a document in storage; the datum's own stream | POST (reserve, check, upload, save, consume), approve/reject (apply, decide, release the key, delete the document) | ledger, projections, storage | one pending request per datum, decided once, approved means applied, the key is freed |
| **Charges and providers** (`internal/finance/servico.go`, `pagamento_externo.go`) | the stream and row of each charge; received webhooks; the months it covers | create, consult, cancel, external payment, webhook, confirmation of the months | provider over HTTP; months, enrolments, services | what is recorded paid was paid, a decision a handler has seen stands, a payment is confirmed once its handlers and the manager are done |
| **Provider credentials** (`internal/finance/credenciais.go`, `provedor_config.go`) | the stream and row, snapshots, the vault of secrets, the active provider | configure, remove, rotate, purge | charges choose them; webhooks authenticate with them | a charge that waits can be asked about; nothing stays that no charge needs |
| **Monthly fees** (`internal/finance/mensalidade*.go`, `pagamentos_unificado.go`) | versions of the price, the first month charged, paid and annulled months | configure, remove, set the first month, pay, annul, reinstate, list | charges, students | each month due is listed once, as due or in what waits for it; the price of a past month stands |
| **Enrolment requests** (`solicitacao_matricula*`, `finance/matricula.go`) | the request's stream and row, the guard of the identity card, its charges, the students | create, approve, pay, enrol, reject, cancel, reprice, register directly | guard, charges, students | one student per card, but for a card freed too early |
| **Extra services** (`servico_extra*`, `solicitacao_servico_extra*`) | the service, the requests of students, the guard of the pair, charges, obligations | create, update, delete the service; request, decide, pay, cancel; annul, reinstate | guard, charges | one waiting request per student and service, but for a guard freed too early; updates fit the table |
| **Final assessment and marks** (`avaliacao_final_handler.go`, `notas_handlers.go`, `estudante_{notas,avaliacao}.go`) | marks and assessments in the student's stream; three read models | record, correct, assess | students, rules | a student goes one level up in a year at most |
| **Assessment rules** (`avaliacao_final_regras.go`) | the rows of rules | create, edit, delete; parse, complete, calculate a formula | the assessment reads them | the rules found are a chain with one root; the mark is what the text means |
| **Registers**: students, academies, administrators, courses, subjects, classes, categories, extra documents, lesson summaries, limits of absences, senders, messages (`internal/domain/aggregates`, `internal/handlers`, `internal/projections`) | one stream and one row each | the life cycle of each, contacts, passwords, e-mail | every other component reads their rows | the row ends up what the aggregate is, whatever overlapped, but for the students an assessment moves |
| **Authentication, rate limit; storage and its migration; the calls to message providers; SSE; migrations; HTTP wiring, health, metrics** | tokens, buckets, objects, buffers, gauges | - | - | not modelled (section 7) |

What is hard about this system, and what the modules are aimed at:

* *Ids are not commit order.* `spuri_ledger.id` is drawn at INSERT, a row
  appears at COMMIT, and the projections follow ids.
* *Everything reads something that lags.* A handler checks a read model that
  the manager has not yet updated, loads an aggregate, does I/O, then saves;
  `SaveWithAudit` appends to whatever the stream has become by then.
* *A save that fails may have worked.* The reply to a COMMIT can be lost.
* *No transaction spans two aggregates, the guard table, the storage, the vault,
  the provider and the ledger.* Handlers compensate (release a guard, delete a
  document, cancel a charge) and a crash or a failed compensation leaves a part
  of the work.
* *Two copies of the truth*: the cache of the job engine runs ahead of the
  database; each register is kept by two programs, the aggregate's `Apply` and
  the projection's `Handle`.
* *Retries and rebuilds* meet handlers that count.
* *Money is decided elsewhere.* Whether a charge is paid is known to the
  provider; handlers ask, and record what they computed before they asked.

Each hazard is listed at its line in `PROJECT.json`, with the properties aimed
at it.

## 2. Modules and the code they model

A definition that models code carries the name of the function it stands for
where there is one, in the language of the code (`solicitacao` is a request,
`mensalidade` a monthly fee, `turma` a class); `PROJECT.json`, `map`, gives its
lines. A definition whose name begins with `Wrong` is not part of the model: it
is a plausible fault of the definition next to it, and each property was seen to
fail with one of them in place.

| Module | Models |
|---|---|
| `Ledger` | the event store and repository: writers with SERIALIZABLE transactions |
| `EventLog` | abstract: a stream is a sequence of whole batches, each there once |
| `IdFeed` | abstract: ids given out in order, visible at commit |
| `Projections` | the manager, the rebuild and the writers, over `IdFeed` |
| `Jobs` | requests, cache, queue, sweep, pool and cleanup |
| `Solicitacoes` | one datum with its change requests, guard, decisions, read model |
| `Cobranca` | the charges of one monthly fee, their provider, webhooks and rows |
| `Credenciais` | the credentials of one provider, snapshots and vault |
| `Mensalidade` | what a student owes of a school year, and at what price |
| `Matricula` | enrolment requests with one card, their guard, fee and students |
| `ServicoExtra` | one extra service and one student's requests for it |
| `AvaliacaoFinal` | marks of one school student and the assessments they trigger |
| `RegrasAvaliacao` | the rules of one academy of higher education |
| `FormulaAvaliacao` | the formula of a rule, from text to mark |
| `Cadastros` | one register: aggregate, row, overlapping handlers, projection |
| `Turma`, `Curso`, `Materia`, `Admin`, `Academia`, `Estudante`, `CategoriaServico`, `DocumentoExtra`, `Sumario`, `FaltasConfiguracao`, `Comunicacao` | the commands, handlers, `Apply` and `Handle` of each kind of register |
| `Conta` | what the accounts of students, academies and administrators share |
| `Dominio` | nine of the components' modules side by side, one of them per behaviour |
| `MC...` | instances, symmetry sets and refinement mappings for TLC |
| `LedgerProofs`, `ProjectionsProofs`, `JobsProofs`, `CobrancaProofs`, `CredenciaisProofs`, `CadastrosProofs` | the inductive invariant of each of these modules and its proof |
| `PartesProofs` | the same for `Mensalidade`, `Matricula`, `Solicitacoes`, `ServicoExtra`, `AvaliacaoFinal` and `RegrasAvaliacao`, a section each |
| `DominioProofs` | the theorems about the behaviours of `Dominio`, from the invariants of its nine parts |

How they compose. `Ledger` implements `EventLog` (what the handlers build on:
each module of a component appends to a log as one step) and `IdFeed` (what a
reader sees). `Projections` EXTENDS `IdFeed`, so what it assumes of the ledger
is what `Ledger` was shown to give it. The modules of the components use two
promises: that the ledger appends a batch whole, to whatever the stream has
become, and that a read model is a prefix of it. `Cadastros` INSTANCEs the modules
of its kinds, and `Admin`, `Academia` and `Estudante` EXTEND `Conta`. `Dominio`
puts nine modules that share no state side by side, with the lemmas about each: six are
INSTANCEd by `PartesProofs`, which it EXTENDS, and three come as instances of their own
proof modules; `MCDominio` adds `FormulaAvaliacao`, whose operators are recursive and which
no proof may reach, and the values of the constants.

### Ledger

A writer is one request goroutine. `Load`/`Construct` remember the length of
the stream the decision is based on (`seen`), `RaiseEvents` chooses the size of
the batch, `Begin` opens a transaction with a snapshot, each `Insert` is one
`AppendTx` with the trigger's hash chaining, then `Commit`. The unique index on
(aggregate, version) appears as two guards: a *committed* row with the key makes
the insert fail (`VersionConflict`, 23505), a row of an *open* transaction makes
it wait. `SerializationFailure` (40001) may happen to the writers in `Spurious`
whenever anything was committed since their snapshot, also on another
aggregate: PostgreSQL's predicate locks are coarse. Where two transactions
would only fail at COMMIT, the version conflict at the insert makes them fail
before. `ConnectionLost`, `CommitReplyLost` and `Crash` are the failures.
A row's event id is a fresh UUID; its fresh sequence number stands for it in
the hash. `snap` and `own` are what PostgreSQL keeps, not variables of the Go
code; `cmd` in a row is history.

### Projections

`mgr` is the manager goroutine: a cycle walks all projections in any order (a
Go map), reads the checkpoint when a projection is picked, fetches at most
`BatchSize` events above it, and handles them one at a time. What was fetched is a
set of ids, of which the least is next: the query is `ORDER BY id`. A plain
projection has two steps (`Handle`, `CommitCheckpoint`); a transactional one
has a single `HandleTx`. The attempts of one event (three, with pauses) are one
step: it works or it fails. After a cycle the goroutine waits for a short or a
long timer or for the wake channel. `rb` is the rebuild goroutine in the order
of the code: mark the start (checkpoint 0), verify, clear, query, replay each
row, read `MAX(id)`, complete. `applied` counts how often an event was applied
since the last clear, up to two. `silent`, `mgr.unread` and `rb.asked` are
history: no line of the code keeps them.

### Jobs

Two stores of a job: `db` and `cache`. A request inserts the row, writes the
cache, and offers the job to the queue, in three steps. The sweep queries, fills
the cache with what it does not know, and enqueues row by row. A worker gets the
latest record, resumes after the items it counts, runs an item, and flushes the
record when the batch is full, at the last item, or when the interval has
passed (any time). A write of the database works, fails with a transient error
(the job is paused and the sweep finds it) or with another one (only logged).
Two writes to the cache do not look at what is there: `Store.Enqueue` after its
INSERT and `loadFromDB` after its SELECT. Both are modelled, and `late` records
the jobs they set back. `Cleanup` happens 24 hours after the end of a job, so
no goroutine is still in the middle of something with that job (`Forgotten`).

### Solicitacoes

The two handler files have the same control and are one module. One datum is
one key of the guard. `creator` is the handler of each POST, `decider` the
handlers of decisions, each with one step per call that changes or reads shared
state; every call may fail, and a save may fail after it worked. `failed` is
the set of kinds of failure that have happened: a property that the code gives
only while a kind of failure does not happen says so. A reservation expires
after 30 minutes; the handler is over by then, and the manager's longest timer
(20 minutes) has shown it the read model it acted on (`Expirable`). The read
model is a prefix of the log; its unique index on pending rows blocks it at an
event that would break it. `Aplicar` is the whole of `aplicarEdicaoAprovada`: its
reads, the promotion of an identity card's document to the student's own folder,
and the save in the student's stream; it works or the handler answers.

### Cobranca

A handler is one request: it begins (`Request`), and continues in steps, one for
each read of a row, call to the provider, save and projection (`Continue`). What
it has read stays in `handler[h].seen`; what it records is computed from that
(`EventOver`), as `record` does. A financial event is applied twice: by the handler
that recorded it (`ApplyLatestForAggregate`, the latest of the stream) and by the
manager, which walks all events in order and may take a row back (`Project`).
The provider is external: it settles a charge at any time, and keeps to that.
A charge of the module is one of months; the charges of enrolments and services
go through the same handlers with another confirmation, and are a pair of counts in
`Matricula` and `ServicoExtra`.

### Credenciais

The vault of secrets is not in the ledger: `saveSecrets` and `Wipe` are steps of
their own after `Record`, and a crash may come between. `Handle` of a removal is three
statements without a transaction (`CutShort`). A charge keeps the id it was made
with; `credencialDaCobranca` finds it in the row or in a snapshot. `raced` and
`synced` are history, for the conditions of `PendingChargeIsReachable` and
`SnapshotIsNeeded`. A purge that meets a snapshot whose event cannot go in stops there, and
the snapshots after it stay (`purgarArquivadasSemPendentes`).

### Mensalidade

`configs` is the stream of the scope's prices; `resolveConfiguracao` and
`resolveConfiguracaoEfetiva` choose the version of a month as the code does, with
removals in between. Months are positions in the school year. The list of
payments is the code's: pending months computed, charges read, the two joined and cut
into pages. `hoje` moves only over the points in `Instantes`, so that configuring before,
in and after a month are different. A request about payments or obligations has two
steps: what it checks (`IniciarPagamentoMensalidades`, `RegistrarPagamentoExternoMensalidades`,
`AnularObrigacoesMensalidade`, `ReativarObrigacoesMensalidade`), and what it records after
it has talked to the provider (`CreateCharge`, `recordMensalidade`), which looks at nothing
again and may never come (`Desiste`). `pagador` is what a request has checked. A charge
takes any status at any time after (`EstadoDaCobranca`): an answer of the provider, a
cancellation or a late webhook, whose own steps are in `Cobranca`; the payment of its
months is another event (`confirmMensalidadeCharge`). `repetidas` is history: the months for
which a second charge was asked while another request was making one, or put back to
waiting beside another.

### Matricula, ServicoExtra

A handler is a record of its step, its operation and its request. Streams are
sequences of event names and the status is a fold over them (`Estado`), once for the
aggregate and once for the prefix the read model has. The guard is one variable
(free, consumed, or who has it); a handler that ends before it gives the guard back
leaves it orphaned until it expires. A save may take effect and its answer be lost, and a
`Consume` may fail, before or after its effect: the handler returns, and its deferred
`Release` frees the card or the pair of a record that exists, or fails as well (`Devolve`).
`descobertas` and `expostas` are history: how often that happened while the record was not in
sight of whoever looks. A second student with the card, or a second active request, that
gets into the ledger so is refused by the unique index of its table, and stays out of the
read model (`Recusado`, `ProjetaInscricao`). In `ServicoExtra` an update is a record of the
columns it changes, folded into a row, because the order in which the projection
writes them matters.

### AvaliacaoFinal, RegrasAvaliacao, FormulaAvaliacao

In `AvaliacaoFinal` one stream (`percurso`) has marks and assessments; three read
models have prefixes of it. Recording a mark loads the aggregate, evaluates with
the read models (`tentarAvaliacoesFinaisAutomaticas`), and saves the mark, the
assessment and the change of level in one batch. `RegrasAvaliacao` has the rows of the
rules and the requests that query and then write them; `Fecho` is the code's loop that
adds the dependents of what it has until nothing changes, run as many times as there
are types (that it changes nothing from then on is proved). `FormulaAvaliacao` is
sequential: the recursive descent of the parser, `String` with every bracket, and the
evaluation are written as in the code, over tokens, and compared with a reference
meaning (`Significado`) that never builds a tree. Numbers are fractions.

### Cadastros and its kinds

The kinds have one shape. A *command* is the set of events the aggregate may raise
(none when it refuses), a *handler* is a command behind the checks on the row, and its
value is a set of batches, `Apply` folds an event into the aggregate and `Handle`
into the row. `Cadastros` gives them their behaviour: handlers read and decide
(`Pedir`), append later to whatever the stream has become (`Gravar`) or give up
(`Desistir`), and the projection handles events in order, some of them twice. The
row and the aggregate have the same fields, so that `RowsAgree` can compare them;
fields only one of them has are left out. The row of a class has a second source: an
assessment that passes a student (`AvaliacaoFinalEscolar`, of the student's stream) takes
the student out of the classes that listed the student and puts the student into a class of
the next level that the projection chooses, with the history of the class. `Turma` has it as
an event the aggregate never sees, and `movidos` is history: whom one was decided for.

## 3. Runs

| Run | Bounds | Shows |
|---|---|---|
| `LedgerSafety` | 2 writers, 1 aggregate, 2 commands each, batches of 1 or 2, 2 attempts | type invariant, `LedgerVerifies`, the inductive invariant `ChainInvariant`, `StreamsGrowInIdOrder`, and that `Ledger` implements `EventLog` |
| `LedgerContention` | 3 writers, 2 aggregates, 1 command each of 1 event, 3 attempts, spurious aborts for one writer | `EveryConflictHasAWinner`, `SaveReturns`, and that `Ledger` implements `IdFeed` |
| `LedgerRetry` | 2 writers, 1 aggregate | violated: a retry does not rebuild the aggregate |
| `ProjectionsLive` | a plain and a transactional projection, 2 events, batch 2, one restart, ids commit in order | `NoEventSkipped`, `CountedOnce`, `LongSleepMeansDrained`, `EventuallyProjected` |
| `ProjectionsRebuild` | one plain projection, 2 events in any commit order, one rebuild, one restart | `CompleteRebuildHasAll`: checkpoints are committed ids, and a completed rebuild applied all it read |
| `ProjectionsOutOfOrder` | as the first, commits in any order, no restart | violated: an event is skipped |
| `JobsProgress` | 2 jobs of 2 items, of a type with a handler and without, flush every 2, 1 worker, queue and sweep of one place, one restart or failed write | `FinishedJobsAreComplete`, `ProgressIsKept`, `EveryJobEnds` |
| `SolicitacoesRejected` | 1 request, one decision at a time, no failure | violated: a rejected request changed the datum |
| `Cobranca` | 2 charges, 2 requests, one after another or overlapping, one kind of failure at any number of places | `PaidMeansPaid`, `SeenDecisionsStand`, `PaidIsConfirmed` |
| `Dominio` | ten instances, below | the safety of the components |
| `RegrasRaizes` | 2 requests, 2 types of rule | violated: two active roots |
| `ServicoExtraUpdate` | 1 service, updates only | violated: an accepted update does not fit the table |

`Dominio` is one run of ten modules that share no state: a behaviour chooses one
of them at the beginning and stays with it (`MCDominio`). Requests, handlers,
workers and staff are the same two values in every part, and interchangeable
(`Symmetry`).

| Part | Bounds | Properties |
|---|---|---|
| `Credenciais` | 2 ids of credentials, 2 charges, 2 overlapping requests, 4 in all, one kind of fault | `PendingChargeIsReachable`, `SnapshotIsNeeded` |
| `Mensalidade` | a year from September, one point of time in the middle of it besides its beginning, 2 overlapping requests, 3 configurations, charges and requests in progress | `NothingDueIsHidden`, `PastPricesStand` |
| `Matricula` | 2 requests with one card and a direct registration, 2 overlapping handlers, 3 in all, 1 charge a request | `OneStudentPerBI` |
| `ServicoExtra` | 2 requests of one student, 2 overlapping handlers, 4 in all, 2 changes of the service | `OnePendingInscription` |
| `AvaliacaoFinal` | 2 subjects of which one may stay pending, 3 levels, 2 years, 2 overlapping teachers, 3 marks | `OneLevelPerYear` |
| `Cadastros` | twelve kinds, 2 batches decided or events not yet projected at a time, no bound on how many in all | `RowsAgree` |
| `Jobs` | 1 job of 3 items, flush every 2, 2 workers, two restarts or failed writes | `OneWorkerPerJob`, `FinishedJobsHaveRun`, `RerunWindow` |
| `Solicitacoes` | 3 requests decided one at a time with one kind of failure; 1 request with two overlapping decisions and three kinds | `AtMostOnePending`, `PendingHasDocument`, `DecidedFreesTheKey`, `DecidedOnce`, `ApprovedIsApplied` |
| `RegrasAvaliacao` | 3 types of rule, 4 rows, 2 overlapping requests, 4 in all | `RulesReachARoot` |
| `FormulaAvaliacao` | every text of at most 4 tokens, and every three operands with brackets; a limit that some of them pass only after brackets and periods are added | `MarksFollowTheText` |

Why these bounds:

* *Ledger.* Two writers with two commands meet every pair of transactions:
  both in flight, one committed under the other's snapshot, and a second
  command after a failed first. Batches of two tell a half-inserted batch from
  a whole one. The argument for the number of attempts needs a third writer,
  that ids commit out of order a second aggregate. The safety properties are
  proved for all values (section 6).
* *Projections.* Skipping, double counting and coalesced wake-ups all need one
  event behind another, so two; a batch holds both, so a failure at the first or
  second stops in the middle. One restart at any place. Order of commits is the
  constant `OutOfOrder`: FALSE tells what the manager guarantees by itself.
* *Jobs.* The end of each job is asked where two jobs want a queue of one place: the
  second is dropped (`worker.go:85-88`), and the sweep, of one place as well, must find it,
  whether the first was paused, interrupted by the restart or is still with the worker.
  What has run and what runs again is asked in `Dominio`, of one job that a request, the
  sweep and a retry may queue for two workers: three items with a flush of two give a full
  batch and a short last one. Runs of an item are counted up to `MaxRuns`: two there, to
  tell a second run from the first, and one where no property looks at them.
* *Solicitacoes.* A third request is needed for a key freed too often to admit
  two at once; a second decider for a decision repeated. Requests begin in the
  order of their numbers: they are interchangeable, so this loses nothing.
* *Cobranca.* A race is between two requests on one charge; the second charge is
  for two charges of one month. Every pair of operations at every interleaving, with the
  manager and the provider free in between.
* *Credenciais.* A reconfiguration under a second id is what makes a snapshot
  differ from the row; of two charges one may keep the snapshot while the other ends.
* *Mensalidade.* Three versions or removals before and after the month is what the choice
  of a price distinguishes. One configuration and two requests are what two charges of one
  month need, and a third charge changes nothing.
* *Matricula, ServicoExtra.* The guard's mistakes need two requests, a request
  behind another's end, and a decision or a payment: three or four handlers.
* *AvaliacaoFinal.* A student passes with one subject pending; a second mark that
  completes the year arrives while the first is saved, projected in part, or not at all.
* *Cadastros.* The projection is behind by two events at most, and a decision
  is overtaken by another one; the states of an aggregate are all reached, since
  nothing bounds the number of events.
* *RegrasAvaliacao.* A chain of three, of which the middle is deleted while a
  dependent is created.

Deadlock is checked for `Projections`, whose manager never stops. It is off for
the others: a finite number of commands, jobs and requests ends.

Symmetry is used for writers, workers, handlers and charges in runs that check
safety; `LedgerContention`, `JobsProgress` and `ProjectionsLive` check liveness
and use none.

## 4. Fairness

* `Ledger!FairSpec`: weak fairness of each writer's steps inside
  `SaveWithAudit`. A goroutine that runs keeps running and PostgreSQL answers.
  There is none for loading, failures or crashes. An insert that waits for a
  lock is not enabled, so nothing is assumed of it.
* `Projections!FairSpec`: weak fairness of the manager's cycle and of its
  timer; strong fairness, for each projection, of fetch, handler and
  checkpoint. The code retries for ever (comment MANAGER-01: errors are temporary,
  the event is tried in the next cycle), so that an event that can succeed does
  in the end is what it relies on. A permanently failing event blocks its
  projection by design. Nothing is assumed of writers, wake-ups and rebuilds.
* `Jobs!FairSpec`: weak fairness of requests, sweep, cleanup and each worker's
  next step: they are goroutines and tickers. Failed writes are bounded by
  `MaxFailures`, so weak fairness is enough for a write that is tried again.

The other specifications state no fairness: their properties are of safety, and a
handler, a client or a provider may stop at any point. What must follow in the end is
said as a condition on states instead: `PaidIsConfirmed` and `RowsAgree` speak of states in
which no handler is in progress or the projection has caught up.

## 5. Where code and documents disagree

Five runs end in a violation of what the repository says:

* `RetriesRebuildTheAggregate` (`LedgerRetry`). `internal/utils/errors.go:375`
  calls a serialization failure safe to retry "only after rebuilding the
  aggregate from the latest event stream"; `SaveWithAudit`
  (`internal/db/repository.go:187-189`) retries the same batch with a new
  version. The stream stays well formed (that is proved), but a command whose
  precondition a concurrent one removed is recorded all the same.
* `NoEventSkipped` (`ProjectionsOutOfOrder`). With commits out of id order
  `WHERE id > checkpoint` passes over an event for good, against the comment of
  `Wake` that the next cycle processes everything pending. Within one aggregate
  this cannot happen (`StreamsGrowInIdOrder`), between aggregates it can.
* `RejectedLeavesData` (`SolicitacoesRejected`). An approval applies the change
  before the aggregate refuses, and the first check is on the lagging read
  model: a rejected request can still change the datum.
* `OneActiveRoot` (`RegrasRaizes`). Two root rules of different types are created
  at once: each query finds none, and no index forbids the second. From then on
  the academy's students are not assessed until one of the rules is deleted.
* `UpdatesFitTheTable` (`ServicoExtraUpdate`). The aggregate makes an update
  whole so that it satisfies the table's CHECK; the projection writes it one
  column at a time, in the order of a Go map, and a row in between does not.

Others were met while modelling. The property that holds names the condition, and
dropping it makes TLC print the behaviour:

| Condition in | What happens without it |
|---|---|
| `AtMostOnePending`, no second decision | `ReleaseKey` frees every active row of the key: a repeated decision frees the guard of a *newer* request, and a third request is admitted |
| `AtMostOnePending`, no crash or lost reply, no failed `Consume` | the request is in the ledger and its guard is released or expires before it shows in the read model |
| `DecidedFreesTheKey`, no crash, lost reply or failed release | the key stays blocked after the decision (the error of `ReleaseKey` is ignored), against task 14's "não deixa bloqueios órfãos permanentes" |
| `DecidedOnce`, `basis` | two overlapping decisions are both recorded (`SaveWithAudit` does not compare the version the aggregate was loaded at) |
| `PendingHasDocument`, no lost reply | the handler deletes the document of a request that was saved |
| `CountedOnce`, transactional only; no rebuild in its run | a plain projection that counts (`sumarios.version`) counts an event twice after a restart; a rebuild and the manager apply an event both |
| `CompleteRebuildHasAll`, what the rebuild read | an event committed between its query and its `MAX(id)` is only applied if the manager happens to be there |
| `RerunWindow`, failed writes | a flush that fails and is only logged makes the window longer than the "no máximo 10 itens" of task 23 |
| `ProgressIsKept`, `late` | `loadFromDB` (`internal/jobs/store.go:245`) overwrites a record that has advanced, which `ListActive` avoids |
| `LongSleepMeansDrained`, `unread` | a cycle whose reads failed arms the 20-minute timer although events are pending |
| `SeenDecisionsStand`, what the handler has seen | a handler that read the charge before a cancellation or a payment outside writes its own outcome over it |
| `PaidIsConfirmed`, `rewound` | the manager takes a row back to an older event; the handler that would confirm the month finds nothing to do |
| `PaidIsConfirmed`, no failure | a webhook whose row the manager wrote after a lost reply is dropped as a duplicate when it is delivered again, before its effect |
| `PendingChargeIsReachable`, `raced` | a charge is recorded after the count of pending charges found none: its credentials are wiped |
| `SnapshotIsNeeded`, `Overtaken`, `synced` | a charge paid at its creation is not among the events that purge (`servico.go:981`); an event appended after a removal brings its row back, and the purge that cannot record it leaves every snapshot after it as well (`credenciais.go:668-697`) |
| `PastPricesStand`, the month settled and begun, the start unchanged | a month paid at the price made for everything pending is later shown at its historical price, or not at all; a start moved forward hides it |
| `NothingDueIsHidden`, `repetidas` | two requests check a month before either records its charge (`mensalidade.go:371-378`, `servico.go:279-295`), or the provider calls an ended charge pending again: two charges wait for one month, and both can be paid |
| `OneStudentPerBI`, `descobertas` | the reply to the save is lost or `Consume` fails, the deferred `Release` frees the card (`solicitacao_matricula_handlers.go:350-354`, `estudante_handlers.go:291-295`), and a second request enrols the card before the first student is projected; the table refuses the second row (`uq_estudante_bilhete_identidade_normalizado`) and the projection of students stops there |
| `OneStudentPerBI`, the card | without a card nothing is reserved: two effects of one payment make two students |
| `OnePendingInscription`, `expostas` | the same of a request for an extra service (`servico_extra_solicitacao_handlers.go:104-109, 147-157`): two requests wait, and `ux_sol_servico_extra_ativa` stops the projection at the second |
| `RowsAgree`, `movidos` | an assessment moves a student between the rows of two classes, and neither aggregate hears of it: the first class keeps the student (it cannot be deleted), the second does not have the student |
| `OnePendingInscription`, pending | after a crash and two racing decisions two requests may be active, and the unique index of the row stops the projection |
| `OneLevelPerYear`, the school year does not change while a mark is being recorded | a student goes up twice |
| `OneLevelPerYear`, no correction of an earlier year's mark that moves the student up in this year | `CorrigirNota` changes the level while marks of this year, whose level has been read, are being recorded: the student goes up from two levels in one year |
| `RulesReachARoot`, no overlap with a deletion | a rule is created under one that is being deleted, and stays without a root |

And in the code, next to what is modelled:

* *Charges.* The consultation of a cancelled charge that the provider calls
  pending opens it again ("Uma cobrança cancelada é definitiva", task 26). A
  reservation is released although its save worked, and the next charge with that
  merchant id stops the projection. Only the first webhook of a charge is processed.
* *Credentials.* A removal and a new configuration, both behind the manager, break
  the unique index of the row and stop it; a reconfiguration that overlaps a
  removal loses the webhook's secret.
* *Enrolments.* `ReceberWebhook` answers 500 when the enrolment fails, and the retry
  is dropped as a duplicate; `CancelarSolicitacao` that discovers a payment
  records it and enrols nobody; an approval and a rejection at once leave a student
  whose request is rejected; a cut between the student and the approval leaves a
  pending request whose card blocks a second attempt.
* *Extra services.* The guard is kept after a rejection or a cancellation, so that
  the student can never ask again (tasks 14 and 84 say the decision releases it); `IniciarPagamentoServicoExtraObrigacao` reads the request's id from a field
  tagged `json:"-"` and always answers 400.
* *Absences.* The events carry `sumario_id`, `sumario_alterado`, ... and the
  projection reads `SumarioID`, `SumarioAlterado`, ...: the link to a summary never
  reaches the row, and `DesvincularSumarioFalta` always answers that there is none
  (against task 75).
* *Jobs.* `RetryFailedJob` passes the length of its JSON as the number of items
  (`handlers/job_handlers.go`), so the progress of a retry never reaches its end.
* *Registers.* A return of a student to another academy can never be approved
  (against `estudante_delecao_academia_handlers.go:25-28`); an error while documents
  are completed deletes the student's directory; two overlapping creations of a class
  with one code, or of a category with one name, stop their projection; a stale
  `FinalizarAnoLetivo` moves a school year back. The assessment of a student for whose next
  level no class is found stops the projection of classes (`turmas_projection.go:439-441`),
  with every later event of it.
* *Assessments.* A corrected mark counts with the mark it corrects (skipped test
  `notas_faltas_correcao_integration_test.go:333`); the limit of 1000 characters
  is checked on the text that was sent and not on the one stored.

An aborted rebuild leaves the read model cleared and the checkpoint at 0 until
the manager has caught up; the model has that behaviour and no property
forbids it.

## 6. Proofs

Thirty-seven theorems, each for every value of the constants its module assumes. They
cover every invariant and every action property the passing runs check, except
those at the end of this section, and both refinements of `Ledger`. Few properties are
inductive as they stand: each proof names the invariant that is, with what it says of
the handlers in progress, and has a lemma for each action. A proof module, or a
section of `PartesProofs`, has that invariant and the lemmas, of the module alone;
`DominioProofs` lifts them to `Spec`, where a step of a part is a step of its module.

`LedgerProofs`

* `ChainInvariantHolds`, `TypeCorrect`, `LedgerIntegrity`. That the committed streams
  are chains says nothing about the rows about to be committed. `ChainInvariant`
  adds, for each open transaction, that its rows continue the stream *of its
  snapshot* (`OwnContinuesSnapshot`), that a writer outside a transaction has no
  rows, and that no row in flight has the key of a committed row or of another's
  row (`KeysDisjoint`). The step that needs all three is `Commit`. Suppose another
  transaction had extended the same stream since the snapshot was taken. Then it
  holds the version right after the snapshot's last, which is the first version of
  this transaction's rows: two rows with one key, against `KeysDisjoint`. So the
  stream is still the snapshot's (`CommitStream`), and the rows continue it. The
  proof uses nothing of the serializable isolation level: the unique index and the
  snapshot are enough, which is why a retry may keep its batch without corrupting
  the chain.
* `StreamsGrowTheorem`, `IdFeedTheorem` (`IdsOK`): the rows of a transaction have ids of
  their own, after every id of its snapshot.
* `EventLogTheorem` (`CommandsOK`, `BatchesOK`): a writer's rows are of the command in its
  hands, which has none in the ledger, and a snapshot has all of a batch or none.
* `WinnersTheorem` (`WinnersOK`): as many commands of other writers are in the stream as
  attempts of this one have failed.

`JobsProofs`

* `IInv` is `Types`, `Marked` (whatever is queued or with a worker is in `inFlight`,
  once), `Stored` (a job that anybody knows of has a row), `ReadRows` (a row read
  before is no further than the cache), `Records` and `AtWork` (a worker has run
  what it counts). It gives `TypesTheorem`, `FinishedJobsAreCompleteTheorem` and, in
  `DominioProofs`, `OneWorkerPerJobTheorem` and `FinishedJobsHaveRunTheorem`;
  `ProgressIsKeptTheorem` is an action property from the same invariant.
* `RerunWindowTheorem` (`Reruns`; in `DominioProofs`) counts what has run again or may (`Exposed`): what the
  database does not count, save the window of the worker at work. Each restart or
  failed write adds at most a batch to it.

`ProjectionsProofs`

* `IInv` (`Types`, `ManagerOK`, `RebuildOK`: what a rebuild asked for has been applied
  or is still in its rows) gives `TypesTheorem` and `CompleteRebuildTheorem`, whatever the
  manager, failures, restarts and the order of commits do beside the rebuild.
* `CountedOnceTheorem` (`CountedOK`), `NoEventSkippedTheorem` (`OrderOK`) and
  `LongSleepTheorem` (`DrainedOK`) have the hypothesis `MaxRebuilds = 0`, as their run:
  a rebuild and the manager apply an event both, and a rebuild sets the
  checkpoint back below what the manager has read (the hazard at `manager.go:636`).
  `NoEventSkippedTheorem` has `~OutOfOrder` as well: the run `ProjectionsOutOfOrder`
  is what happens otherwise.

`PartesProofs`, change requests (`IPedidos`; theorems in `DominioProofs`, as of all that follow)

* `OneRow` says that one row of the guard is active, that of a request that is being
  made, that waits, or that was decided: `AtMostOnePendingTheorem` follows from the guard alone, and
  the handler's check of the read model is not needed for it. `Applied`
  (`ApprovedIsAppliedTheorem`), `Documents` (`PendingHasDocumentTheorem`), `KeyFreed`
  (`DecidedFreesTheKeyTheorem`) and `DecidedOnceTheorem` say what a decision in progress
  has done; the conditions on failures are those of the properties, and
  `ApprovedIsApplied` has none.

`CobrancaProofs`

* What a request has still to record agrees with the row it was computed from and with
  the provider (`HandlersOK`, `LogOK`), whatever the others record meanwhile: an answer
  of the provider never becomes false. That gives `PaidMeansPaidTheorem` and
  `SeenDecisionsStandTheorem`. For `PaidIsConfirmedTheorem`, `ConfirmOK`: a payment on
  record that is not confirmed has a request that will show it or confirm it.
  `BeginsOK` and `CreatesOK` say that a new charge is known to one request.

`CredenciaisProofs`

* While there is no fault, `SegredosOK` (what a request has seen in the vault is
  there until a removal) and `CobrancasOK` (what a charge in time needs is spared
  by every event on record or about to be) give `PendingChargeIsReachableTheorem`.
  `ArquivosOK` (a snapshot without a charge has a request that is on its way to purge
  it) gives `SnapshotIsNeededTheorem`, if no removal is overtaken at all. A first
  version of the property excepted only the credentials that were overtaken; the
  proof failed where one of them stops the purge of the others.

`CadastrosProofs`, the kinds of register

* `RowsAgreeTheorem`. That a row with no event left agrees with its aggregate says nothing
  while events wait. The invariant is a history (`FilaOK`): states of the register, one
  more than there are waiting events, of which each event links two (`Elo`), for the
  aggregate's `Apply` and for the row's `Handle` alike, and so that a second `Handle`
  changes nothing. The last state is the aggregate's; the row is at the first, or at the
  second when its event was handled and the checkpoint lost. A handler appends what it
  decided to whatever the aggregate has become, so a link must exist from *every*
  state of a register that exists, not only from the one the handler read: that is what
  is shown of each of the twelve kinds, for every event (`TurmaMuda`, `CursoMuda`...), with
  the commands deciding only such events (`TurmaPede`...) and the creation of the
  register as a case of its own (`TurmaNova`, `TurmaPedeNova`). The row of a class is
  at a state of the history but for the students in `movidos` (`Igual`), and every event keeps
  it so (`Passo`): an assessment is a link from every state to itself for the aggregate, and
  disturbs of the row only what is said of its student. While
  a register does not exist one handler at most is about to create it (`PedidosOK`),
  since the id of a new register is that handler's own.

`PartesProofs`, the other parts

* Enrolments, `OneStudentPerBITheorem`: the guard and its holder say the same (`GuardaMatriculaOK`).
  That there are at most 1 + `descobertas` students does not say that no more may come;
  `VistoMatriculaOK` says of the case of exactly so many (`Cheio`) that whoever may take the guard, or
  has it and has not looked, would see one of them, so that the next student needs another
  freeing of the card. The unique index keeps a student out of the read model only while another
  one is in it (`Recusado`), which the look-up sees.
* Extra services, `OnePendingInscriptionTheorem`: as the enrolments, with the guard of the
  pair, `expostas` and the case `Lotada` (`VagaOK`, `EsperaOK`). Here the look-up comes before the
  guard, so a handler that has looked and has yet to reserve makes a freeing count (`Exposta`).
* Final assessment, `OneLevelPerYearTheorem`: until a year has a normal assessment the
  level in the row and in every mark of the year is one (`NivelOK`, `LinhaOK`), and
  from then on the aggregate refuses another to whoever loads it. The exception in
  `OneLevelPerYear`, a late correction that promotes, was found here: without it
  `LinhaOK` is not kept by `CorrigirNota`.
* Monthly fees, `PastPricesStandTheorem`: a step records at most one event, of today, and
  the choice of the version of a month that began before does not look at it
  (`PrecoFica`). The invariant, `IMensalidade`, is of types only; the property is of steps.
* Monthly fees, `NothingDueIsHiddenTheorem` (`IConta`): a month waits in two charges, or in
  one while a request is about to record another, only if it is in `repetidas`: each step that
  makes it so, a check that finds another request past its own or a charge put back to
  waiting, puts it there, and a check that finds a waiting charge refuses. The
query of the student and the query of the class are two programs: the months of
  one are shown to be those of the other at the same price (`DoEstudante`, `DaClasse`), and
  each comes once (`UmaSoVez`), because a loop that keeps some of a list keeps each as often
  as the list has it (`FiltrarFacts`). For a page across the end of the months
  due and the beginning of the charges, both queries are asked for a part of it, and
  `PaginaDeDuas` and `PaginasCertas` show the parts to be that page of both lists together.
* Rules, `RulesReachARootTheorem`: while no deletion overlaps another request, what a
  handler has read of the active rules stays true until it writes, and all of
  them reach a root (`SemDelecoesOK`); without any overlap there is one root
  (`UmaRaizOK`). The types that reach a root are computed by repeating a step
  (`Fecho`), so the proof shows that the result is the least set closed under
  the step: each step adds a type or nothing ever will, and there are finitely many.
  What would be an induction is the least number of steps that fails; the same holds for
  the lists of monthly fees.

`TypeOKTheorem` joins what the nine invariants say of types. Credentials need `ITipos`
besides, for what the argument about them leaves out: a request that has just created a
charge looks at that charge only.

Assumptions. `LedgerAssumption`, `ProjectionsAssumption`, `JobsAssumption`,
`CobrancaAssumption` and `DominioAssumption` say that bounds are naturals (those of a
batch, of attempts, of the queue, of the sweep and of the flush are positive, as the
code's are), that sets of jobs, projections and types of rule are finite, and that a value that
stands for nothing is not a member of the set it is put beside (no handler is called
"free", no request "none"). `Instantes` are numbers, a year is counted from 1, `Tipos` are kinds of
register that `Cadastros` has. Nothing is
assumed of what the code does. TLC evaluates them in each run.

Only model-checked:

* Liveness: `SaveReturns`, `EventuallyProjected`, `EveryJobEnds`. Fairness and `ENABLED`
  are out of the prover's reach.
* `MarksFollowTheText`: `FormulaAvaliacao` is recursive, and what a recursive definition
  computes of every text is an induction over data.

## 7. Not modelled

Of the components that are modelled:

* *Ledger.* `SaveSnapshot`/`LoadSnapshot`, which no command path calls.
* *Projections.* Metrics and the status endpoint. Rebuilds of the registers one by one.
* *Jobs.* `RetryFailedJob`; the notifier and the visibility of jobs over SSE.
* *Charges.* QR codes, formats and signatures of the providers, the import of
  payments in bulk; the message of a provider is its normalized status.
* *Credentials.* Encryption; the second provider, which the factory does not know.
* *Monthly fees.* Two links of a student in one school year; the choice among
  scopes (year, course, level), of which there is one; the clock of the process is
  the order of the ledger. A request shows its own event before it answers; where two
  record for one academy at once, `ApplyLatestForAggregate` shows the second, and the first
  waits for the manager. Annulments of several months, one after another.
* *Enrolments.* Documents, the form, requests to different academies at different
  fees. It is assumed that a read model is behind by less than the 30 minutes of a
  reservation, unless its table refuses the row.
* *Extra services.* The payment of obligations, which the code never starts.
* *Assessments.* The progression of higher education, absences that fail a student,
  the class a student moves to; `RegistrarAvaliacaoFinal` (the manual handler), which
  no route reaches. Floating point is replaced by fractions.
* *Rules.* The fixed rules of schools; the checks on subjects, courses and grade
  categories, which only refuse.
* *Registers.* Columns that one of the two programs alone has (the counter of a
  summary, the counter of an administrator's actions, the names a row copies from
  other rows), uploads, grade categories, and absences themselves, whose
  row is not what its aggregate holds: the aggregate keeps keys only. Assessments that change
  no class (not approved, of higher education, of a student in no class) are no events of
  `Turma`; which class the projection chooses among those of the next level is any.
* *Administrators.* The one-time bootstrap and the settings of the system.

And these components:

* Authentication and rate limit: stateless tokens, cryptography, a library's bucket.
* Storage and its migration between providers: copies started by hand. Uploads of
  change requests are in `Solicitacoes`.
* The calls to providers of messages; job events over SSE, a lossy fan-out (clients
  poll as well); schema migrations, SQL; HTTP wiring, validation, health, metrics.

## 8. Plan

What is left, in this order:

1. Proofs. Every invariant and action property of the passing runs that a proof can
   reach has its theorem; a property added to a model belongs in the section of
   `PartesProofs`, or in the proof module, of its component, with a lemma for each action,
   and in `DominioProofs` only what lifts it to `Spec`.
2. Absences in `Cadastros`, with the link to summaries as the code has it, and the
   retry of a job in `Jobs`.
3. `Cobranca` and `Matricula` composed: the confirmation of an enrolment as a step of the
   webhook, instead of the counts that stand for charges now.
4. The progression of higher education over `RegrasAvaliacao`.
5. `StorageMigration`, the bootstrap, the codes of e-mails.
