------------------------------ MODULE Dominio ------------------------------
(***************************************************************************)
(* Nine modules that share no state, side by side: a behaviour chooses a   *)
(* part at the beginning, runs its specification and leaves the variables  *)
(* of the others empty.  A module comes with its theorems, from            *)
(* PartesProofs or its own instance, for DominioProofs to cite.            *)
(***************************************************************************)
EXTENDS PartesProofs

CONSTANTS
    Credentials, Payments, Callers, MaxCalls, MaxFaults,
    Tipos, MaxEmCurso,
    JobIds, Workers, Items, Unregistered, FlushBatch, QueueCap, SweepLimit, MaxJobs,
    MaxRuns, MaxFailures

VARIABLES
    part,  \* the module of this behaviour
    events, row, archived, ativo, vault, payment, position, caller, calls, faults,
    raced, synced,
    tipo, estado, fila, linha, pedidos, movidos,
    db, cache, request, queue, inFlight, worker, sweep, get, runs, late, crashes,
    errors

K == INSTANCE CredenciaisProofs
C == INSTANCE CadastrosProofs
J == INSTANCE JobsProofs

(* What the proofs ask of the constants.                                    *)
ASSUME DominioAssumption ==
    /\ K!Hipoteses /\ J!JobsAssumption /\ C!Hipoteses
    /\ MatriculaHipoteses /\ MensalidadeHipoteses /\ ServicoHipoteses /\ AvaliacaoHipoteses
    /\ RegrasHipoteses

credenciaisVars == <<events, row, archived, ativo, vault, payment, position, caller,
            calls, faults, raced, synced>>
mensalidadeVars == <<configs, inicio, obrigacao, cobrancas, hoje, pagador, repetidas>>
matriculaVars == <<solicitacao, lida, estudantes, guarda, cobranca, taxa, atendente,
            atendidos, descobertas>>
servicoVars == <<servico, servicoLido, inscricao, inscricaoLida, vaga, inscritas,
            lancamento, operador, operacoes, expostas>>
avaliacaoVars == <<ensino, anoLetivo, percurso, percursoLido, estudante, docente,
            notas>>
cadastroVars == <<tipo, estado, fila, linha, pedidos, movidos>>
poolVars == <<db, cache, request, queue, inFlight, worker, sweep, get, runs, late,
            crashes, errors>>
regrasVars == <<regras, gestor, gestoes, sobrepostas>>
solicitacoesVars == <<guard, creator, decider, log, projected, applied, docs,
            failed, shape>>
vars == <<part, credenciaisVars, mensalidadeVars, matriculaVars, servicoVars,
          avaliacaoVars, cadastroVars, poolVars, regrasVars, solicitacoesVars>>

credenciaisOff ==
    /\ events = {} /\ row = {} /\ archived = {} /\ ativo = {} /\ vault = {}
    /\ payment = {} /\ position = {} /\ caller = {} /\ calls = {} /\ faults = {}
    /\ raced = {} /\ synced = {}
mensalidadeOff ==
    /\ configs = {} /\ inicio = {} /\ obrigacao = {} /\ cobrancas = {} /\ hoje = {}
    /\ pagador = {} /\ repetidas = {}
matriculaOff ==
    /\ solicitacao = {} /\ lida = {} /\ estudantes = {} /\ guarda = {} /\ cobranca = {}
    /\ taxa = {} /\ atendente = {} /\ atendidos = {} /\ descobertas = {}
servicoOff ==
    /\ servico = {} /\ servicoLido = {} /\ inscricao = {} /\ inscricaoLida = {} /\ vaga = {}
    /\ inscritas = {} /\ lancamento = {} /\ operador = {} /\ operacoes = {}
    /\ expostas = {}
avaliacaoOff ==
    /\ ensino = {} /\ anoLetivo = {} /\ percurso = {} /\ percursoLido = {} /\ estudante = {}
    /\ docente = {} /\ notas = {}
cadastroOff ==
    /\ tipo = {} /\ estado = {} /\ fila = {} /\ linha = {} /\ pedidos = {}
    /\ movidos = {}
poolOff ==
    /\ db = {} /\ cache = {} /\ request = {} /\ queue = {} /\ inFlight = {}
    /\ worker = {} /\ sweep = {} /\ get = {} /\ runs = {} /\ late = {}
    /\ crashes = {} /\ errors = {}
regrasOff ==
    /\ regras = {} /\ gestor = {} /\ gestoes = {} /\ sobrepostas = {}
solicitacoesOff ==
    /\ guard = {} /\ creator = {} /\ decider = {} /\ log = {} /\ projected = {}
    /\ applied = {} /\ docs = {} /\ failed = {} /\ shape = {}

Init ==
    \/ /\ part = "credenciais" /\ K!Init
       /\ mensalidadeOff /\ matriculaOff /\ servicoOff
       /\ avaliacaoOff /\ cadastroOff /\ poolOff /\ regrasOff /\ solicitacoesOff
    \/ /\ part = "mensalidade" /\ P!Init
       /\ credenciaisOff /\ matriculaOff /\ servicoOff
       /\ avaliacaoOff /\ cadastroOff /\ poolOff /\ regrasOff /\ solicitacoesOff
    \/ /\ part = "matricula" /\ M!Init
       /\ credenciaisOff /\ mensalidadeOff /\ servicoOff
       /\ avaliacaoOff /\ cadastroOff /\ poolOff /\ regrasOff /\ solicitacoesOff
    \/ /\ part = "servico" /\ S!Init
       /\ credenciaisOff /\ mensalidadeOff /\ matriculaOff
       /\ avaliacaoOff /\ cadastroOff /\ poolOff /\ regrasOff /\ solicitacoesOff
    \/ /\ part = "avaliacao" /\ V!Init
       /\ credenciaisOff /\ mensalidadeOff /\ matriculaOff
       /\ servicoOff /\ cadastroOff /\ poolOff /\ regrasOff /\ solicitacoesOff
    \/ /\ part = "cadastro" /\ C!Init
       /\ credenciaisOff /\ mensalidadeOff /\ matriculaOff
       /\ servicoOff /\ avaliacaoOff /\ poolOff /\ regrasOff /\ solicitacoesOff
    \/ /\ part = "pool" /\ J!Init
       /\ credenciaisOff /\ mensalidadeOff /\ matriculaOff
       /\ servicoOff /\ avaliacaoOff /\ cadastroOff /\ regrasOff /\ solicitacoesOff
    \/ /\ part = "regras" /\ R!Init
       /\ credenciaisOff /\ mensalidadeOff /\ matriculaOff
       /\ servicoOff /\ avaliacaoOff /\ cadastroOff /\ poolOff /\ solicitacoesOff
    \/ /\ part = "solicitacoes" /\ Q!MCInit
       /\ credenciaisOff /\ mensalidadeOff /\ matriculaOff
       /\ servicoOff /\ avaliacaoOff /\ cadastroOff /\ poolOff /\ regrasOff

Next ==
    /\ UNCHANGED part
    /\ \/ /\ part = "credenciais" /\ K!Next
          /\ UNCHANGED <<mensalidadeVars, matriculaVars, servicoVars,
                         avaliacaoVars, cadastroVars, poolVars, regrasVars,
                         solicitacoesVars>>
       \/ /\ part = "mensalidade" /\ P!Next
          /\ UNCHANGED <<credenciaisVars, matriculaVars, servicoVars,
                         avaliacaoVars, cadastroVars, poolVars, regrasVars,
                         solicitacoesVars>>
       \/ /\ part = "matricula" /\ M!Next
          /\ UNCHANGED <<credenciaisVars, mensalidadeVars, servicoVars,
                         avaliacaoVars, cadastroVars, poolVars, regrasVars,
                         solicitacoesVars>>
       \/ /\ part = "servico" /\ S!Next
          /\ UNCHANGED <<credenciaisVars, mensalidadeVars, matriculaVars,
                         avaliacaoVars, cadastroVars, poolVars, regrasVars,
                         solicitacoesVars>>
       \/ /\ part = "avaliacao" /\ V!Next
          /\ UNCHANGED <<credenciaisVars, mensalidadeVars, matriculaVars,
                         servicoVars, cadastroVars, poolVars, regrasVars,
                         solicitacoesVars>>
       \/ /\ part = "cadastro" /\ C!Next
          /\ UNCHANGED <<credenciaisVars, mensalidadeVars, matriculaVars,
                         servicoVars, avaliacaoVars, poolVars, regrasVars,
                         solicitacoesVars>>
       \/ /\ part = "pool" /\ J!Next
          /\ UNCHANGED <<credenciaisVars, mensalidadeVars, matriculaVars,
                         servicoVars, avaliacaoVars, cadastroVars, regrasVars,
                         solicitacoesVars>>
       \/ /\ part = "regras" /\ R!Next
          /\ UNCHANGED <<credenciaisVars, mensalidadeVars, matriculaVars,
                         servicoVars, avaliacaoVars, cadastroVars, poolVars,
                         solicitacoesVars>>
       \/ /\ part = "solicitacoes" /\ Q!MCNext
          /\ UNCHANGED <<credenciaisVars, mensalidadeVars, matriculaVars,
                         servicoVars, avaliacaoVars, cadastroVars, poolVars,
                         regrasVars>>

Spec == Init /\ [][Next]_vars

-----------------------------------------------------------------------------
(* The properties of each module, of the behaviours that are its own; each  *)
(* is stated and explained where it is defined.                             *)

(* The variables have their types.                                          *)
TypeOK ==
    CASE part = "credenciais" -> K!TypeOK
      [] part = "mensalidade" -> P!TypeOK
      [] part = "matricula" -> M!TypeOK
      [] part = "servico" -> S!TypeOK
      [] part = "avaliacao" -> V!TypeOK
      [] part = "cadastro" -> C!TypeOK
      [] part = "pool" -> J!TypeOK
      [] part = "regras" -> R!TypeOK
      [] part = "solicitacoes" -> Q!TypeOK
      [] OTHER -> TRUE

(* A charge that waits has credentials that can reach the provider.         *)
PendingChargeIsReachable == part = "credenciais" => K!PendingChargeIsReachable

(* Archived credentials and their secrets are there for some pending charge.*)
SnapshotIsNeeded == part = "credenciais" => K!SnapshotIsNeeded

(* Each payable month is on the list of payments, as pending or in a charge *)
(* that waits, and in two charges only after payments overlapped.           *)
NothingDueIsHidden == part = "mensalidade" => P!NothingDueIsHidden

(* A card has one student, and one more for each time its guard was given   *)
(* back over a student the read model did not show.                         *)
OneStudentPerBI == part = "matricula" => M!OneStudentPerBI

(* A student has one request in progress for a service, and one more for    *)
(* each time the guard was given back over one that was recorded.           *)
OnePendingInscription == part = "servico" => S!OnePendingInscription

(* A student moves at most one level up in a school year.                   *)
OneLevelPerYear == part = "avaliacao" => V!OneLevelPerYear

(* A row that has had every event is what the aggregate is, but for the     *)
(* students that an assessment moved from class to class.                   *)
RowsAgree == part = "cadastro" => C!RowsAgree

(* No two workers have the same job.                                        *)
OneWorkerPerJob == part = "pool" => J!OneWorkerPerJob

(* A job that ended has run every one of its items.                         *)
FinishedJobsHaveRun == part = "pool" => J!FinishedJobsHaveRun

(* What a restart can make a job do again is bounded.                       *)
RerunWindow == part = "pool" => J!RerunWindow

(* A datum has at most one pending request.                                 *)
AtMostOnePending == part = "solicitacoes" => Q!AtMostOnePending

(* A pending request has its document.                                      *)
PendingHasDocument == part = "solicitacoes" => Q!PendingHasDocument

(* A decided request no longer blocks its datum.                            *)
DecidedFreesTheKey == part = "solicitacoes" => Q!DecidedFreesTheKey

(* A request is decided once.                                               *)
DecidedOnce == part = "solicitacoes" => Q!DecidedOnce

(* What was approved was applied before.                                    *)
ApprovedIsApplied == part = "solicitacoes" => Q!ApprovedIsApplied

(* The rules an assessment finds are a chain that it can follow.            *)
RulesReachARoot == part = "regras" => R!RulesReachARoot

(* The price of a month settled in the past stands.                         *)
PastPricesStand == [][part = "mensalidade" => P!PastPriceKept]_mensalidadeVars
=============================================================================
