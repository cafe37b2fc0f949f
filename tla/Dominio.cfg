\* Ten modules side by side, each on an instance of its own.
SPECIFICATION MCSpec
SYMMETRY Symmetry
CONSTANTS
    \* Credenciais: reconfiguration under a second id, two charges, one kind of fault
    Credentials = {k1, k2}
    Payments = {p1, p2}
    Callers = {h1, h2}
    MaxCalls = 4
    MaxFaults = 1
    \* Mensalidade: a year from September, October named at will, events in December,
    \* two requests at a time
    Superior = FALSE
    Escolhas = {10}
    Instantes = {4}
    MesesInicio = {7}
    MaxRegistos = 3
    Pagadores = {h1, h2}
    \* Matricula: two requests with the same card, two requests at a time
    Candidaturas = {s1, s2}
    ComBI = {s1, s2}
    Atendentes = {h1, h2}
    MaxAtendidos = 3
    MaxCobrancas = 1
    \* ServicoExtra
    Inscricoes = {i1, i2}
    Operadores = {h1, h2}
    MaxOperacoes = 4
    MaxAlteracoes = 2
    \* AvaliacaoFinal: two subjects, one of which may stay pending
    Materias = {m1, m2}
    Pendenciaveis = {m1}
    Limite = 1
    Escolas = {"medio"}
    Valores = {10}
    Minima = 10
    UltimoNivel = 3
    UltimoAno = 2
    Docentes = {h1, h2}
    MaxNotas = 3
    \* Cadastros
    Tipos = {"turma", "curso", "materia", "admin", "academia", "estudante", "categoria",
             "documento", "sumario", "faltas", "remetente", "mensagem"}
    MaxEmCurso = 2
    \* Jobs: a job of three items and two workers, two restarts or failed writes
    JobIds = {1, 2}
    Workers = {h1, h2}
    Items = 3
    Unregistered = {2}
    FlushBatch = 2
    QueueCap = 1
    SweepLimit = 1
    MaxJobs = 1
    MaxRuns = 2
    MaxFailures = 2
    \* RegrasAvaliacao: a chain of three, two requests at a time
    TiposRegra = {"normal", "recurso", "melhoria"}
    Gestores = {h1, h2}
    MaxRegras = 4
    MaxGestoes = 4
    \* Solicitacoes: three requests decided one at a time, and one decided twice at a time
    Requests = {1, 2, 3}
    Deciders = {1, 2}
    MaxKinds = 3
    \* FormulaAvaliacao: a limit that three operands in brackets fit, with one period but not two
    Constantes = {0, 2}
    MaxTexto = 4
    MaxFormula = 19
INVARIANTS TypeOK PendingChargeIsReachable SnapshotIsNeeded  OneStudentPerBI
INVARIANTS OnePendingInscription OneLevelPerYear RowsAgree OneWorkerPerJob
INVARIANTS FinishedJobsHaveRun RerunWindow
INVARIANTS AtMostOnePending PendingHasDocument DecidedFreesTheKey DecidedOnce ApprovedIsApplied
INVARIANTS RulesReachARoot MarksFollowTheText
PROPERTY PastPricesStand
CHECK_DEADLOCK FALSE
