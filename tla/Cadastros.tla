----------------------------- MODULE Cadastros -----------------------------
(***************************************************************************)
(* The registers: a student, an academy, an administrator, a course, a     *)
(* subject, a class, a category of services, a document to ask for, a      *)
(* summary, a limit of absences, a sender of messages, a message.  Each    *)
(* has an aggregate, whose state is what its stream adds up to, and a row  *)
(* of a read model, which another fold over the same events keeps (modules *)
(* Estudante, Academia, ...).                                              *)
(*                                                                         *)
(* A handler reads the row, loads the aggregate, decides, and some time    *)
(* later appends what it decided to whatever the stream has become (see    *)
(* Ledger): so an aggregate meets events it would have refused.  The       *)
(* projection applies the events later, in order, and again when it stops  *)
(* before its checkpoint (see Projections).                                *)
(***************************************************************************)
EXTENDS Integers, Sequences, SequencesExt

CONSTANTS
    Tipos,        \* the kinds of register of the instance
    MaxEmCurso    \* bound: batches decided or events saved, not yet projected

VARIABLES
    tipo,     \* the kind of this register
    estado,   \* the aggregate, as loading its stream gives it
    fila,     \* the events saved and not yet projected
    linha,    \* the row
    pedidos,  \* the batches that handlers in progress will append
    movidos   \* history: the students of the class that an assessment moved

cadastroVars == <<tipo, estado, fila, linha, pedidos, movidos>>

T == INSTANCE Turma
C == INSTANCE Curso
M == INSTANCE Materia
D == INSTANCE Admin
A == INSTANCE Academia
E == INSTANCE Estudante
G == INSTANCE CategoriaServico
X == INSTANCE DocumentoExtra
S == INSTANCE Sumario
L == INSTANCE FaltasConfiguracao
R == INSTANCE Comunicacao

\* the kinds whose id is fixed by what they are about
ComIdFixo == {"faltas", "remetente"}

Novo(k) ==
    CASE k = "turma" -> T!NewTurma
      [] k = "curso" -> C!NewCurso
      [] k = "materia" -> M!NewMateriaDisciplinar
      [] k = "admin" -> D!NewAdmin
      [] k = "academia" -> A!NewAcademia
      [] k = "estudante" -> E!NewEstudante
      [] k = "categoria" -> G!NewCategoriaServico
      [] k = "documento" -> X!NewDocumentoExtra
      [] k = "sumario" -> S!NewSumario
      [] k = "faltas" -> L!NewConfiguracaoFaltas
      [] k = "remetente" -> R!NewRemetenteComunicacao
      [] k = "mensagem" -> R!NewMensagemComunicacao

Apply(e, ev) ==
    CASE tipo = "turma" -> T!Apply(e, ev)
      [] tipo = "curso" -> C!Apply(e, ev)
      [] tipo = "materia" -> M!Apply(e, ev)
      [] tipo = "admin" -> D!Apply(e, ev)
      [] tipo = "academia" -> A!Apply(e, ev)
      [] tipo = "estudante" -> E!Apply(e, ev)
      [] tipo = "categoria" -> G!Apply(e, ev)
      [] tipo = "documento" -> X!Apply(e, ev)
      [] tipo = "sumario" -> S!Apply(e, ev)
      [] tipo = "faltas" -> L!Apply(e, ev)
      [] tipo = "remetente" -> R!applyConfigurado(e, ev)
      [] tipo = "mensagem" -> R!applyRegistrada(e, ev)

Handle(l, ev, escolhida) ==
    CASE tipo = "turma" -> T!Handle(l, ev, escolhida)
      [] tipo = "curso" -> C!Handle(l, ev)
      [] tipo = "materia" -> M!Handle(l, ev)
      [] tipo = "admin" -> D!Handle(l, ev)
      [] tipo = "academia" -> A!Handle(l, ev)
      [] tipo = "estudante" -> E!Handle(l, ev)
      [] tipo = "categoria" -> G!Handle(l, ev)
      [] tipo = "documento" -> X!Handle(l, ev)
      [] tipo = "sumario" -> S!Handle(l, ev)
      [] tipo = "faltas" -> L!definida(l, ev)
      [] tipo = "remetente" -> R!configurado(l, ev)
      [] tipo = "mensagem" -> R!registrada(l, ev)

Decisoes ==
    CASE tipo = "turma" -> T!Pedidos(estado, linha)
      [] tipo = "curso" -> C!Pedidos(estado, linha)
      [] tipo = "materia" -> M!Pedidos(estado, linha)
      [] tipo = "admin" -> D!Pedidos(estado, linha)
      [] tipo = "academia" -> A!Pedidos(estado, linha)
      [] tipo = "estudante" -> E!Pedidos(estado, linha)
      [] tipo = "categoria" -> G!Pedidos(estado)
      [] tipo = "documento" -> X!Pedidos(estado)
      [] tipo = "sumario" -> S!Pedidos(estado, linha)
      [] tipo = "faltas" -> L!DefinirConfiguracaoFaltas
      [] tipo = "remetente" -> R!CriarRemetenteComunicacao
      [] tipo = "mensagem" -> R!EnviarMensagemComunicacao(estado)

-----------------------------------------------------------------------------
EmCurso == Len(fila) + Len(pedidos)

(* A handler reads and decides.  The id of a new register is the handler's. *)
Pedir ==
    /\ EmCurso < MaxEmCurso
    /\ estado = Novo(tipo) /\ tipo \notin ComIdFixo => pedidos = <<>>
    /\ \E lote \in Decisoes : pedidos' = Append(pedidos, lote)
    /\ UNCHANGED <<tipo, estado, fila, linha, movidos>>

(* The events of a batch that are of the stream of a student, not of this.  *)
Alheios(lote) == {ev \in Range(lote) : tipo = "turma" /\ ev.tipo = T!Avaliacao}

(* Repository.Save: the batch goes to the end of the stream, unchecked.     *)
Gravar ==
    /\ \E i \in DOMAIN pedidos :
          /\ estado' = FoldLeft(Apply, estado, pedidos[i])
          /\ fila' = fila \o pedidos[i]
          /\ pedidos' = RemoveAt(pedidos, i)
          /\ movidos' = movidos \cup {ev.e : ev \in Alheios(pedidos[i])}
    /\ UNCHANGED <<tipo, linha>>

(* A check on another read model refuses, the save fails, the process ends. *)
Desistir ==
    /\ \E i \in DOMAIN pedidos : pedidos' = RemoveAt(pedidos, i)
    /\ UNCHANGED <<tipo, estado, fila, linha, movidos>>

(* The projection handles the next event, and its checkpoint may be lost.   *)
Projetar ==
    /\ fila # <<>>
    /\ \E escolhida \in BOOLEAN : linha' = Handle(linha, Head(fila), escolhida)
    /\ fila' \in {fila, Tail(fila)}
    /\ UNCHANGED <<tipo, estado, pedidos, movidos>>

Init ==
    /\ tipo \in Tipos
    /\ estado = Novo(tipo) /\ linha = Novo(tipo)
    /\ fila = <<>> /\ pedidos = <<>> /\ movidos = {}

Next == Pedir \/ Gravar \/ Desistir \/ Projetar

Spec == Init /\ [][Next]_cadastroVars

-----------------------------------------------------------------------------
TypeOK == tipo \in Tipos /\ EmCurso <= 2 * MaxEmCurso /\ DOMAIN linha = DOMAIN estado

(* Two programs read every stream: the aggregate's Apply and the read       *)
(* model's Handle.  When the projection has nothing left to do they agree,  *)
(* although overlapping handlers appended events that no command would      *)
(* raise in the state they met, and events were handled twice.  The row of  *)
(* a class differs only about students that an assessment moved: it puts    *)
(* them in a class or out of it, and no event says so to the aggregate      *)
(* (turmas_projection.go, handleAvaliacaoFinalAnoAcademico).                *)
Igual(e, l, alunos) == IF tipo = "turma" THEN T!Mesma(e, l, alunos) ELSE l = e
RowsAgree == fila = <<>> => Igual(estado, linha, movidos)
=============================================================================
