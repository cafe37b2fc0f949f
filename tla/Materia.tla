------------------------------ MODULE Materia ------------------------------
(***************************************************************************)
(* A subject (domain/aggregates/materia_disciplinar.go), its handlers      *)
(* (handlers/materia_disciplinar_handlers.go) and its row (projections/    *)
(* materias_projection.go), in the form of module Turma.                   *)
(***************************************************************************)
LOCAL INSTANCE Sequences
LOCAL INSTANCE FiniteSets

Manter == "manter"    \* nil: a field of an update that is not sent
Nada == "nada"        \* nil in the state
SimNao == {"sim", "nao"}

NewMateriaDisciplinar ==
    [status |-> "nenhum", nome |-> "", type |-> "", periodo |-> Nada,
     pendencia |-> "nao", conclusao |-> Nada]

-----------------------------------------------------------------------------
(* The aggregate *)

\* a deferred pass is a notion of higher education, and allowed by default
Criar(type, pendencia, conclusao) ==
    {ev \in {[tipo |-> "MateriaCriada", nome |-> "n1", type |-> type, conclusao |-> conclusao,
              pendencia |-> IF pendencia # Nada THEN pendencia
                            ELSE IF type = "superior" THEN "sim" ELSE "nao"]} :
        type = "superior" \/ (pendencia = Nada /\ conclusao = Nada)}

Ativar(m) ==
    {ev \in {[tipo |-> "MateriaAtivada"]} :
        m.status # "ativo" /\ ~(m.type = "superior" /\ m.periodo = Nada)}
Desativar(m) == {ev \in {[tipo |-> "MateriaDesativada"]} : m.status # "inativo"}

AtualizarDados(m) ==
    {ev \in [tipo : {"MateriaDadosAtualizados"}, nome : {Manter, "n2"},
             pendencia : {Manter} \cup SimNao, conclusao : {Manter, "1_semestre"}] :
        /\ {ev.nome, ev.pendencia, ev.conclusao} # {Manter}
        /\ m.type # "superior" => ev.pendencia = Manter /\ ev.conclusao = Manter}

DefinirPeriodo(type) ==
    {ev \in {[tipo |-> "MateriaPeriodoDefinido", periodo |-> "1_semestre"]} : type = "superior"}

Deletar(m) == {ev \in {[tipo |-> "MateriaDeletada"]} : m.status \notin {"deletado", "ativo"}}

applyMateriaCriada(m, ev) ==
    [m EXCEPT !.status = "ativo", !.nome = ev.nome, !.type = ev.type,
              !.pendencia = ev.pendencia, !.conclusao = ev.conclusao]
applyMateriaAtivada(m) == [m EXCEPT !.status = "ativo"]
applyMateriaDesativada(m) == [m EXCEPT !.status = "inativo"]
applyMateriaDadosAtualizados(m, ev) ==
    [m EXCEPT !.nome = IF ev.nome = Manter THEN @ ELSE ev.nome,
              !.pendencia = IF ev.pendencia = Manter THEN @ ELSE ev.pendencia,
              !.conclusao = IF ev.conclusao = Manter THEN @ ELSE ev.conclusao]
applyMateriaPeriodoDefinido(m, ev) == [m EXCEPT !.periodo = ev.periodo]
applyMateriaDeletada(m) == [m EXCEPT !.status = "deletado"]

Apply(m, ev) ==
    CASE ev.tipo = "MateriaCriada" -> applyMateriaCriada(m, ev)
      [] ev.tipo = "MateriaAtivada" -> applyMateriaAtivada(m)
      [] ev.tipo = "MateriaDesativada" -> applyMateriaDesativada(m)
      [] ev.tipo = "MateriaDadosAtualizados" -> applyMateriaDadosAtualizados(m, ev)
      [] ev.tipo = "MateriaPeriodoDefinido" -> applyMateriaPeriodoDefinido(m, ev)
      [] ev.tipo = "MateriaDeletada" -> applyMateriaDeletada(m)

-----------------------------------------------------------------------------
(* The handlers.  The row is found by its id, deleted or not.               *)

GetByID(l) == l.status # "nenhum"

\* "" : the request is refused
resolverTipoMateria(nivel, nivelEscolar, type) ==
    CASE nivel = "superior" -> "superior"
      [] nivel = "escola" /\ nivelEscolar = "misto" ->
            IF type \in {"fundamental", "medio"} THEN type ELSE ""
      [] OTHER -> nivelEscolar

validarPendenciaNivelConclusao(type, conclusao) == conclusao # Nada => type = "superior"

(* A subject of higher education is saved with its semester: two events.    *)
CriarMateria(m) ==
    IF m # NewMateriaDisciplinar THEN {}
    ELSE UNION {
        LET type == resolverTipoMateria(r.nivel, r.nivelEscolar, r.type) IN
        {<<ev>> \o p : ev \in {v \in Criar(type, r.pendencia, r.conclusao) :
                                 type # "" /\ validarPendenciaNivelConclusao(type, r.conclusao)},
                       p \in IF type = "superior" THEN {<<d>> : d \in DefinirPeriodo(type)}
                             ELSE {<<>>}} :
        r \in [nivel : {"escola", "superior"}, nivelEscolar : {"fundamental", "medio", "misto"},
               type : {"fundamental", "medio", Nada}, pendencia : {Nada} \cup SimNao,
               conclusao : {Nada, "1_semestre"}]}

AtivarMateria(m, l) == {<<ev>> : ev \in {v \in Ativar(m) : GetByID(l)}}
DesativarMateria(m, l) == {<<ev>> : ev \in {v \in Desativar(m) : GetByID(l)}}
AtualizarDadosMateria(m, l) == {<<ev>> : ev \in {v \in AtualizarDados(m) : GetByID(l)}}

(* Also what DeletarCurso does to the subjects of a course.                 *)
DeletarMateria(m, l) == {<<ev>> : ev \in {v \in Deletar(m) : GetByID(l)}}

Pedidos(m, l) ==
    CriarMateria(m) \cup AtivarMateria(m, l) \cup DesativarMateria(m, l)
      \cup AtualizarDadosMateria(m, l) \cup DeletarMateria(m, l)

-----------------------------------------------------------------------------
(* The row.  It also has a deleted_at, which a new activation leaves there. *)

(* The academy is projected first: until then the event is tried again.     *)
applyMateriaCriadaLinha(l, ev) ==
    IF l.status # "nenhum" THEN l
    ELSE [status |-> "ativo", nome |-> ev.nome, type |-> ev.type, periodo |-> Nada,
          pendencia |-> ev.pendencia, conclusao |-> ev.conclusao]
handleStatusChange(l, status) == [l EXCEPT !.status = status]
handleMateriaDadosAtualizados(l, ev) ==
    [c \in DOMAIN l |-> IF c \in {"nome", "pendencia", "conclusao"} /\ ev[c] # Manter
                        THEN ev[c] ELSE l[c]]
handleMateriaPeriodoDefinido(l, ev) == [l EXCEPT !.periodo = ev.periodo]
handleMateriaDeletada(l) == [l EXCEPT !.status = "deletado"]

Handle(l, ev) ==
    CASE ev.tipo = "MateriaCriada" -> applyMateriaCriadaLinha(l, ev)
      [] ev.tipo = "MateriaAtivada" -> handleStatusChange(l, "ativo")
      [] ev.tipo = "MateriaDesativada" -> handleStatusChange(l, "inativo")
      [] ev.tipo = "MateriaDadosAtualizados" -> handleMateriaDadosAtualizados(l, ev)
      [] ev.tipo = "MateriaPeriodoDefinido" -> handleMateriaPeriodoDefinido(l, ev)
      [] ev.tipo = "MateriaDeletada" -> handleMateriaDeletada(l)
=============================================================================
