------------------------------- MODULE Curso -------------------------------
(***************************************************************************)
(* A course of an academy (domain/aggregates/curso.go), its handlers       *)
(* (handlers/cursos_handlers.go) and its row (projections/                 *)
(* cursos_projection.go), in the form of module Turma.  Years and          *)
(* semesters are numbered without gaps, so they are counted.               *)
(***************************************************************************)
LOCAL INSTANCE Integers

Nomes == {"n1", "n2"}
MaxPeriodos == 3      \* bound: semesters of a higher course

NewCurso == [status |-> "nenhum", nome |-> "", type |-> "", modelo |-> "", anos |-> 0,
             periodos |-> 0, apagado |-> FALSE]

-----------------------------------------------------------------------------
(* The academic plan of a course *)

DerivarAnosAcademicosCursoMedio(modelo) == IF modelo = "liceu" THEN 3 ELSE 4
derivarCursoSuperior(periodos) == (periodos + 1) \div 2

(* The years and semesters a request leads to.                              *)
prepararDadosCursoPorTipo(type, modelo, periodos) ==
    IF type = "superior" THEN [anos |-> derivarCursoSuperior(periodos), periodos |-> periodos]
    ELSE [anos |-> DerivarAnosAcademicosCursoMedio(modelo), periodos |-> 0]

validarModeloCurso(type, modelo) ==
    IF type = "medio" THEN modelo \in {"liceu", "tecnico"} ELSE modelo = ""

validarPeriodosCurso(type, periodos, anos) ==
    IF type = "superior" THEN periodos > 0 /\ anos = (periodos + 1) \div 2
    ELSE periodos = 0

normalizarPeriodos(type, periodos) == IF type = "medio" THEN 0 ELSE periodos

(* Courses older than the field have no model.                              *)
normalizarModeloLegado(type, modelo) == IF type = "medio" /\ modelo = "" THEN "liceu" ELSE modelo
modeloCursoParaProjecao(type, modelo) == IF type = "medio" /\ modelo = "" THEN "liceu" ELSE modelo

-----------------------------------------------------------------------------
(* The aggregate *)

Criar(type, modelo, plano) ==
    {ev \in {[tipo |-> "CursoCriado", nome |-> "n1", type |-> type, modelo |-> modelo,
              anos |-> plano.anos, periodos |-> normalizarPeriodos(type, plano.periodos)]} :
        /\ validarModeloCurso(type, modelo)
        /\ validarPeriodosCurso(type, plano.periodos, plano.anos)}

\* of a stream that began before courses had a model
CriadoSemModelo == {[tipo |-> "CursoCriado", nome |-> "n1", type |-> "medio", modelo |-> "",
                     anos |-> 3, periodos |-> 0]}

Ativar(c) == {ev \in {[tipo |-> "CursoAtivado"]} : c.status # "ativo"}
Desativar(c) == {ev \in {[tipo |-> "CursoDesativado"]} : c.status # "inativo"}
AtualizarDados == [tipo : {"CursoDadosAtualizados"}, nome : Nomes]
Deletar(c) == {ev \in {[tipo |-> "CursoDeletado"]} : c.status \notin {"deletado", "ativo"}}

applyCursoCriado(c, ev) ==
    [c EXCEPT !.status = "ativo", !.nome = ev.nome, !.type = ev.type,
              !.modelo = normalizarModeloLegado(ev.type, ev.modelo),
              !.anos = ev.anos, !.periodos = ev.periodos]
applyCursoAtivado(c) == [c EXCEPT !.status = "ativo"]
applyCursoDesativado(c) == [c EXCEPT !.status = "inativo"]
applyCursoDadosAtualizados(c, ev) == [c EXCEPT !.nome = ev.nome]
applyCursoDeletado(c) == [c EXCEPT !.status = "deletado", !.apagado = TRUE]

Apply(c, ev) ==
    CASE ev.tipo = "CursoCriado" -> applyCursoCriado(c, ev)
      [] ev.tipo = "CursoAtivado" -> applyCursoAtivado(c)
      [] ev.tipo = "CursoDesativado" -> applyCursoDesativado(c)
      [] ev.tipo = "CursoDadosAtualizados" -> applyCursoDadosAtualizados(c, ev)
      [] ev.tipo = "CursoDeletado" -> applyCursoDeletado(c)

-----------------------------------------------------------------------------
(* The handlers.  The row is found by its id, deleted or not.               *)

GetByID(l) == l.status # "nenhum"

CriarCurso(c) ==
    IF c # NewCurso THEN {}
    ELSE {<<ev>> : ev \in CriadoSemModelo
              \cup (UNION {Criar("medio", m, prepararDadosCursoPorTipo("medio", m, 0)) :
                              m \in {"liceu", "tecnico"}})
              \cup (UNION {Criar("superior", "", prepararDadosCursoPorTipo("superior", "", n)) :
                              n \in 1..MaxPeriodos})}

\* the request may name nothing but the name
rejeitarCamposAcademicosEmAtualizacaoCurso(ev) == DOMAIN ev = {"tipo", "nome"}

AtualizarDadosCurso(l) ==
    {<<ev>> : ev \in {v \in AtualizarDados :
                         GetByID(l) /\ rejeitarCamposAcademicosEmAtualizacaoCurso(v)}}
AtivarCurso(c, l) == {<<ev>> : ev \in {v \in Ativar(c) : GetByID(l)}}
DesativarCurso(c, l) == {<<ev>> : ev \in {v \in Desativar(c) : GetByID(l)}}

(* No student, no active subject and no active class in the read models;    *)
(* the subjects and the classes are deleted first, each in a save of its    *)
(* own: it may stop between them.                                           *)
DeletarCurso(c, l) ==
    {<<ev>> : ev \in {v \in Deletar(c) : GetByID(l) /\ l.status # "ativo"}}

Pedidos(c, l) ==
    CriarCurso(c) \cup AtualizarDadosCurso(l) \cup AtivarCurso(c, l)
      \cup DesativarCurso(c, l) \cup DeletarCurso(c, l)

-----------------------------------------------------------------------------
(* The row *)

handleCursoCriado(l, ev) ==
    IF l.status # "nenhum" THEN l
    ELSE [status |-> "ativo", nome |-> ev.nome, type |-> ev.type,
          modelo |-> modeloCursoParaProjecao(ev.type, ev.modelo), anos |-> ev.anos,
          periodos |-> ev.periodos, apagado |-> FALSE]
handleCursoDadosAtualizados(l, ev) == [l EXCEPT !.nome = ev.nome]
handleCursoDeletado(l) == [l EXCEPT !.status = "deletado", !.apagado = TRUE]
handleCursoAtivado(l) == [l EXCEPT !.status = "ativo"]
handleCursoDesativado(l) == [l EXCEPT !.status = "inativo"]

Handle(l, ev) ==
    CASE ev.tipo = "CursoCriado" -> handleCursoCriado(l, ev)
      [] ev.tipo = "CursoAtivado" -> handleCursoAtivado(l)
      [] ev.tipo = "CursoDesativado" -> handleCursoDesativado(l)
      [] ev.tipo = "CursoDadosAtualizados" -> handleCursoDadosAtualizados(l, ev)
      [] ev.tipo = "CursoDeletado" -> handleCursoDeletado(l)
=============================================================================
