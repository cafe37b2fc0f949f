------------------------------- MODULE Turma -------------------------------
(***************************************************************************)
(* A class of an academy (domain/aggregates/turma.go), the handlers that   *)
(* change it (handlers/turmas_handler.go) and its row in the read model    *)
(* (projections/turmas_projection.go), as operators on the loaded          *)
(* aggregate t, the row l and an event.                                    *)
(*                                                                         *)
(* A command is the set of the events it may raise, none when it refuses;  *)
(* a handler is a command behind the checks of its own, and the value is a *)
(* set of batches: what one save appends.                                  *)
(*                                                                         *)
(* The row also handles an event that is not of the class: the assessment  *)
(* that passes a student of it, or of another class, to the next level.    *)
(***************************************************************************)
LOCAL INSTANCE Sequences

Alunos == {"e1", "e2"}
NivelGruposTrabalho == "4_ano_medio"
Niveis == {NivelGruposTrabalho, "outro"}
SemTema == ""
SemProximo == "nenhum"    \* a student who has no next level, or none the academy teaches
Avaliacao == "AvaliacaoFinalEscolar"
Manter == "manter"    \* nil: a field of an update that is not sent

NewTurma == [status |-> "nenhum", nivel |-> "outro", tema |-> SemTema, estudantes |-> {},
             historico |-> FALSE, apagada |-> FALSE]

-----------------------------------------------------------------------------
(* The aggregate *)

normalizarTemaTrabalho(nivel, tema) == tema # SemTema => nivel = NivelGruposTrabalho

Criar == {ev \in [tipo : {"TurmaCriada"}, nivel : Niveis, tema : {SemTema, "tema"}] :
             normalizarTemaTrabalho(ev.nivel, ev.tema)}

Ativar(t) == {ev \in {[tipo |-> "TurmaAtivada"]} : t.status # "ativo"}
Desativar(t) == {ev \in {[tipo |-> "TurmaDesativada"]} : t.status # "inativo"}

AdicionarEstudanteNoAnoLectivo(t) ==
    [tipo : {"EstudanteAdicionadoATurma"}, e : Alunos \ t.estudantes]

RemoverEstudanteNoAnoLectivo(t) ==
    [tipo : {"EstudanteRemovidoDaTurma"}, e : t.estudantes]

temHistoricoLetivo(t) == t.historico
nivelAlterado(atual, novo) == novo \notin {Manter, atual}

(* A class that leaves the level of the work groups loses its theme.        *)
AtualizarDados(t) ==
    {ev \in [tipo : {"TurmaDadosAtualizados"}, nivel : Niveis \cup {Manter},
             tema : {Manter, SemTema, "tema"}] :
        LET nivel == IF ev.nivel = Manter THEN t.nivel ELSE ev.nivel IN
        /\ ~(temHistoricoLetivo(t) /\ nivelAlterado(t.nivel, ev.nivel))
        /\ ev.tema # Manter => normalizarTemaTrabalho(nivel, ev.tema)
        /\ ev.tema = Manter => t.tema = SemTema \/ nivel = NivelGruposTrabalho}

Deletar(t) ==
    {ev \in {[tipo |-> "TurmaDeletada"]} :
        t.status \notin {"deletado", "ativo"} /\ t.estudantes = {}}

applyTurmaCriada(t, ev) == [t EXCEPT !.status = "ativo", !.nivel = ev.nivel, !.tema = ev.tema]
applyTurmaStatusChange(t, novoStatus) == [t EXCEPT !.status = novoStatus]
applyEstudanteAdicionado(t, ev) ==
    [t EXCEPT !.estudantes = @ \cup {ev.e}, !.historico = TRUE]
applyEstudanteRemovido(t, ev) == [t EXCEPT !.estudantes = @ \ {ev.e}]
applyTurmaDadosAtualizados(t, ev) ==
    [t EXCEPT !.nivel = IF ev.nivel = Manter THEN @ ELSE ev.nivel,
              !.tema = IF ev.tema = Manter THEN @ ELSE ev.tema]
applyTurmaDeletada(t) == [t EXCEPT !.status = "deletado", !.apagada = TRUE]

Apply(t, ev) ==
    CASE ev.tipo = "TurmaCriada" -> applyTurmaCriada(t, ev)
      [] ev.tipo = "TurmaAtivada" -> applyTurmaStatusChange(t, "ativo")
      [] ev.tipo = "TurmaDesativada" -> applyTurmaStatusChange(t, "inativo")
      [] ev.tipo = "EstudanteAdicionadoATurma" -> applyEstudanteAdicionado(t, ev)
      [] ev.tipo = "EstudanteRemovidoDaTurma" -> applyEstudanteRemovido(t, ev)
      [] ev.tipo = "TurmaDadosAtualizados" -> applyTurmaDadosAtualizados(t, ev)
      [] ev.tipo = "TurmaDeletada" -> applyTurmaDeletada(t)
      [] ev.tipo = Avaliacao -> t    \* of the stream of the student: never loaded

-----------------------------------------------------------------------------
(* The handlers: they find the class by its code, among the rows without a  *)
(* deleted_at.                                                              *)

GetByCodigoTurma(l) == l.status # "nenhum" /\ ~l.apagada

CriarTurma(t) == {<<ev>> : ev \in {v \in Criar : t = NewTurma}}
AtivarTurma(t, l) == {<<ev>> : ev \in {v \in Ativar(t) : GetByCodigoTurma(l)}}
DesativarTurma(t, l) == {<<ev>> : ev \in {v \in Desativar(t) : GetByCodigoTurma(l)}}

(* The level and the course of the student fit the class, and no other      *)
(* class lists the student: as the read models have it, so either way.      *)
vincularEstudanteATurma(t, l) ==
    {<<ev>> : ev \in {v \in AdicionarEstudanteNoAnoLectivo(t) :
                         GetByCodigoTurma(l) /\ l.status = "ativo"}}
RemoverEstudanteDaTurma(t, l) ==
    {<<ev>> : ev \in {v \in RemoverEstudanteNoAnoLectivo(t) : GetByCodigoTurma(l)}}

(* The members of the row must fit a new level; the history of the row      *)
(* counts as the aggregate's.                                               *)
validarCompatibilidadeTurmaComEstudantes(l, ev) ==
    ev.nivel = Manter \/ l.estudantes = {} \/ ev.nivel = l.nivel

AtualizarTurma(t, l) ==
    {<<ev>> : ev \in {v \in AtualizarDados([t EXCEPT !.historico = @ \/ l.historico]) :
                         /\ GetByCodigoTurma(l)
                         /\ validarCompatibilidadeTurmaComEstudantes(l, v)}}
DeletarTurma(t, l) == {<<ev>> : ev \in {v \in Deletar(t) : GetByCodigoTurma(l)}}

(* A student who passes leaves the classes that list the student, this one  *)
(* or another, for a class of the next level.                               *)
RegistrarAvaliacaoFinal(l) ==
    {<<ev>> : ev \in {v \in [tipo : {Avaliacao}, e : Alunos, origem : BOOLEAN,
                             proximo : Niveis \cup {SemProximo}] :
                         /\ GetByCodigoTurma(l) /\ v.origem = (v.e \in l.estudantes)
                         /\ v.origem \/ v.proximo # SemProximo}}

Pedidos(t, l) ==
    CriarTurma(t) \cup AtivarTurma(t, l) \cup DesativarTurma(t, l)
      \cup vincularEstudanteATurma(t, l) \cup RemoverEstudanteDaTurma(t, l)
      \cup AtualizarTurma(t, l) \cup DeletarTurma(t, l) \cup RegistrarAvaliacaoFinal(l)

-----------------------------------------------------------------------------
(* The row.  An update of a class without a row changes nothing.            *)

handleTurmaCriada(l, ev) ==
    [l EXCEPT !.status = IF @ = "nenhum" THEN "ativo" ELSE @,
              !.nivel = ev.nivel, !.tema = ev.tema]
handleTurmaAtivada(l) == [l EXCEPT !.status = "ativo"]
handleTurmaDesativada(l) == [l EXCEPT !.status = "inativo"]
handleEstudanteAdicionado(l, ev) == [l EXCEPT !.estudantes = @ \cup {ev.e}, !.historico = TRUE]
handleEstudanteRemovido(l, ev) == [l EXCEPT !.estudantes = @ \ {ev.e}]
handleTurmaAtualizada(l, ev) ==
    [l EXCEPT !.nivel = IF ev.nivel = Manter THEN @ ELSE ev.nivel,
              !.tema = IF ev.tema = Manter THEN @ ELSE ev.tema]
handleTurmaDeletada(l) == [l EXCEPT !.status = "deletado", !.apagada = TRUE]

(* Of the classes of the next level that are not deleted, the projection    *)
(* chooses one; it fails, and the event waits, when there is none.          *)
handleAvaliacaoFinalAnoAcademico(l, ev, escolhida) ==
    LET sai == ev.origem /\ GetByCodigoTurma(l)
        entra == escolhida /\ ev.proximo = l.nivel /\ GetByCodigoTurma(l)
        ficam == IF sai THEN l.estudantes \ {ev.e} ELSE l.estudantes
    IN  [l EXCEPT !.estudantes = IF entra THEN ficam \cup {ev.e} ELSE ficam,
                  !.historico = IF sai THEN TRUE ELSE @]

Handle(l, ev, escolhida) ==
    CASE ev.tipo = "TurmaCriada" -> handleTurmaCriada(l, ev)
      [] ev.tipo = "TurmaAtivada" -> handleTurmaAtivada(l)
      [] ev.tipo = "TurmaDesativada" -> handleTurmaDesativada(l)
      [] ev.tipo = "EstudanteAdicionadoATurma" -> handleEstudanteAdicionado(l, ev)
      [] ev.tipo = "EstudanteRemovidoDaTurma" -> handleEstudanteRemovido(l, ev)
      [] ev.tipo = "TurmaDadosAtualizados" -> handleTurmaAtualizada(l, ev)
      [] ev.tipo = "TurmaDeletada" -> handleTurmaDeletada(l)
      [] ev.tipo = Avaliacao -> handleAvaliacaoFinalAnoAcademico(l, ev, escolhida)

(* The row is what the class t is, but for students an assessment moved.    *)
Mesma(t, l, movidos) ==
    /\ DOMAIN l = DOMAIN t
    /\ \A campo \in DOMAIN t \ {"estudantes", "historico"} : l[campo] = t[campo]
    /\ l.estudantes \ movidos = t.estudantes \ movidos
    /\ l.historico = t.historico \/ (l.historico = TRUE /\ movidos # {})
=============================================================================
