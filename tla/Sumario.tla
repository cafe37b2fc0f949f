------------------------------ MODULE Sumario ------------------------------
(***************************************************************************)
(* The summary of a lesson (domain/aggregates/sumario.go), its handlers    *)
(* (handlers/sumario_handlers.go) and its row (projections/                *)
(* sumarios_projection.go), in the form of module Turma.  The row also     *)
(* counts its changes, and counts again when an event is handled twice.    *)
(***************************************************************************)
LOCAL INSTANCE Sequences

Manter == "manter"    \* nil: a field of an update that is not sent

NewSumario == [titulo |-> "", descricao |-> "", nivel |-> "", curso |-> FALSE,
               deletado |-> FALSE]

-----------------------------------------------------------------------------
(* The aggregate *)

\* a course exactly when the level is not the elementary one
Criar ==
    {ev \in [tipo : {"SumarioCriado"}, titulo : {"t1"}, descricao : {"", "d1"},
             nivel : {"fundamental", "medio", "superior"}, curso : BOOLEAN] :
        ev.curso = (ev.nivel # "fundamental")}

AtualizarDados(s) ==
    {ev \in [tipo : {"SumarioDadosAtualizados"}, titulo : {Manter, "t2"},
             descricao : {Manter, "", "d2"}] :
        ~s.deletado /\ {ev.titulo, ev.descricao} # {Manter}}
Deletar(s) == {ev \in {[tipo |-> "SumarioDeletado"]} : ~s.deletado}

Apply(s, ev) ==
    CASE ev.tipo = "SumarioCriado" ->
            [s EXCEPT !.titulo = ev.titulo, !.descricao = ev.descricao, !.nivel = ev.nivel,
                      !.curso = ev.curso]
      [] ev.tipo = "SumarioDadosAtualizados" ->
            [s EXCEPT !.titulo = IF ev.titulo = Manter THEN @ ELSE ev.titulo,
                      !.descricao = IF ev.descricao = Manter THEN @ ELSE ev.descricao]
      [] ev.tipo = "SumarioDeletado" -> [s EXCEPT !.deletado = TRUE]

-----------------------------------------------------------------------------
(* The handlers find the row by its id, deleted or not.                     *)

GetByID(l) == l # NewSumario

CriarSumario(s) == {<<ev>> : ev \in {v \in Criar : s = NewSumario}}
AtualizarDadosSumario(s, l) == {<<ev>> : ev \in {v \in AtualizarDados(s) : GetByID(l)}}
DeletarSumario(s, l) == {<<ev>> : ev \in {v \in Deletar(s) : GetByID(l)}}

Pedidos(s, l) == CriarSumario(s) \cup AtualizarDadosSumario(s, l) \cup DeletarSumario(s, l)

-----------------------------------------------------------------------------
(* The row *)

handleSumarioCriado(l, ev) ==
    IF GetByID(l) THEN l
    ELSE [c \in DOMAIN l |-> IF c = "deletado" THEN FALSE ELSE ev[c]]
handleSumarioDadosAtualizados(l, ev) ==
    [c \in DOMAIN l |-> IF c \in {"titulo", "descricao"} /\ ev[c] # Manter THEN ev[c] ELSE l[c]]
handleSumarioDeletado(l) == [l EXCEPT !.deletado = TRUE]

Handle(l, ev) ==
    CASE ev.tipo = "SumarioCriado" -> handleSumarioCriado(l, ev)
      [] ev.tipo = "SumarioDadosAtualizados" -> handleSumarioDadosAtualizados(l, ev)
      [] ev.tipo = "SumarioDeletado" -> handleSumarioDeletado(l)
=============================================================================
