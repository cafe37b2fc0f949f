-------------------------- MODULE CategoriaServico --------------------------
(***************************************************************************)
(* A category of extra services (domain/aggregates/categoria_servico.go),  *)
(* its handlers (handlers/categoria_servico_handlers.go) and its row       *)
(* (projections/categoria_servico_projection.go), in the form of module    *)
(* Turma.  The names of the other categories and the services that use     *)
(* this one are other rows: what the handlers read there refuses or not.   *)
(***************************************************************************)
LOCAL INSTANCE Sequences

Nomes == {"n1", "n2"}

NewCategoriaServico == [nome |-> "", ativo |-> TRUE, deletado |-> FALSE]

-----------------------------------------------------------------------------
(* The aggregate *)

Criar == [tipo : {"CategoriaServicoCriada"}, nome : Nomes]
Renomear == [tipo : {"CategoriaServicoRenomeada"}, nome : Nomes]
Desativar(c) == {ev \in {[tipo |-> "CategoriaServicoDesativada"]} : c.ativo}
Reativar(c) == {ev \in {[tipo |-> "CategoriaServicoReativada"]} : ~c.ativo}
Deletar(c) == {ev \in {[tipo |-> "CategoriaServicoDeletada"]} : ~c.deletado /\ ~c.ativo}

applyCriada(c, ev) == [c EXCEPT !.nome = ev.nome, !.ativo = TRUE]
applyRenomeada(c, ev) == [c EXCEPT !.nome = ev.nome]
applyDeletada(c) == [c EXCEPT !.deletado = TRUE, !.ativo = FALSE]

Apply(c, ev) ==
    CASE ev.tipo = "CategoriaServicoCriada" -> applyCriada(c, ev)
      [] ev.tipo = "CategoriaServicoRenomeada" -> applyRenomeada(c, ev)
      [] ev.tipo = "CategoriaServicoDesativada" -> [c EXCEPT !.ativo = FALSE]
      [] ev.tipo = "CategoriaServicoReativada" -> [c EXCEPT !.ativo = TRUE]
      [] ev.tipo = "CategoriaServicoDeletada" -> applyDeletada(c)

-----------------------------------------------------------------------------
(* The handlers load the aggregate by its id; its row is not read.  A       *)
(* deleted category can be renamed and made active again.                   *)

loadCategoriaServico(c) == c # NewCategoriaServico

CriarCategoriaServico(c) == {<<ev>> : ev \in {v \in Criar : c = NewCategoriaServico}}
AtualizarCategoriaServico(c) == {<<ev>> : ev \in {v \in Renomear : loadCategoriaServico(c)}}
toggleCategoriaServico(c) ==
    {<<ev>> : ev \in {v \in Desativar(c) \cup Reativar(c) : loadCategoriaServico(c)}}
DeletarCategoriaServico(c) == {<<ev>> : ev \in {v \in Deletar(c) : loadCategoriaServico(c)}}

Pedidos(c) ==
    CriarCategoriaServico(c) \cup AtualizarCategoriaServico(c)
      \cup toggleCategoriaServico(c) \cup DeletarCategoriaServico(c)

-----------------------------------------------------------------------------
(* The row.  A name that another active row has refuses the event.          *)

created(l, ev) == IF l # NewCategoriaServico THEN l ELSE [l EXCEPT !.nome = ev.nome]
renamed(l, ev) == [l EXCEPT !.nome = ev.nome]
active(l, ativo) == [l EXCEPT !.ativo = ativo]
deleted(l) == [l EXCEPT !.deletado = TRUE, !.ativo = FALSE]

Handle(l, ev) ==
    CASE ev.tipo = "CategoriaServicoCriada" -> created(l, ev)
      [] ev.tipo = "CategoriaServicoRenomeada" -> renamed(l, ev)
      [] ev.tipo = "CategoriaServicoDesativada" -> active(l, FALSE)
      [] ev.tipo = "CategoriaServicoReativada" -> active(l, TRUE)
      [] ev.tipo = "CategoriaServicoDeletada" -> deleted(l)
=============================================================================
