--------------------------- MODULE DocumentoExtra ---------------------------
(***************************************************************************)
(* A document an academy asks for besides the usual ones (domain/          *)
(* aggregates/documento_extra.go), its handlers (handlers/                 *)
(* documento_extra_handlers.go) and its row (projections/                  *)
(* documento_extra_projection.go), in the form of module Turma.  The label *)
(* stands for the kind of file and whether it is compulsory as well.       *)
(***************************************************************************)
LOCAL INSTANCE Sequences

AnosEnviados == {{}, {"9_ano_fundamental"}, {"9_ano_fundamental", "9_ano"}}
Rotulos == {"r1", "r2"}

NewDocumentoExtra == [rotulo |-> "", anos |-> {}, ativo |-> TRUE]

-----------------------------------------------------------------------------
(* The aggregate *)

validarAnoAcademicoDocumentoExtra(ano) == ano # "9_ano"

\* one year at least, and each of the form of some level
validarCamposDocumentoExtra(ev) ==
    ev.anos # {} /\ \A ano \in ev.anos : validarAnoAcademicoDocumentoExtra(ano)

Criar ==
    {ev \in [tipo : {"DocumentoExtraCriado"}, rotulo : Rotulos, anos : AnosEnviados] :
        validarCamposDocumentoExtra(ev)}
Atualizar ==
    {ev \in [tipo : {"DocumentoExtraAtualizado"}, rotulo : Rotulos, anos : AnosEnviados] :
        validarCamposDocumentoExtra(ev)}
Desativar(d) == {ev \in {[tipo |-> "DocumentoExtraDesativado"]} : d.ativo}
Reativar(d) == {ev \in {[tipo |-> "DocumentoExtraReativado"]} : ~d.ativo}

applyCriado(d, ev) == [d EXCEPT !.rotulo = ev.rotulo, !.anos = ev.anos, !.ativo = TRUE]
applyAtualizado(d, ev) == [d EXCEPT !.rotulo = ev.rotulo, !.anos = ev.anos]

Apply(d, ev) ==
    CASE ev.tipo = "DocumentoExtraCriado" -> applyCriado(d, ev)
      [] ev.tipo = "DocumentoExtraAtualizado" -> applyAtualizado(d, ev)
      [] ev.tipo = "DocumentoExtraDesativado" -> [d EXCEPT !.ativo = FALSE]
      [] ev.tipo = "DocumentoExtraReativado" -> [d EXCEPT !.ativo = TRUE]

-----------------------------------------------------------------------------
(* The handlers load the aggregate by its id; its row is not read.          *)

loadDocumentoExtra(d) == d # NewDocumentoExtra

CriarDocumentoExtra(d) == {<<ev>> : ev \in {v \in Criar : d = NewDocumentoExtra}}
AtualizarDocumentoExtra(d) == {<<ev>> : ev \in {v \in Atualizar : loadDocumentoExtra(d)}}
toggleDocumentoExtra(d) ==
    {<<ev>> : ev \in {v \in Desativar(d) \cup Reativar(d) : loadDocumentoExtra(d)}}

Pedidos(d) == CriarDocumentoExtra(d) \cup AtualizarDocumentoExtra(d) \cup toggleDocumentoExtra(d)

-----------------------------------------------------------------------------
(* The row.  A label that another active row has refuses the event.         *)

created(l, ev) ==
    IF l # NewDocumentoExtra THEN l
    ELSE [rotulo |-> ev.rotulo, anos |-> ev.anos, ativo |-> TRUE]
updated(l, ev) == [l EXCEPT !.rotulo = ev.rotulo, !.anos = ev.anos]
active(l, ativo) == [l EXCEPT !.ativo = ativo]

Handle(l, ev) ==
    CASE ev.tipo = "DocumentoExtraCriado" -> created(l, ev)
      [] ev.tipo = "DocumentoExtraAtualizado" -> updated(l, ev)
      [] ev.tipo = "DocumentoExtraDesativado" -> active(l, FALSE)
      [] ev.tipo = "DocumentoExtraReativado" -> active(l, TRUE)
=============================================================================
