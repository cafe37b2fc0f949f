------------------------------ MODULE Academia ------------------------------
(***************************************************************************)
(* An academy (domain/aggregates/academia.go), the handlers that change it *)
(* (handlers/academia_handlers.go, anos_academicos_handlers.go and         *)
(* nivel_escolar_handlers.go), those of its own account (module Conta) and *)
(* its row (projections/academia_projection.go), in the form of module     *)
(* Turma.  The years of study it offers and its school years are numbers.  *)
(***************************************************************************)
EXTENDS Conta
LOCAL INSTANCE Integers

Manter == "manter"       \* nil: a field of an update that is not sent
MesmosAnos == {0}        \* nil, for the years
Anos == {1}              \* the years of fundamental education of the instance
AnoGlobal == 1           \* the school year of the whole system
MaxAnoLetivo == 2        \* bound: the last school year
Escolares == {"fundamental", "medio", "misto"}

NewAcademia ==
    [status |-> "nenhum", nome |-> "", email |-> "", senha |-> "", verificado |-> FALSE,
     nivelEscolar |-> "", anos |-> {}, anoLetivo |-> 0, lista |-> {}]

-----------------------------------------------------------------------------
(* The aggregate *)

\* "" : an academy of higher education
validarAnosAcademicos(nivelEscolar, anos) ==
    CASE nivelEscolar \in {"fundamental", "misto"} -> anos # {}
      [] nivelEscolar = "medio" -> anos = {}
      [] OTHER -> TRUE

(* The years of an academy that has no use for them are dropped.            *)
Criar ==
    {ev \in [tipo : {"AcademiaCriada"}, nome : {"n1"}, email : {"a"}, senha : {"s1"},
             nivelEscolar : {"misto", ""}, anos : SUBSET Anos] :
        /\ validarAnosAcademicos(ev.nivelEscolar, ev.anos)
        /\ ev.nivelEscolar = "" => ev.anos = {}}

VerificarEmail(a) == {ev \in {[tipo |-> "EmailVerificado"]} : ~a.verificado}
AtivarComAutor(a) ==
    {ev \in {[tipo |-> "AcademiaAtivada"]} : a.status \notin {"deletado", "ativo"}}
Desativar(a) ==
    {ev \in {[tipo |-> "AcademiaDesativada"]} : a.status \notin {"deletado", "inativo"}}
Deletar(a) == {ev \in {[tipo |-> "AcademiaDeletada"]} : a.status # "deletado"}

(* An update of any state; the event says whether the address changes, as   *)
(* the academy was when it was loaded.  The empty set of years       *)
(* clears them.                                                             *)
AtualizarDados(a, nome, email, nivelEscolar, anos) ==
    {[tipo |-> "AcademiaDadosAtualizados", nome |-> nome, email |-> email,
      nivelEscolar |-> nivelEscolar, anos |-> anos,
      emailAlterado |-> email \notin {Manter, a.email}]}

AlterarSenha == [tipo : {"AcademiaSenhaAlterada"}, senha : {"s2"}]

\* the whole list, as it was loaded, goes into the event
DefinirAnoLetivo(a, ano) ==
    {[tipo |-> "AnoLetivoAcademiaDefinido", ano |-> ano, lista |-> a.lista \cup {ano}]}
FinalizarAnoLetivo(ano) == {[tipo |-> "AnoLetivoAcademiaFinalizado", ano |-> ano]}

applyAcademiaCriada(a, ev) ==
    [a EXCEPT !.status = "inativo", !.nome = ev.nome, !.email = ev.email, !.senha = ev.senha,
              !.verificado = FALSE, !.nivelEscolar = ev.nivelEscolar, !.anos = ev.anos]
applyAcademiaAtivada(a) == [a EXCEPT !.status = "ativo"]
applyAcademiaDesativada(a) == [a EXCEPT !.status = "inativo"]
applyAcademiaDeletada(a) == [a EXCEPT !.status = "deletado"]
\* fault: whether the address changes is found out again when the event is applied
WrongApplyAcademiaDadosAtualizados(a, ev) ==
    [a EXCEPT !.nome = IF ev.nome = Manter THEN @ ELSE ev.nome,
              !.email = IF ev.email = Manter THEN @ ELSE ev.email,
              !.verificado = @ /\ ev.email \in {Manter, a.email},
              !.nivelEscolar = IF ev.nivelEscolar = Manter THEN @ ELSE ev.nivelEscolar,
              !.anos = IF ev.anos = MesmosAnos THEN @ ELSE ev.anos]

applyAcademiaDadosAtualizados(a, ev) ==
    [a EXCEPT !.nome = IF ev.nome = Manter THEN @ ELSE ev.nome,
              !.email = IF ev.email = Manter THEN @ ELSE ev.email,
              !.verificado = @ /\ ~(ev.email # Manter /\ ev.emailAlterado),
              !.nivelEscolar = IF ev.nivelEscolar = Manter THEN @ ELSE ev.nivelEscolar,
              !.anos = IF ev.anos = MesmosAnos THEN @ ELSE ev.anos]
applyEmailVerificado(a) == [a EXCEPT !.verificado = TRUE]
applyAcademiaSenhaAlterada(a, ev) == [a EXCEPT !.senha = ev.senha]
applyAnoLetivoAcademiaDefinido(a, ev) == [a EXCEPT !.anoLetivo = ev.ano, !.lista = ev.lista]

Apply(a, ev) ==
    CASE ev.tipo = "AcademiaCriada" -> applyAcademiaCriada(a, ev)
      [] ev.tipo = "AcademiaAtivada" -> applyAcademiaAtivada(a)
      [] ev.tipo = "AcademiaDesativada" -> applyAcademiaDesativada(a)
      [] ev.tipo = "AcademiaDeletada" -> applyAcademiaDeletada(a)
      [] ev.tipo = "AcademiaDadosAtualizados" -> applyAcademiaDadosAtualizados(a, ev)
      [] ev.tipo = "EmailVerificado" -> applyEmailVerificado(a)
      [] ev.tipo = "AcademiaSenhaAlterada" -> applyAcademiaSenhaAlterada(a, ev)
      [] ev.tipo = "AnoLetivoAcademiaDefinido" -> applyAnoLetivoAcademiaDefinido(a, ev)
      [] ev.tipo = "AnoLetivoAcademiaFinalizado" -> a

-----------------------------------------------------------------------------
(* The handlers.  The row is found by its code or its id, deleted or not.   *)

GetByID(l) == l.status # "nenhum"

(* The administrator's registration and the public one.                     *)
RegisterAcademia(a) == {<<ev>> : ev \in {v \in Criar : a = NewAcademia}}
AtualizarDadosAcademia(a) ==
    {<<ev>> : ev \in AtualizarDados(a, "n2", Manter, Manter, MesmosAnos)}
AtivarAcademia(a, l) == {<<ev>> : ev \in {v \in AtivarComAutor(a) : GetByID(l)}}
DesativarAcademia(a, l) == {<<ev>> : ev \in {v \in Desativar(a) : GetByID(l)}}

(* No student is bound to it in the read model, when that is read.          *)
DeletarAcademia(a, l) ==
    {<<ev>> : ev \in {v \in Deletar(a) : GetByID(l) /\ l.status # "deletado"}}

(* The first school year is the system's; the next come from finalizing.    *)
DefinirAnoLetivoAcademia(a, l) ==
    {<<ev>> : ev \in {v \in DefinirAnoLetivo(a, AnoGlobal) : GetByID(l) /\ l.anoLetivo = 0}}
FinalizarAnoLetivoAcademia(a, l) ==
    {<<fim, ev>> : fim \in FinalizarAnoLetivo(l.anoLetivo),
        ev \in {v \in DefinirAnoLetivo(a, l.anoLetivo + 1) : l.anoLetivo \in 1..(MaxAnoLetivo - 1)}}

combinarAnos(atuais, entrada, op) ==
    IF op = "remove" THEN atuais \ entrada ELSE atuais \cup entrada

(* The new list is made from the row.  Nothing depends on a year removed,   *)
(* in the read models.                                                      *)
alterarAnosFundamental(a, l) ==
    UNION {{<<ev>> : ev \in {v \in AtualizarDados(a, Manter, Manter, Manter,
                                                  combinarAnos(l.anos, {ano}, op)) :
                                /\ l.nivelEscolar \in {"fundamental", "misto"}
                                /\ v.anos # {}}} :
           ano \in Anos, op \in {"add", "remove"}}

(* The years are sent when the school had none and will have some, and are  *)
(* cleared when it will have none.  Nothing depends on a level it leaves.   *)
AtualizarNivelEscolarAcademia(a, l) ==
    UNION {{<<ev>> : ev \in AtualizarDados(a, Manter, Manter, par[1], par[2])} :
              par \in
                 {p \in Escolares \X ((SUBSET Anos) \cup {MesmosAnos}) :
                    /\ l.nivelEscolar \in Escolares \ {p[1]}
                    /\ CASE p[1] = "medio" -> p[2] = {}
                         [] l.nivelEscolar = "medio" -> p[2] \notin {MesmosAnos, {}}
                         [] OTHER -> p[2] = MesmosAnos}}

Pedidos(a, l) ==
    IF a.status = "nenhum" THEN RegisterAcademia(a)
    ELSE AtualizarDadosAcademia(a) \cup AtivarAcademia(a, l) \cup DesativarAcademia(a, l)
           \cup DeletarAcademia(a, l) \cup DefinirAnoLetivoAcademia(a, l)
           \cup FinalizarAnoLetivoAcademia(a, l) \cup alterarAnosFundamental(a, l)
           \cup AtualizarNivelEscolarAcademia(a, l)
           \cup VerificarEmailConta(VerificarEmail(a))
           \cup ResetarSenha(l, AlterarSenha) \cup AlterarSenhaConta(l, AlterarSenha)
           \cup atualizarMeuContato(AtualizarDados(a, Manter, "b", Manter, MesmosAnos))

-----------------------------------------------------------------------------
(* The row.  A second creation under the code would keep the status.        *)

handleAcademiaCriada(l, ev) ==
    [status |-> IF l.status = "nenhum" THEN "inativo" ELSE l.status, nome |-> ev.nome,
     email |-> ev.email, senha |-> ev.senha, verificado |-> l.verificado,
     nivelEscolar |-> ev.nivelEscolar, anos |-> ev.anos, anoLetivo |-> l.anoLetivo,
     lista |-> l.lista]
handleStatusChange(l, novoStatus) == [l EXCEPT !.status = novoStatus]
handleAcademiaDesativada(l) == [l EXCEPT !.status = "inativo"]
handleAcademiaDeletada(l) == [l EXCEPT !.status = "deletado"]
handleAcademiaDadosAtualizados(l, ev) ==
    LET d == [c \in DOMAIN l |->
                 IF \/ c \in {"nome", "email", "nivelEscolar"} /\ ev[c] # Manter
                    \/ c = "anos" /\ ev[c] # MesmosAnos
                 THEN ev[c] ELSE l[c]]
    IN IF ev.emailAlterado THEN [d EXCEPT !.verificado = FALSE] ELSE d
handleEmailVerificado(l) == [l EXCEPT !.verificado = TRUE]
handleAcademiaSenhaAlterada(l, ev) == [l EXCEPT !.senha = ev.senha]
handleAnoLetivoAcademiaDefinido(l, ev) == [l EXCEPT !.anoLetivo = ev.ano, !.lista = ev.lista]

Handle(l, ev) ==
    CASE ev.tipo = "AcademiaCriada" -> handleAcademiaCriada(l, ev)
      [] ev.tipo = "AcademiaAtivada" -> handleStatusChange(l, "ativo")
      [] ev.tipo = "AcademiaDesativada" -> handleAcademiaDesativada(l)
      [] ev.tipo = "AcademiaDeletada" -> handleAcademiaDeletada(l)
      [] ev.tipo = "AcademiaDadosAtualizados" -> handleAcademiaDadosAtualizados(l, ev)
      [] ev.tipo = "EmailVerificado" -> handleEmailVerificado(l)
      [] ev.tipo = "AcademiaSenhaAlterada" -> handleAcademiaSenhaAlterada(l, ev)
      [] ev.tipo = "AnoLetivoAcademiaDefinido" -> handleAnoLetivoAcademiaDefinido(l, ev)
      [] ev.tipo = "AnoLetivoAcademiaFinalizado" -> l   \* a row of another table
=============================================================================
