------------------------------- MODULE Admin -------------------------------
(***************************************************************************)
(* An administrator (domain/aggregates/admin.go), the handlers that change *)
(* one (handlers/admin_handlers.go), those of its own account (module      *)
(* Conta) and its row (projections/admin_projection.go), in the form of    *)
(* module Turma.  The actions an administrator performs are counted by     *)
(* both programs and the count is left out: the row's grows again when an  *)
(* event is handled twice.                                                 *)
(***************************************************************************)
EXTENDS Conta
LOCAL INSTANCE Integers

Manter == "manter"    \* nil: a field of an update that is not sent

adminHierarchy == [fpp |-> 3, adm |-> 2, gerente |-> 1]
Roles == DOMAIN adminHierarchy

NewAdmin == [status |-> "nenhum", nome |-> "", email |-> "", role |-> "", senha |-> "",
             verificado |-> FALSE]

-----------------------------------------------------------------------------
(* The aggregate *)

Criar == [tipo : {"AdminCriado"}, nome : {"n1"}, email : Emails, senha : {"s1"}, role : Roles]

VerificarEmail(a) == {ev \in {[tipo |-> "EmailVerificado"]} : ~a.verificado}
Ativar(a) == {ev \in {[tipo |-> "AdminAtivado"]} : a.status \notin {"deletado", "ativo"}}
Desativar(a) == {ev \in {[tipo |-> "AdminDesativado"]} : a.status \notin {"deletado", "inativo"}}
Deletar(a) == {ev \in {[tipo |-> "AdminDeletado"]} : a.status # "deletado"}
RegistrarAcao(a) == {ev \in {[tipo |-> "AcaoAdminRegistrada"]} : a.status = "ativo"}

(* Whether the address changes is decided here, and the event carries it.   *)
AtualizarDados(a) ==
    {ev \in [tipo : {"AdminDadosAtualizados"}, nome : {Manter, "n2"},
             email : Emails \cup {Manter}, emailAlterado : BOOLEAN] :
        /\ a.status = "ativo"
        /\ {ev.nome, ev.email} # {Manter}
        /\ ev.emailAlterado = (ev.email \notin {Manter, a.email})}

AtualizarRole(a, updatedByRole) ==
    {ev \in [tipo : {"AdminRoleAtualizado"}, role : Roles \ {a.role}] :
        a.status = "ativo" /\ updatedByRole = "fpp"}
AlterarSenha(a) == {ev \in [tipo : {"AdminSenhaAlterada"}, senha : Senhas] : a.status = "ativo"}

(* Some administrator outranks the target.                                  *)
ValidatePermission(targetRole) ==
    \E r \in Roles : adminHierarchy[r] > adminHierarchy[targetRole]

applyAdminCriado(a, ev) ==
    [a EXCEPT !.status = "ativo", !.nome = ev.nome, !.email = ev.email, !.role = ev.role,
              !.senha = ev.senha, !.verificado = FALSE]
applyEmailVerificado(a) == [a EXCEPT !.verificado = TRUE]
applyAdminAtivado(a) == [a EXCEPT !.status = "ativo"]
applyAdminDesativado(a) == [a EXCEPT !.status = "inativo"]
applyAdminDeletado(a) == [a EXCEPT !.status = "deletado"]
applyAdminDadosAtualizados(a, ev) ==
    [a EXCEPT !.nome = IF ev.nome = Manter THEN @ ELSE ev.nome,
              !.email = IF ev.email = Manter THEN @ ELSE ev.email,
              !.verificado = @ /\ ~(ev.email # Manter /\ ev.emailAlterado)]
applyAdminRoleAtualizado(a, ev) == [a EXCEPT !.role = ev.role]
applyAdminSenhaAlterada(a, ev) == [a EXCEPT !.senha = ev.senha]

Apply(a, ev) ==
    CASE ev.tipo = "AdminCriado" -> applyAdminCriado(a, ev)
      [] ev.tipo = "EmailVerificado" -> applyEmailVerificado(a)
      [] ev.tipo = "AdminAtivado" -> applyAdminAtivado(a)
      [] ev.tipo = "AdminDesativado" -> applyAdminDesativado(a)
      [] ev.tipo = "AdminDeletado" -> applyAdminDeletado(a)
      [] ev.tipo = "AcaoAdminRegistrada" -> a
      [] ev.tipo = "AdminDadosAtualizados" -> applyAdminDadosAtualizados(a, ev)
      [] ev.tipo = "AdminRoleAtualizado" -> applyAdminRoleAtualizado(a, ev)
      [] ev.tipo = "AdminSenhaAlterada" -> applyAdminSenhaAlterada(a, ev)

-----------------------------------------------------------------------------
(* The handlers.  The target is loaded by its id; its row is not read.      *)

RegisterAdmin(a) == {<<ev>> : ev \in {v \in Criar : a = NewAdmin}}
AtivarAdmin(a) == {<<ev>> : ev \in {v \in Ativar(a) : ValidatePermission(a.role)}}
DesativarAdmin(a) == {<<ev>> : ev \in {v \in Desativar(a) : ValidatePermission(a.role)}}
DeletarAdmin(a) == {<<ev>> : ev \in {v \in Deletar(a) : ValidatePermission(a.role)}}
AtualizarRoleAdmin(a) ==
    {<<ev>> : ev \in {v \in UNION {AtualizarRole(a, r) : r \in Roles} :
                         ValidatePermission(a.role)}}

\* one may rename oneself, so the rank does not matter
AtualizarDadosAdmin(a) == {<<ev>> : ev \in {v \in AtualizarDados(a) : v.email = Manter}}

\* after each of the above, on the stream of who did it
registrarAcaoAdmin(a) == {<<ev>> : ev \in RegistrarAcao(a)}

Pedidos(a, l) ==
    IF a.status = "nenhum" THEN RegisterAdmin(a)
    ELSE AtivarAdmin(a) \cup DesativarAdmin(a) \cup DeletarAdmin(a)
           \cup AtualizarRoleAdmin(a) \cup AtualizarDadosAdmin(a) \cup registrarAcaoAdmin(a)
           \cup VerificarEmailConta(VerificarEmail(a))
           \cup ResetarSenha(l, AlterarSenha(a)) \cup AlterarSenhaConta(l, AlterarSenha(a))
           \cup atualizarMeuContato({v \in AtualizarDados(a) : v.nome = Manter})

-----------------------------------------------------------------------------
(* The row.  An address that another row has refuses the event; addresses   *)
(* are this one's own here.                                                 *)

handleAdminCriado(l, ev) ==
    IF l.status # "nenhum" THEN l
    ELSE [status |-> "ativo", nome |-> ev.nome, email |-> ev.email, role |-> ev.role,
          senha |-> ev.senha, verificado |-> FALSE]
handleStatusChange(l, status) == [l EXCEPT !.status = status]
handleAdminDeletado(l) == [l EXCEPT !.status = IF @ # "deletado" THEN "deletado" ELSE @]
handleAdminDadosAtualizados(l, ev) ==
    LET n == IF ev.nome = Manter THEN l ELSE [l EXCEPT !.nome = ev.nome]
        e == IF ev.email = Manter THEN n ELSE [n EXCEPT !.email = ev.email]
    IN IF ev.email # Manter /\ ev.emailAlterado THEN [e EXCEPT !.verificado = FALSE] ELSE e
handleAdminRoleAtualizado(l, ev) == [l EXCEPT !.role = ev.role]
handleEmailVerificado(l) == [l EXCEPT !.verificado = TRUE]
handleAdminSenhaAlterada(l, ev) == [l EXCEPT !.senha = ev.senha]

Handle(l, ev) ==
    CASE ev.tipo = "AdminCriado" -> handleAdminCriado(l, ev)
      [] ev.tipo = "EmailVerificado" -> handleEmailVerificado(l)
      [] ev.tipo = "AdminAtivado" -> handleStatusChange(l, "ativo")
      [] ev.tipo = "AdminDesativado" -> handleStatusChange(l, "inativo")
      [] ev.tipo = "AdminDeletado" -> handleAdminDeletado(l)
      [] ev.tipo = "AcaoAdminRegistrada" -> l
      [] ev.tipo = "AdminDadosAtualizados" -> handleAdminDadosAtualizados(l, ev)
      [] ev.tipo = "AdminRoleAtualizado" -> handleAdminRoleAtualizado(l, ev)
      [] ev.tipo = "AdminSenhaAlterada" -> handleAdminSenhaAlterada(l, ev)
=============================================================================
