------------------------------- MODULE Conta -------------------------------
(***************************************************************************)
(* The handlers an administrator, an academy and a student share for their *)
(* own account (handlers/auth_email_handlers.go, profile_handlers.go and   *)
(* contact_handlers.go).  Each loads the aggregate and runs one command of *)
(* it; the argument is the set of the events that command raises.  The     *)
(* links and codes sent by e-mail are at hand: who holds one may use it,   *)
(* once (email_service.go).                                                *)
(***************************************************************************)
LOCAL INSTANCE Sequences

Emails == {"a", "b"}
Senhas == {"s1", "s2"}

(* The link names the account, and the address it was sent to is only       *)
(* printed.                                                                 *)
VerificarEmailConta(comando) == {<<ev>> : ev \in comando}

\* the row must have a verified address
ResetarSenha(l, comando) == {<<ev>> : ev \in {v \in comando : l.verificado}}

\* the caller knows the password of the row
AlterarSenhaConta(l, comando) == {<<ev>> : ev \in {v \in comando : l.status # "nenhum"}}

(* One field, the e-mail or the phone.  No row of the three kinds has the   *)
(* address, when they are read (emailEmUsoPorOutro).                        *)
atualizarMeuContato(comando) == {<<ev>> : ev \in comando}
=============================================================================
