----------------------------- MODULE Estudante -----------------------------
(***************************************************************************)
(* A student (domain/aggregates/estudante.go), the handlers that change it *)
(* (handlers/estudante_handlers.go, academia_status_escolar_handlers.go,   *)
(* estudante_delecao_academia_handlers.go, cursos_handlers.go), those of   *)
(* its own account (module Conta) and its row                              *)
(* (projections/estudante_projection.go), in the form of module Turma.     *)
(* There is one academy: a return to another one is never approved,        *)
(* because the row still names the last.  Grades and final assessments are *)
(* in module AvaliacaoFinal, requests to change protected data in          *)
(* Solicitacoes; the courses named are in the read model when an event     *)
(* that names them is handled.                                             *)
(***************************************************************************)
EXTENDS Conta

Manter == "manter"        \* nil: a field of an update that is not sent
Ensinos == {"fundamental", "medio", "superior"}
Cursos == {"c1", "c2"}
Nenhum == "nenhum"        \* no year, no course

NewEstudante ==
    [status |-> "nenhum", email |-> "", senha |-> "", verificado |-> FALSE, bilhete |-> "",
     etapa |-> [n \in Ensinos |-> "inativo"], ano |-> [n \in Ensinos |-> Nenhum],
     curso |-> [n \in Ensinos |-> Nenhum], semestre |-> 0]

-----------------------------------------------------------------------------
(* The aggregate *)

\* the education a student who enters at a level has behind is finalized
deriveStatusPorAnoAcademico(nivel) ==
    [n \in Ensinos |->
        IF n = nivel THEN "em_andamento"
        ELSE IF nivel = "superior" \/ (nivel = "medio" /\ n = "fundamental") THEN "finalizado"
        ELSE "inativo"]

CriarComVinculo(statusGeral) ==
    {[tipo |-> "EstudanteCriadoComVinculo", status |-> statusGeral, email |-> "a",
      senha |-> "s1", bilhete |-> "b1", etapa |-> deriveStatusPorAnoAcademico(nivel),
      ano |-> [n \in Ensinos |-> IF n = nivel THEN "2" ELSE Nenhum],
      curso |-> [n \in Ensinos |-> IF n = nivel /\ n # "fundamental" THEN "c1" ELSE Nenhum]] :
     nivel \in Ensinos}

VerificarEmail(e) == {ev \in {[tipo |-> "EmailVerificadoEstudante"]} : ~e.verificado}
AlterarSenha == [tipo : {"SenhaAlterada"}, senha : {"s2"}]

\* only the e-mail and the phones
AtualizarDadosPessoais(e) ==
    {[tipo |-> "DadosPessoaisAtualizados", email |-> "b", bilhete |-> Manter,
      emailAlterado |-> e.email # "b"]}
AlterarBilheteIdentidadeSemAcademia ==
    [tipo : {"DadosPessoaisAtualizados"}, email : {Manter}, bilhete : {"b2"},
     emailAlterado : {FALSE}]

EmAndamento(e) == {n \in Ensinos : e.etapa[n] = "em_andamento"}

InterromperEtapa(n) == [tipo |-> "Interrompido", nivel |-> n]
InterromperPercursoAcademico(e) ==
    {InterromperEtapa(n) : n \in {m \in Ensinos : EmAndamento(e) = {m}}}

DesvincularDaAcademia(e) ==
    {ev \in {[tipo |-> "EstudanteDesvinculadoDaAcademia"]} : e.status = "ativo"}

(* Back to the year the student was in, or to the first year of another     *)
(* course.                                                                  *)
Reintegrar(e, nivel, cursoPedido) ==
    LET curso == IF nivel # "fundamental" /\ cursoPedido # Nenhum
                 THEN cursoPedido ELSE e.curso[nivel]
        continua == curso = e.curso[nivel] /\ e.ano[nivel] # Nenhum
    IN {ev \in {[tipo |-> "EstudanteReintegrado", nivel |-> nivel, curso |-> curso,
                 ano |-> IF continua THEN e.ano[nivel] ELSE "1",
                 semestre |-> IF continua /\ e.semestre # 0 THEN e.semestre ELSE 1]} :
          /\ e.status = "inativo"
          /\ IF nivel = "fundamental" THEN e.ano[nivel] # Nenhum ELSE curso # Nenhum}

AlterarCurso(e, nivel, curso) ==
    {ev \in {[tipo |-> "CursoAlterado", nivel |-> nivel, curso |-> curso]} :
       /\ IF nivel = "medio" THEN e.etapa["fundamental"] = "finalizado"
                             ELSE e.etapa["superior"] = "em_andamento"
       /\ e.curso[nivel] # curso}

Deletar(e) == {ev \in {[tipo |-> "EstudanteDeletado"]} : e.status = "inativo"}
DeletarPorAcademia(e) ==
    {ev \in {[tipo |-> "EstudanteDeletado"]} : e.status \in {"ativo", "pendente_documentos"}}
CompletarDocumentosPendentes(e) ==
    {ev \in {[tipo |-> "EstudanteDocumentosCompletados"]} : e.status = "pendente_documentos"}

applyEstudanteCriadoComVinculo(e, ev) ==
    [c \in DOMAIN e |-> IF c \in DOMAIN ev THEN ev[c] ELSE e[c]]
applyEmailVerificado(e) == [e EXCEPT !.verificado = TRUE]
applySenhaAlterada(e, ev) == [e EXCEPT !.senha = ev.senha]
applyDadosPessoaisAtualizados(e, ev) ==
    [e EXCEPT !.email = IF ev.email = Manter THEN @ ELSE ev.email,
              !.verificado = @ /\ ~(ev.email # Manter /\ ev.emailAlterado),
              !.bilhete = IF ev.bilhete = Manter THEN @ ELSE ev.bilhete]
applyEtapaInativa(e, ev) == [e EXCEPT !.etapa[ev.nivel] = "inativo"]
applyEstudanteDesvinculadoDaAcademia(e) == [e EXCEPT !.status = "inativo"]
applyEstudanteDeletado(e) == [e EXCEPT !.status = "deletado"]
applyEstudanteReintegrado(e, ev) ==
    [e EXCEPT !.status = "ativo", !.etapa[ev.nivel] = "em_andamento", !.ano[ev.nivel] = ev.ano,
              !.curso[ev.nivel] = IF ev.nivel = "fundamental" THEN @ ELSE ev.curso,
              !.semestre = IF ev.nivel = "superior" THEN ev.semestre ELSE @]
applyCursoAlterado(e, ev) ==
    [e EXCEPT !.curso[ev.nivel] = ev.curso, !.ano[ev.nivel] = "1",
              !.semestre = IF ev.nivel = "superior" THEN 1 ELSE @]
applyEstudanteDocumentosCompletados(e) == [e EXCEPT !.status = "ativo"]

Apply(e, ev) ==
    CASE ev.tipo = "EstudanteCriadoComVinculo" -> applyEstudanteCriadoComVinculo(e, ev)
      [] ev.tipo = "EmailVerificadoEstudante" -> applyEmailVerificado(e)
      [] ev.tipo = "SenhaAlterada" -> applySenhaAlterada(e, ev)
      [] ev.tipo = "DadosPessoaisAtualizados" -> applyDadosPessoaisAtualizados(e, ev)
      [] ev.tipo = "Interrompido" -> applyEtapaInativa(e, ev)
      [] ev.tipo = "EstudanteDesvinculadoDaAcademia" -> applyEstudanteDesvinculadoDaAcademia(e)
      [] ev.tipo = "EstudanteDeletado" -> applyEstudanteDeletado(e)
      [] ev.tipo = "EstudanteReintegrado" -> applyEstudanteReintegrado(e, ev)
      [] ev.tipo = "CursoAlterado" -> applyCursoAlterado(e, ev)
      [] ev.tipo = "EstudanteDocumentosCompletados" -> applyEstudanteDocumentosCompletados(e)

-----------------------------------------------------------------------------
(* The handlers *)

\* the row is found by its code, whatever its status, and names the academy
carregarEstudanteDaAcademia(l) == l.status # "nenhum"

\* with the documents the academy asks for, or without them
registerEstudantePorAcademia(e) ==
    {<<ev>> : ev \in {v \in UNION {CriarComVinculo(s) : s \in {"ativo", "pendente_documentos"}} :
                         e = NewEstudante}}

CompletarDocumentosEstudantePendente(e, l) ==
    {<<ev>> : ev \in {v \in CompletarDocumentosPendentes(e) : l.status = "pendente_documentos"}}

\* the academy is a school or an institution of higher education
Oferta(e) ==
    IF e.curso["superior"] # Nenhum THEN {"superior"} ELSE {"fundamental", "medio"}

(* The academy approves a pending request of the student to interrupt, to   *)
(* leave or to return; the student may have one of each at any time.        *)
decidirSolicitacaoStatus(e, l) ==
    {<<ev>> : ev \in {v \in InterromperPercursoAcademico(e) \cup DesvincularDaAcademia(e)
                              \cup UNION {Reintegrar(e, n, c) :
                                             n \in Oferta(e), c \in Cursos \cup {Nenhum}} :
                         carregarEstudanteDaAcademia(l)}}

AlterarCursoEstudante(e, l) ==
    {<<ev>> : ev \in {v \in UNION {AlterarCurso(e, n, c) : n \in Oferta(e) \ {"fundamental"},
                                                c \in Cursos} :
                         carregarEstudanteDaAcademia(l)}}

DeletarContaEstudante(e) == {<<ev>> : ev \in Deletar(e)}

\* the academy is the one that registered the student
DeletarContaEstudantePorAcademia(e, l) ==
    {<<ev>> : ev \in {v \in DeletarPorAcademia(e) : carregarEstudanteDaAcademia(l)}}

AtualizarBilheteIdentidadeSemAcademia(l) ==
    {<<ev>> : ev \in {v \in AlterarBilheteIdentidadeSemAcademia :
                         /\ l.status \notin {"nenhum", "ativo", "pendente_documentos"}
                         /\ v.bilhete # l.bilhete}}

Pedidos(e, l) ==
    IF e.status = "nenhum" THEN registerEstudantePorAcademia(e)
    ELSE CompletarDocumentosEstudantePendente(e, l) \cup decidirSolicitacaoStatus(e, l)
           \cup AlterarCursoEstudante(e, l) \cup DeletarContaEstudante(e)
           \cup DeletarContaEstudantePorAcademia(e, l)
           \cup AtualizarBilheteIdentidadeSemAcademia(l)
           \cup VerificarEmailConta(VerificarEmail(e))
           \cup ResetarSenha(l, AlterarSenha)
           \cup AlterarSenhaConta(l, {v \in AlterarSenha : l.status = "ativo"})
           \cup atualizarMeuContato(AtualizarDadosPessoais(e))

-----------------------------------------------------------------------------
(* The row *)

\* handled again, it resets all it names, and leaves what it does not
handleEstudanteCriadoComVinculo(l, ev) ==
    [l EXCEPT !.status = ev.status, !.email = ev.email, !.senha = ev.senha,
              !.bilhete = ev.bilhete, !.etapa = ev.etapa, !.ano = ev.ano, !.curso = ev.curso,
              !.semestre = 0]
handleEstudanteDocumentosCompletados(l) == [l EXCEPT !.status = "ativo"]
handleStatusInativo(l, ev) == [l EXCEPT !.etapa[ev.nivel] = "inativo"]
handleEstudanteDesvinculadoDaAcademia(l) == [l EXCEPT !.status = "inativo"]
handleEstudanteDeletado(l) == [l EXCEPT !.status = "deletado"]
handleEstudanteReintegrado(l, ev) ==
    LET r == [l EXCEPT !.status = "ativo", !.etapa[ev.nivel] = "em_andamento",
                       !.ano[ev.nivel] = ev.ano]
    IN CASE ev.nivel = "fundamental" -> r
         [] ev.nivel = "medio" -> [r EXCEPT !.curso["medio"] = ev.curso]
         [] ev.nivel = "superior" ->
              [r EXCEPT !.curso["superior"] = ev.curso, !.semestre = ev.semestre]
handleDadosPessoaisAtualizados(l, ev) ==
    LET d == [c \in DOMAIN l |->
                 IF c \in {"email", "bilhete"} /\ ev[c] # Manter THEN ev[c] ELSE l[c]]
    IN IF ev.emailAlterado THEN [d EXCEPT !.verificado = FALSE] ELSE d
handleEmailVerificadoEstudante(l) == [l EXCEPT !.verificado = TRUE]
handleCursoAlterado(l, ev) ==
    LET c == [l EXCEPT !.curso[ev.nivel] = ev.curso, !.ano[ev.nivel] = "1"]
    IN IF ev.nivel = "superior" THEN [c EXCEPT !.semestre = 1] ELSE c
handleSenhaAlterada(l, ev) == [l EXCEPT !.senha = ev.senha]

Handle(l, ev) ==
    CASE ev.tipo = "EstudanteCriadoComVinculo" -> handleEstudanteCriadoComVinculo(l, ev)
      [] ev.tipo = "EstudanteDocumentosCompletados" -> handleEstudanteDocumentosCompletados(l)
      [] ev.tipo = "Interrompido" -> handleStatusInativo(l, ev)
      [] ev.tipo = "EstudanteDesvinculadoDaAcademia" -> handleEstudanteDesvinculadoDaAcademia(l)
      [] ev.tipo = "EstudanteDeletado" -> handleEstudanteDeletado(l)
      [] ev.tipo = "EstudanteReintegrado" -> handleEstudanteReintegrado(l, ev)
      [] ev.tipo = "DadosPessoaisAtualizados" -> handleDadosPessoaisAtualizados(l, ev)
      [] ev.tipo = "EmailVerificadoEstudante" -> handleEmailVerificadoEstudante(l)
      [] ev.tipo = "CursoAlterado" -> handleCursoAlterado(l, ev)
      [] ev.tipo = "SenhaAlterada" -> handleSenhaAlterada(l, ev)
=============================================================================
