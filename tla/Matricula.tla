------------------------------ MODULE Matricula ------------------------------
(***************************************************************************)
(* Enrolment requests, from the public form to the student who is created  *)
(* by an approval or by the payment of the enrolment fee                   *)
(* (domain/aggregates/solicitacao_matricula.go,                            *)
(* handlers/solicitacao_matricula_handlers.go, finance/matricula.go).      *)
(* A handler loads the request, works with the guard of the identity card, *)
(* the students' read model and the payments, and then appends its event   *)
(* to whatever the stream of the request has become.                       *)
(*                                                                         *)
(* One card, one fee scope.  The charges are those of Cobranca, reduced to *)
(* how many are open and how many are paid.                                *)
(***************************************************************************)
EXTENDS Integers, Sequences, FiniteSets, SequencesExt

CONSTANTS
    Candidaturas, \* requests for enrolment
    ComBI,        \* those that give the card; the others give none
    Atendentes,   \* HTTP requests that may be in progress at once
    MaxAtendidos, \* bound: HTTP requests in one behaviour
    MaxCobrancas  \* bound: charges of one request

Ninguem == "ninguem"
Direto == "direto"   \* a student the academy registers without a request

VARIABLES
    solicitacao,  \* the ledger: the events of each request
    lida,         \* how many of them the read model has
    estudantes,   \* students in the ledger: from which request, and whether the read model has them
    guarda,       \* guard of the card: livre, consumida, or who reserved it
    cobranca,     \* charges of the fee of each request
    taxa,         \* an enrolment fee is configured
    atendente,    \* what each handler is doing
    atendidos,    \* HTTP requests so far
    descobertas   \* history: times the card was freed after its student was recorded, still out of sight

vars == <<solicitacao, lida, estudantes, guarda, cobranca, taxa, atendente, atendidos, descobertas>>

Parado == [passo |-> "parado", op |-> Ninguem, s |-> Ninguem, alvos |-> {}]
Orfa == "orfa"   \* reserved by a handler that is gone

-----------------------------------------------------------------------------
(* Status of a request that has had these events *)

Estado(eventos) ==
    LET estados == SelectSeq(eventos, LAMBDA e : e # "ValorPendenteAtualizado")
    IN  IF estados = <<>> THEN Ninguem
        ELSE CASE Last(estados) = "Criada" -> "pendente"
               [] Last(estados) \in {"Aprovada", "Vinculada"} -> "aprovada"
               [] Last(estados) = "AprovadaPendentePagamento" -> "aprovada_pendente_pagamento"
               [] Last(estados) = "Reprovada" -> "reprovada"
               [] OTHER -> "cancelada"

Status(s) == Estado(solicitacao[s])
Linha(s) == Estado(SubSeq(solicitacao[s], 1, lida[s]))

\* The students' read model is looked up by the card.
TemCartao(e) == e.de = Direto \/ e.de \in ComBI
BilheteCadastrado == \E e \in Range(estudantes) : TemCartao(e) /\ e.visivel

-----------------------------------------------------------------------------
Passa(h, passo) == atendente' = [atendente EXCEPT ![h].passo = passo]
Termina(h) == atendente' = [atendente EXCEPT ![h] = Parado]
Regista(s, eventos) == solicitacao' = [solicitacao EXCEPT ![s] = @ \o eventos]

Atende(h, op, s, passo) ==
    /\ atendente[h] = Parado
    /\ atendidos < MaxAtendidos
    /\ atendidos' = atendidos + 1
    /\ atendente' = [atendente EXCEPT ![h] = [passo |-> passo, op |-> op, s |-> s, alvos |-> {}]]

WrongSolta == UNCHANGED guarda   \* fault: nothing is given back

Solta == guarda' = "livre"

(* A handler that fails after it recorded the student: the deferred Release *)
(* takes back a reservation and a consumption alike, or fails with it.      *)
Devolve(h) ==
    /\ Termina(h)
    /\ guarda' \in {"livre", Orfa}
    /\ descobertas' = descobertas + (IF guarda' = "livre" /\ ~BilheteCadastrado' THEN 1 ELSE 0)

CriarSolicitacaoMatricula(s) ==
    /\ solicitacao[s] = <<>>
    /\ Regista(s, <<"Criada">>)
    /\ UNCHANGED <<lida, estudantes, guarda, cobranca, taxa, atendente, atendidos, descobertas>>

-----------------------------------------------------------------------------
(* Approval, enrolment after a payment, and direct registration create a    *)
(* student the same way: reserve the card, look it up, create, consume.     *)

Reserva(s) == IF s = Direto \/ s \in ComBI THEN "reservar" ELSE "decidir"

AprovarSolicitacaoMatricula(h, s) ==
    /\ Linha(s) # Ninguem /\ Status(s) = "pendente"
    /\ Atende(h, "aprovar", s, Reserva(s))
    /\ UNCHANGED <<solicitacao, lida, estudantes, guarda, cobranca, taxa, descobertas>>

(* After a webhook, a consultation or a cancellation that finds a payment.  *)
efetivarVinculoMatriculaPaga(h, s) ==
    /\ cobranca[s].pagas > 0
    /\ Linha(s) # Ninguem /\ Status(s) = "aprovada_pendente_pagamento"
    /\ Atende(h, "efetivar", s, Reserva(s))
    /\ UNCHANGED <<solicitacao, lida, estudantes, guarda, cobranca, taxa, descobertas>>

registerEstudantePorAcademia(h) ==
    /\ Atende(h, "registar", Direto, "reservar")
    /\ UNCHANGED <<solicitacao, lida, estudantes, guarda, cobranca, taxa, descobertas>>

Reserve(h) ==
    /\ atendente[h].passo = "reservar"
    /\ \/ /\ guarda = "livre"
          /\ guarda' = h /\ Passa(h, "verificar")
       \/ /\ guarda # "livre"
          /\ Termina(h) /\ UNCHANGED guarda
    /\ UNCHANGED <<solicitacao, lida, estudantes, cobranca, taxa, atendidos, descobertas>>

WrongGetByBilheteIdentidadePrincipal(h) ==   \* fault: only a card in course is refused
    /\ atendente[h].passo = "verificar"
    /\ Passa(h, "decidir") /\ UNCHANGED guarda
    /\ UNCHANGED <<solicitacao, lida, estudantes, cobranca, taxa, atendidos, descobertas>>

GetByBilheteIdentidadePrincipal(h) ==
    /\ atendente[h].passo = "verificar"
    /\ \/ ~BilheteCadastrado /\ Passa(h, "decidir") /\ UNCHANGED guarda
       \/ BilheteCadastrado /\ Termina(h) /\ Solta
    /\ UNCHANGED <<solicitacao, lida, estudantes, cobranca, taxa, atendidos, descobertas>>

(* With a fee the approval stops here, and the reservation is given back:   *)
(* the student comes with the payment.                                      *)
MarcarPendentePagamento(h) ==
    LET s == atendente[h].s IN
    /\ atendente[h].passo = "decidir" /\ atendente[h].op = "aprovar" /\ taxa
    /\ Regista(s, <<"Aprovada", "AprovadaPendentePagamento">>)
    /\ IF s \in ComBI THEN Solta ELSE UNCHANGED guarda
    /\ Termina(h)
    /\ UNCHANGED <<lida, estudantes, cobranca, taxa, atendidos, descobertas>>

(* The answer of the save may be lost after its commit: an error all the    *)
(* same.                                                                    *)
CriarComVinculo(h) ==
    LET a == atendente[h] IN
    /\ a.passo = "decidir" /\ ~(a.op = "aprovar" /\ taxa)
    /\ estudantes' = Append(estudantes, [de |-> a.s, visivel |-> FALSE])
    /\ \/ /\ Passa(h, IF guarda = h THEN "consumir" ELSE "gravar")
          /\ UNCHANGED <<guarda, descobertas>>
       \/ guarda = h /\ Devolve(h)
       \/ guarda # h /\ Termina(h) /\ UNCHANGED <<guarda, descobertas>>
    /\ UNCHANGED <<solicitacao, lida, cobranca, taxa, atendidos>>

Consume(h) ==
    /\ atendente[h].passo = "consumir"
    /\ UNCHANGED <<solicitacao, lida, estudantes, cobranca, taxa, atendidos>>
    /\ \/ /\ guarda' = "consumida"
          /\ IF atendente[h].op = "registar" THEN Termina(h) ELSE Passa(h, "gravar")
          /\ UNCHANGED descobertas
       \/ Devolve(h)
       \/ guarda' = "consumida" /\ Termina(h) /\ UNCHANGED descobertas   \* the Release fails too

(* The look-up or a load fails, or nothing is saved.                        *)
Release(h) ==
    /\ atendente[h].passo \in {"verificar", "decidir"} /\ guarda = h
    /\ Termina(h) /\ Solta
    /\ UNCHANGED <<solicitacao, lida, estudantes, cobranca, taxa, atendidos, descobertas>>

(* The request still looks pending to the handler that loaded it.           *)
VincularAposPagamento(h) ==
    /\ atendente[h].passo = "gravar" /\ atendente[h].op = "efetivar"
    /\ Regista(atendente[h].s, <<"Vinculada">>)
    /\ Termina(h)
    /\ UNCHANGED <<lida, estudantes, guarda, cobranca, taxa, atendidos, descobertas>>

Concorrentes(s) == {t \in ComBI \ {s} : s \in ComBI /\ Linha(t) = "pendente"}

Aprovar(h) ==
    LET s == atendente[h].s IN
    /\ atendente[h].passo = "gravar" /\ atendente[h].op = "aprovar"
    /\ Regista(s, <<"Aprovada">>)
    /\ atendente' = [atendente EXCEPT ![h] =
           IF Concorrentes(s) = {} THEN Parado
           ELSE [@ EXCEPT !.passo = "cancelar", !.alvos = Concorrentes(s)]]
    /\ UNCHANGED <<lida, estudantes, guarda, cobranca, taxa, atendidos, descobertas>>

(* One competitor after another; those that are not pending are left.       *)
cancelarSolicitacoesConcorrentes(h) ==
    /\ atendente[h].passo = "cancelar"
    /\ \E t \in atendente[h].alvos :
          /\ IF Status(t) = "pendente" THEN Regista(t, <<"CanceladaPorOutra">>)
                                       ELSE UNCHANGED solicitacao
          /\ atendente' = [atendente EXCEPT ![h] =
                 IF atendente[h].alvos = {t} THEN Parado
                 ELSE [@ EXCEPT !.alvos = atendente[h].alvos \ {t}]]
    /\ UNCHANGED <<lida, estudantes, guarda, cobranca, taxa, atendidos, descobertas>>

-----------------------------------------------------------------------------
(* The fee, and the other ends a request may come to *)

Total(c) == c.abertas + c.pagas + c.canceladas

IniciarPagamentoMatricula(h, s) ==
    /\ Linha(s) = "aprovada_pendente_pagamento"
    /\ cobranca[s].abertas = 0
    /\ Atende(h, "pagar", s, "gerar")
    /\ UNCHANGED <<solicitacao, lida, estudantes, guarda, cobranca, taxa, descobertas>>

(* The charge is open, or paid at once: then the same handler enrols, and   *)
(* an error is not answered.                                                *)
gerarCobranca(h) ==
    LET s == atendente[h].s IN
    /\ atendente[h].passo = "gerar" /\ Total(cobranca[s]) < MaxCobrancas
    /\ \/ /\ cobranca' = [cobranca EXCEPT ![s].abertas = @ + 1]
          /\ Termina(h)
       \/ /\ cobranca' = [cobranca EXCEPT ![s].pagas = @ + 1]
          /\ atendente' = [atendente EXCEPT ![h] =
                 IF Status(s) = "aprovada_pendente_pagamento"
                 THEN [@ EXCEPT !.op = "efetivar", !.passo = Reserva(s)]
                 ELSE Parado]
    /\ UNCHANGED <<solicitacao, lida, estudantes, guarda, taxa, atendidos, descobertas>>

Paga(s) ==
    /\ cobranca[s].abertas > 0
    /\ cobranca' = [cobranca EXCEPT ![s].abertas = @ - 1, ![s].pagas = @ + 1]
    /\ UNCHANGED <<solicitacao, lida, estudantes, guarda, taxa, atendente, atendidos, descobertas>>

(* The request is loaded, its open charges are cancelled, and only then its *)
(* status is looked at, as it was when it was loaded.                       *)
CancelarSolicitacaoMatricula(h, s) ==
    /\ Linha(s) # Ninguem
    /\ Atende(h, IF Status(s) = "aprovada_pendente_pagamento" THEN "cancelar" ELSE "recusar",
              s, "cancelarCobrancas")
    /\ UNCHANGED <<solicitacao, lida, estudantes, guarda, cobranca, taxa, descobertas>>

CancelarCobrancaMatriculaAberta(h) ==
    LET s == atendente[h].s IN
    /\ atendente[h].passo = "cancelarCobrancas"
    /\ \/ /\ cobranca' = [cobranca EXCEPT ![s].abertas = 0,
                                         ![s].canceladas = @ + cobranca[s].abertas]
          /\ IF atendente[h].op = "cancelar" THEN Passa(h, "gravarCancelamento") ELSE Termina(h)
       \/ /\ cobranca[s].abertas > 0   \* the provider has been paid: ErrPagamentoExistente
          /\ cobranca' = [cobranca EXCEPT ![s].abertas = @ - 1, ![s].pagas = @ + 1]
          /\ Termina(h)
    /\ UNCHANGED <<solicitacao, lida, estudantes, guarda, taxa, atendidos, descobertas>>

CancelarPendentePagamentoMatricula(h) ==
    /\ atendente[h].passo = "gravarCancelamento"
    /\ Regista(atendente[h].s, <<"Cancelada">>)
    /\ Termina(h)
    /\ UNCHANGED <<lida, estudantes, guarda, cobranca, taxa, atendidos, descobertas>>

(* The event follows the load at once: nothing is called in between.        *)
ReprovarSolicitacaoMatricula(s) ==
    /\ Linha(s) # Ninguem /\ Status(s) = "pendente"
    /\ Regista(s, <<"Reprovada">>)
    /\ UNCHANGED <<lida, estudantes, guarda, cobranca, taxa, atendente, atendidos, descobertas>>

(* A new fee reprices the requests that wait for a payment and have no open *)
(* charge (modo_vigencia cobrancas_pendentes), or none.                     *)
Reprecificaveis ==
    {s \in Candidaturas :
        /\ Linha(s) = "aprovada_pendente_pagamento" /\ cobranca[s].abertas = 0
        /\ Status(s) = "aprovada_pendente_pagamento"}

ConfigureMatricula ==
    /\ atendidos < MaxAtendidos /\ atendidos' = atendidos + 1
    /\ taxa' = TRUE
    /\ \E alvos \in {{}, Reprecificaveis} :
          solicitacao' = [s \in Candidaturas |->
              IF s \in alvos THEN Append(solicitacao[s], "ValorPendenteAtualizado")
                             ELSE solicitacao[s]]
    /\ UNCHANGED <<lida, estudantes, guarda, cobranca, atendente, descobertas>>

RemoveMatriculaConfiguracao ==
    /\ taxa
    /\ atendidos < MaxAtendidos /\ atendidos' = atendidos + 1
    /\ taxa' = FALSE
    /\ UNCHANGED <<solicitacao, lida, estudantes, guarda, cobranca, atendente, descobertas>>

-----------------------------------------------------------------------------
ProjetaSolicitacao(s) ==
    /\ lida[s] < Len(solicitacao[s])
    /\ lida' = [lida EXCEPT ![s] = @ + 1]
    /\ UNCHANGED <<solicitacao, estudantes, guarda, cobranca, taxa, atendente, atendidos, descobertas>>

(* uq_estudante_bilhete_identidade_normalizado: the table refuses a second  *)
(* student with the card, and the projection stops there.                   *)
Recusado(e) == TemCartao(e) /\ BilheteCadastrado

ProjetaEstudante(i) ==
    /\ ~estudantes[i].visivel /\ ~Recusado(estudantes[i])
    /\ estudantes' = [estudantes EXCEPT ![i].visivel = TRUE]
    /\ UNCHANGED <<solicitacao, lida, guarda, cobranca, taxa, atendente, atendidos, descobertas>>

(* The request is cancelled or the server stops: the deferred Release uses  *)
(* the context of the request and fails with it.                            *)
Interrompe(h) ==
    /\ atendente[h] # Parado
    /\ Termina(h)
    /\ guarda' = IF guarda = h THEN Orfa ELSE guarda
    /\ UNCHANGED <<solicitacao, lida, estudantes, cobranca, taxa, atendidos, descobertas>>

(* Thirty minutes later; the read model is taken to be less late than that. *)
ExpiraGuarda ==
    /\ guarda = Orfa
    /\ \A e \in Range(estudantes) : e.visivel \/ Recusado(e)
    /\ Solta
    /\ UNCHANGED <<solicitacao, lida, estudantes, cobranca, taxa, atendente, atendidos, descobertas>>

Init ==
    /\ solicitacao = [s \in Candidaturas |-> <<>>] /\ lida = [s \in Candidaturas |-> 0]
    /\ estudantes = <<>> /\ guarda = "livre"
    /\ cobranca = [s \in Candidaturas |-> [abertas |-> 0, pagas |-> 0, canceladas |-> 0]]
    /\ taxa \in BOOLEAN
    /\ atendente = [h \in Atendentes |-> Parado] /\ atendidos = 0 /\ descobertas = 0

Cria(h) ==
    \/ Reserve(h) \/ GetByBilheteIdentidadePrincipal(h) \/ MarcarPendentePagamento(h)
    \/ CriarComVinculo(h) \/ Consume(h) \/ VincularAposPagamento(h) \/ Aprovar(h)
    \/ cancelarSolicitacoesConcorrentes(h) \/ Release(h)

Cobra(h) ==
    \/ gerarCobranca(h) \/ CancelarCobrancaMatriculaAberta(h)
    \/ CancelarPendentePagamentoMatricula(h)

Comeca(h) ==
    \/ registerEstudantePorAcademia(h)
    \/ \E s \in Candidaturas :
          \/ AprovarSolicitacaoMatricula(h, s) \/ efetivarVinculoMatriculaPaga(h, s)
          \/ IniciarPagamentoMatricula(h, s) \/ CancelarSolicitacaoMatricula(h, s)

Next ==
    \/ \E h \in Atendentes : Comeca(h) \/ Cria(h) \/ Cobra(h) \/ Interrompe(h)
    \/ \E s \in Candidaturas :
          \/ CriarSolicitacaoMatricula(s) \/ ReprovarSolicitacaoMatricula(s)
          \/ Paga(s) \/ ProjetaSolicitacao(s)
    \/ \E i \in DOMAIN estudantes : ProjetaEstudante(i)
    \/ ConfigureMatricula \/ RemoveMatriculaConfiguracao \/ ExpiraGuarda

Spec == Init /\ [][Next]_vars

-----------------------------------------------------------------------------
TypeOK ==
    /\ \A s \in Candidaturas : lida[s] \in 0..Len(solicitacao[s])
    /\ \A i \in DOMAIN estudantes : estudantes[i].de \in Candidaturas \cup {Direto}
    /\ guarda \in Atendentes \cup {"livre", "consumida", Orfa}
    /\ \A s \in Candidaturas : Total(cobranca[s]) \in 0..MaxCobrancas
    /\ \A h \in Atendentes : guarda = h => atendente[h].passo \in {"verificar", "decidir", "consumir"}

(* Each student beyond the first with one identity card goes back to one     *)
(* freeing of the card after a student was recorded and while the look-up    *)
(* did not find it: a save whose answer was lost, or a Consume that failed.  *)
(* Otherwise the card is never enrolled twice, by whatever requests,         *)
(* academies and payments at once, although the look-up reads a late read    *)
(* model: the guard covers the student until the row is there.               *)
OneStudentPerBI ==
    Cardinality({i \in DOMAIN estudantes : TemCartao(estudantes[i])}) <= 1 + descobertas
=============================================================================
