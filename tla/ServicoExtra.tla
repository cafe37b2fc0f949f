---------------------------- MODULE ServicoExtra ----------------------------
(***************************************************************************)
(* Extra services of an academy and the students' inscriptions in them     *)
(* (domain/aggregates/{servico_extra,solicitacao_servico_extra}.go, their  *)
(* handlers and projections, finance/servico_extra.go).  One service, one  *)
(* student: the guard and the unique index are per pair of them.           *)
(*                                                                         *)
(* A handler loads the request, reads the service's read model, and        *)
(* appends its event to whatever the stream has become.  Obligations are   *)
(* annulled and reactivated here; nothing starts their payment, because    *)
(* the handler reads the request's id from a field no body can fill.       *)
(***************************************************************************)
EXTENDS Integers, Sequences, FiniteSets, SequencesExt

CONSTANTS
    Inscricoes,     \* requests the student may make
    Operadores,     \* HTTP requests that may be in progress at once
    MaxOperacoes,   \* bound: HTTP requests in one behaviour
    MaxAlteracoes   \* bound: events of the service after its creation

VARIABLES
    servico,        \* the ledger: the events of the service
    servicoLido,    \* how many of them the read model has
    inscricao,      \* the ledger: the events of each request
    inscricaoLida,  \* how many of them the read model has
    vaga,           \* the guard "solicitacao_servico_extra:ativa"
    inscritas,      \* charges of the enrolment fee of each request
    lancamento,     \* obligation of each request: its events
    operador,       \* what each handler is doing
    operacoes,      \* HTTP requests so far
    expostas        \* history: times the guard was freed before a recorded request was in sight

vars == <<servico, servicoLido, inscricao, inscricaoLida, vaga, inscritas, lancamento,
          operador, operacoes, expostas>>

Livre == [passo |-> "livre", s |-> "nenhuma", evento |-> "nenhum"]
Sobra == "sobra"   \* reserved by a handler that is gone

-----------------------------------------------------------------------------
(* The service.  An event sets some columns of its row: pairs of a column   *)
(* and its value.                                                           *)

Criado(taxa) == [ativo |-> TRUE, deletado |-> FALSE, temTaxa |-> taxa, valorTaxa |-> taxa]
Taxa(taxa) == [temTaxa |-> taxa, valorTaxa |-> taxa]
Desativado == [ativo |-> FALSE]
Reativado == [ativo |-> TRUE]
Deletado == [ativo |-> FALSE, deletado |-> TRUE]

Linha(n) == FoldLeft(LAMBDA r, e : [c \in DOMAIN r |-> IF c \in DOMAIN e THEN e[c] ELSE r[c]],
                     servico[1], SubSeq(servico, 1, n))
Servico == Linha(Len(servico))
ServicoLinha == Linha(servicoLido)

chk_servico_extra_taxa_campos(r) == r.temTaxa <=> r.valorTaxa

(* An update is written one column after another, in no order, each in a    *)
(* statement of its own, and the table is checked after each; the other     *)
(* events are one statement.  The price columns (pago, preco) do the same.  *)
Aceita(r, e) ==
    \A c \in DOMAIN e \cap {"temTaxa", "valorTaxa"} :
        chk_servico_extra_taxa_campos([r EXCEPT ![c] = e[c]])

Altera(e) ==
    /\ Len(servico) <= MaxAlteracoes
    /\ servico' = Append(servico, e)
    /\ UNCHANGED <<servicoLido, inscricao, inscricaoLida, vaga, inscritas, lancamento,
                   operador, operacoes, expostas>>

AtualizarServicoExtra == \E taxa \in BOOLEAN : taxa # Servico.temTaxa /\ Altera(Taxa(taxa))
DesativarServicoExtra == Servico.ativo /\ Altera(Desativado)
ReativarServicoExtra == ~Servico.ativo /\ Altera(Reativado)

-----------------------------------------------------------------------------
(* The request *)

Estado(eventos) ==
    IF eventos = <<>> THEN "nenhum"
    ELSE CASE Last(eventos) = "Criada" -> "pendente"
           [] Last(eventos) = "AprovadaPendentePagamento" -> "aprovada_pendente_pagamento"
           [] Last(eventos) = "Vinculada" -> "vinculada"
           [] OTHER -> "encerrada"

Status(s) == Estado(inscricao[s])
LinhaInscricao(s) == Estado(SubSeq(inscricao[s], 1, inscricaoLida[s]))
Ativos == {"pendente", "aprovada_pendente_pagamento", "vinculada"}
ExisteAtiva == \E s \in Inscricoes : LinhaInscricao(s) \in Ativos

DeletarServicoExtra ==
    /\ ~ExisteAtiva   \* CountAtivasPorServico
    /\ ~Servico.deletado /\ ~Servico.ativo
    /\ Altera(Deletado)

Comeca(h, passo, s, evento) ==
    /\ operador[h] = Livre
    /\ operacoes < MaxOperacoes
    /\ operacoes' = operacoes + 1
    /\ operador' = [operador EXCEPT ![h] = [passo |-> passo, s |-> s, evento |-> evento]]

Segue(h, passo) == operador' = [operador EXCEPT ![h].passo = passo]
Acaba(h) == operador' = [operador EXCEPT ![h] = Livre]

SolicitarServicoExtra(h, s) ==
    /\ ServicoLinha.ativo /\ ~ExisteAtiva
    /\ inscricao[s] = <<>> /\ \A g \in Operadores : operador[g].s # s
    /\ Comeca(h, "reservar", s, "Criada")
    /\ UNCHANGED <<servico, servicoLido, inscricao, inscricaoLida, vaga, inscritas, lancamento, expostas>>

WrongReserve(h) ==   \* fault: only a reservation in course is refused
    /\ operador[h].passo = "reservar"
    /\ \/ vaga \notin Operadores /\ vaga' = h /\ Segue(h, "gravar")
       \/ vaga \in Operadores /\ Acaba(h) /\ UNCHANGED vaga
    /\ UNCHANGED <<servico, servicoLido, inscricao, inscricaoLida, inscritas, lancamento, operacoes, expostas>>

Reserve(h) ==
    /\ operador[h].passo = "reservar"
    /\ \/ vaga = "livre" /\ vaga' = h /\ Segue(h, "gravar")
       \/ vaga # "livre" /\ Acaba(h) /\ UNCHANGED vaga
    /\ UNCHANGED <<servico, servicoLido, inscricao, inscricaoLida, inscritas, lancamento, operacoes, expostas>>

(* The document is refused or not stored, or the event is not saved.        *)
Release(h) ==
    /\ operador[h].passo = "gravar" /\ vaga = h
    /\ vaga' = "livre" /\ Acaba(h)
    /\ UNCHANGED <<servico, servicoLido, inscricao, inscricaoLida, inscritas, lancamento, operacoes, expostas>>

(* A recorded request is not in the read model, or another handler has      *)
(* looked there already.                                                    *)
Exposta ==
    \/ \E s \in Inscricoes : inscricao[s] # <<>> /\ inscricaoLida[s] = 0
    \/ \E g \in Operadores : operador[g].passo = "reservar"

Solta == vaga' = "livre" /\ expostas' = expostas + (IF Exposta' THEN 1 ELSE 0)

(* An error after the event was recorded: the deferred Release takes back a *)
(* reservation and a consumption alike, or fails with it.                   *)
Devolve(h) ==
    /\ Acaba(h)
    /\ \/ Solta
       \/ vaga' = Sobra /\ UNCHANGED expostas

(* The answer of the save may be lost after its commit.                     *)
SaveWithAudit(h) ==
    LET o == operador[h] IN
    /\ o.passo = "gravar"
    /\ inscricao' = [inscricao EXCEPT ![o.s] = Append(@, o.evento)]
    /\ UNCHANGED <<servico, servicoLido, inscricaoLida, inscritas, lancamento, operacoes>>
    /\ \/ /\ IF o.evento = "Criada" THEN Segue(h, "consumir") ELSE Acaba(h)
          /\ UNCHANGED <<vaga, expostas>>
       \/ o.evento = "Criada" /\ Devolve(h)

Consume(h) ==
    /\ operador[h].passo = "consumir"
    /\ UNCHANGED <<servico, servicoLido, inscricao, inscricaoLida, inscritas, lancamento, operacoes>>
    /\ \/ vaga' = "consumida" /\ Acaba(h) /\ UNCHANGED expostas   \* or it fails, and Release too
       \/ Devolve(h)

(* Decisions on the request as it was loaded *)
Decide(h, s, de, passo, evento) ==
    /\ Status(s) = de
    /\ Comeca(h, passo, s, evento)
    /\ UNCHANGED <<servico, servicoLido, inscricao, inscricaoLida, vaga, inscritas, lancamento, expostas>>

AprovarSolicitacaoServicoExtra(h, s) ==
    Decide(h, s, "pendente", "gravar",
           IF ServicoLinha.temTaxa THEN "AprovadaPendentePagamento" ELSE "Vinculada")

ReprovarSolicitacaoServicoExtra(h, s) == Decide(h, s, "pendente", "gravar", "Reprovada")

cancelarSolicitacaoServicoExtra(h, s) ==
    \/ Decide(h, s, "pendente", "gravar", "CanceladaAntesDaVinculacao")
    \/ Decide(h, s, "aprovada_pendente_pagamento", "cancelar", "CanceladaAntesDaVinculacao")
    \/ Decide(h, s, "vinculada", "gravar", "Cancelada")

(* The provider cancels the open charge, or says that it has been paid.     *)
CancelarCobrancaTaxaInscricaoServicoAberta(h) ==
    LET s == operador[h].s IN
    /\ operador[h].passo = "cancelar"
    /\ \/ /\ inscritas' = [inscritas EXCEPT ![s] = IF @ = "aberta" THEN "cancelada" ELSE @]
          /\ Segue(h, "gravar")
       \/ /\ inscritas[s] = "aberta"
          /\ inscritas' = [inscritas EXCEPT ![s] = "paga"]
          /\ Acaba(h)
    /\ UNCHANGED <<servico, servicoLido, inscricao, inscricaoLida, vaga, lancamento, operacoes, expostas>>

IniciarPagamentoTaxaInscricaoServicoExtra(s) ==
    /\ LinhaInscricao(s) = "aprovada_pendente_pagamento"
    /\ inscritas[s] \in {"nenhuma", "cancelada"}
    /\ operacoes < MaxOperacoes /\ operacoes' = operacoes + 1
    /\ inscritas' = [inscritas EXCEPT ![s] = "aberta"]
    /\ UNCHANGED <<servico, servicoLido, inscricao, inscricaoLida, vaga, lancamento, operador, expostas>>

Paga(s) ==
    /\ inscritas[s] = "aberta"
    /\ inscritas' = [inscritas EXCEPT ![s] = "paga"]
    /\ UNCHANGED <<servico, servicoLido, inscricao, inscricaoLida, vaga, lancamento,
                   operador, operacoes, expostas>>

efetivarVinculoServicoExtraPago(h, s) ==
    inscritas[s] = "paga" /\ Decide(h, s, "aprovada_pendente_pagamento", "gravar", "Vinculada")

estadoObrigacaoServicoExtra(s) ==
    IF lancamento[s] # <<>> /\ Last(lancamento[s]) = "anulada" THEN "anulado" ELSE "pendente"

(* Whatever the status of the request is.                                   *)
alterarObrigacaoServicoExtra(s, evento) ==
    /\ inscricao[s] # <<>>
    /\ evento = "reativada" => estadoObrigacaoServicoExtra(s) = "anulado"
    /\ operacoes < MaxOperacoes /\ operacoes' = operacoes + 1
    /\ lancamento' = [lancamento EXCEPT ![s] = Append(@, evento)]
    /\ UNCHANGED <<servico, servicoLido, inscricao, inscricaoLida, vaga, inscritas, operador, expostas>>

-----------------------------------------------------------------------------
(* An event the table refuses is tried again for ever: the projection stops.*)
ProjetaServico ==
    /\ servicoLido < Len(servico) /\ Aceita(ServicoLinha, servico[servicoLido + 1])
    /\ servicoLido' = servicoLido + 1
    /\ UNCHANGED <<servico, inscricao, inscricaoLida, vaga, inscritas, lancamento,
                   operador, operacoes, expostas>>

(* ux_sol_servico_extra_ativa: the table refuses a second active request,   *)
(* and the projection stops there.                                          *)
ProjetaInscricao(s) ==
    /\ inscricaoLida[s] < Len(inscricao[s])
    /\ inscricaoLida[s] = 0 => ~ExisteAtiva
    /\ inscricaoLida' = [inscricaoLida EXCEPT ![s] = @ + 1]
    /\ UNCHANGED <<servico, servicoLido, inscricao, vaga, inscritas, lancamento,
                   operador, operacoes, expostas>>

Interrompe(h) ==
    /\ operador[h] # Livre
    /\ vaga' = IF vaga = h THEN Sobra ELSE vaga
    /\ Acaba(h)
    /\ UNCHANGED <<servico, servicoLido, inscricao, inscricaoLida, inscritas, lancamento, operacoes, expostas>>

(* Thirty minutes later: no handler that looked before is still at work,    *)
(* and the read model is taken to be less late than that, unless its table  *)
(* refuses the request.                                                     *)
ExpiraVaga ==
    /\ vaga = Sobra
    /\ \A s \in Inscricoes : inscricaoLida[s] > 0 \/ inscricao[s] = <<>> \/ ExisteAtiva
    /\ \A h \in Operadores : operador[h].passo # "reservar"
    /\ UNCHANGED <<servico, servicoLido, inscricao, inscricaoLida, inscritas, lancamento,
                   operador, operacoes>>
    /\ Solta

Init ==
    /\ servico \in {<<Criado(TRUE)>>, <<Criado(FALSE)>>} /\ servicoLido = 1
    /\ inscricao = [s \in Inscricoes |-> <<>>] /\ inscricaoLida = [s \in Inscricoes |-> 0]
    /\ vaga = "livre"
    /\ inscritas = [s \in Inscricoes |-> "nenhuma"] /\ lancamento = [s \in Inscricoes |-> <<>>]
    /\ operador = [h \in Operadores |-> Livre] /\ operacoes = 0 /\ expostas = 0

Handler(h) ==
    \/ Reserve(h) \/ Release(h) \/ SaveWithAudit(h) \/ Consume(h)
    \/ CancelarCobrancaTaxaInscricaoServicoAberta(h)
    \/ \E s \in Inscricoes :
          \/ SolicitarServicoExtra(h, s)
          \/ AprovarSolicitacaoServicoExtra(h, s) \/ ReprovarSolicitacaoServicoExtra(h, s)
          \/ cancelarSolicitacaoServicoExtra(h, s) \/ efetivarVinculoServicoExtraPago(h, s)

Next ==
    \/ AtualizarServicoExtra \/ DesativarServicoExtra \/ ReativarServicoExtra
    \/ DeletarServicoExtra \/ ProjetaServico \/ ExpiraVaga
    \/ \E h \in Operadores : Handler(h) \/ Interrompe(h)
    \/ \E s \in Inscricoes :
          \/ IniciarPagamentoTaxaInscricaoServicoExtra(s) \/ Paga(s) \/ ProjetaInscricao(s)
          \/ \E evento \in {"anulada", "reativada"} : alterarObrigacaoServicoExtra(s, evento)

Spec == Init /\ [][Next]_vars

-----------------------------------------------------------------------------
TypeOK ==
    /\ servicoLido \in 1..Len(servico)
    /\ \A s \in Inscricoes : inscricaoLida[s] \in 0..Len(inscricao[s])
    /\ vaga \in Operadores \cup {"livre", "consumida", Sobra}
    /\ \A s \in Inscricoes : inscritas[s] \in {"nenhuma", "aberta", "cancelada", "paga"}

(* Each request of a student beyond the first that waits for the academy     *)
(* goes back to one freeing of the guard while a recorded request was not in *)
(* the read model or another handler had looked already: a save whose answer *)
(* was lost, or a Consume that failed.  Otherwise a student never has two    *)
(* pending requests for one service, although SolicitarServicoExtra looks    *)
(* them up in a late read model.                                             *)
OnePendingInscription ==
    Cardinality({s \in Inscricoes : Status(s) = "pendente"}) <= 1 + expostas

(* "para o resultado final nunca violar o CHECK constraint da tabela"       *)
(* (domain/aggregates/servico_extra.go:447): the row of a service takes     *)
(* every update the aggregate accepts.                                      *)
UpdatesFitTheTable ==
    servicoLido < Len(servico) => Aceita(ServicoLinha, servico[servicoLido + 1])
=============================================================================
