---------------------------- MODULE Mensalidade ----------------------------
(***************************************************************************)
(* What a student owes of one school year, and at what price               *)
(* (internal/finance/mensalidade.go, mensalidade_vigencia.go,              *)
(* mensalidade_pendencias*.go, pagamentos_unificado.go).                   *)
(*                                                                         *)
(* Prices are versions that are never rewritten: a month takes the version *)
(* in force on its first day, the first version for the months before it,  *)
(* and, while it is pending, the latest version when that one was made for *)
(* everything pending.  Nothing of a month is stored but the events that   *)
(* paid, annulled or reinstated it: the list is computed when it is read.  *)
(*                                                                         *)
(* One academy, one scope (level, year, course), one student.  A request    *)
(* checks what it may pay or annul, talks to the provider, and records: its *)
(* record is a step of its own, which may come late or never, and nothing   *)
(* is checked again.                                                        *)
(***************************************************************************)
EXTENDS Integers, Sequences, FiniteSetsExt, SequencesExt

CONSTANTS
    Superior,      \* the academy teaches at superior level: its year begins in October
    Escolhas,      \* bound: the months a payment or a decision may name at will
    Instantes,     \* bound: the points of the year at which something happens
    MesesInicio,   \* bound: the months tried as the first to charge
    MaxRegistos,   \* bound: configurations, removals, charges and requests in progress
    Pagadores      \* HTTP requests about payments and obligations at once

Nenhum == 0   \* ErrNotFound, no month, no charge
APartir == "a_partir_da_atualizacao"
Pendentes == "cobrancas_pendentes"

VARIABLES
    configs,    \* configuration events of the scope, in the order of the ledger
    inicio,     \* the month DefinirMesInicioCobranca put first, or Nenhum
    obrigacao,  \* what precedenciaEstado makes of each month's events
    cobrancas,  \* the charges: the months each is for, whether it was born paid, its status
    hoje,       \* point of the school year: 0 is before it begins
    pagador,    \* what each request has checked and has yet to record
    repetidas   \* history: months a second charge was asked or put back to waiting for

vars == <<configs, inicio, obrigacao, cobrancas, hoje, pagador, repetidas>>

Livre == [op |-> "livre", meses |-> {}]

-----------------------------------------------------------------------------
(* The school year *)

mesNaturalInicioAnoLetivo == IF Superior THEN 10 ELSE 9

posicaoNoAnoLetivo(mes) ==
    IF mes >= mesNaturalInicioAnoLetivo
    THEN mes - mesNaturalInicioAnoLetivo + 1
    ELSE mes + (12 - mesNaturalInicioAnoLetivo) + 1

\* The last month is July, whatever the first.
mesesAnoLetivo ==
    [i \in 1..(13 - mesNaturalInicioAnoLetivo) |-> mesNaturalInicioAnoLetivo + i - 1]
      \o [i \in 1..7 |-> i]

mesInicioEfetivo == IF inicio = Nenhum THEN mesNaturalInicioAnoLetivo ELSE inicio

-----------------------------------------------------------------------------
(* Versions.  Events of a point of the year come after the first day of    *)
(* the month of that point; those of one point are told apart by order.    *)

Agora == hoje + 1   \* a reference after every event so far
Versoes == {i \in DOMAIN configs : configs[i].tipo = "Configurada"}

\* fault: a later removal takes a version away from every month
WrongRemovidaEntre(i, referencia) ==
    \E j \in DOMAIN configs : j > i /\ configs[j].tipo = "Removida"

RemovidaEntre(i, referencia) ==
    \E j \in DOMAIN configs :
        j > i /\ configs[j].tipo = "Removida" /\ configs[j].em < referencia

(* The version in force at a reference, or the earliest one after it.  A    *)
(* removal counts only against a version that was in force.                 *)
resolveConfiguracao(referencia) ==
    LET vigentes == {i \in Versoes : configs[i].em < referencia}
    IN  CASE vigentes # {} ->
                IF RemovidaEntre(Max(vigentes), referencia) THEN Nenhum ELSE Max(vigentes)
          [] vigentes = {} /\ Versoes # {} -> Min(Versoes)
          [] OTHER -> Nenhum

(* What is pending follows the latest version when it was made for that,    *)
(* and has no price once the latest version is removed.                     *)
resolveConfiguracaoEfetiva(referencia, pendente) ==
    IF pendente /\ Versoes # {}
    THEN LET ultima == Max(Versoes)
         IN  IF RemovidaEntre(ultima, Agora) THEN Nenhum
             ELSE IF configs[ultima].modo = Pendentes THEN ultima
             ELSE resolveConfiguracao(referencia)
    ELSE resolveConfiguracao(referencia)

ConfiguracaoDoMes(mes, pendente) ==
    resolveConfiguracaoEfetiva(posicaoNoAnoLetivo(mes), pendente)

DentroDoPeriodo(mes, c) ==
    /\ c # Nenhum
    /\ posicaoNoAnoLetivo(mes) >= posicaoNoAnoLetivo(mesInicioEfetivo)
    /\ posicaoNoAnoLetivo(mes) <= posicaoNoAnoLetivo(configs[c].fim)

Preco(mes) == ConfiguracaoDoMes(mes, obrigacao[mes] = "pendente")
Devido(mes) == DentroDoPeriodo(mes, Preco(mes))

(* The loops that keep some of a list, in its order.                        *)
Filtrar(lista, quais) ==
    LET f[i \in 0..Len(lista)] ==
            IF i = 0 THEN <<>>
            ELSE IF lista[i] \in quais THEN Append(f[i - 1], lista[i]) ELSE f[i - 1]
    IN  f[Len(lista)]

\* The price of a version is told by its place in the history.
Linha(mes, c, estado) == [mes |-> mes, valor |-> c, estado |-> estado]

(* What the student owes or owed, month after month.                        *)
ListMensalidades ==
    LET meses == Filtrar(mesesAnoLetivo, {m \in Range(mesesAnoLetivo) : Devido(m)})
    IN  [i \in DOMAIN meses |-> Linha(meses[i], Preco(meses[i]), obrigacao[meses[i]])]

PendenciasSemCobrancaEstudante ==
    LET linhas == ListMensalidades
    IN  Filtrar(linhas, {l \in Range(linhas) : l.estado = "pendente"})

(* The same for a whole class, from queries of its own: the state first,    *)
(* then the price of what is pending.                                       *)
PendenciasSemCobranca ==
    LET pendentes == Filtrar(mesesAnoLetivo, {m \in Range(mesesAnoLetivo) :
            obrigacao[m] = "pendente" /\ DentroDoPeriodo(m, ConfiguracaoDoMes(m, TRUE))})
    IN  [i \in DOMAIN pendentes |->
            Linha(pendentes[i], ConfiguracaoDoMes(pendentes[i], TRUE), "pendente")]

-----------------------------------------------------------------------------
(* The list of payments: what is due, then the charges, page by page *)

mensalidadeTemCobrancaAberta(mes) ==
    \E c \in Range(cobrancas) : c.status = "aberta" /\ mes \in c.meses

FiltrarPendenciasComCobrancaRealVinculada(pendencias) ==
    Filtrar(pendencias, {l \in Range(pendencias) : ~mensalidadeTemCobrancaAberta(l.mes)})

\* The charges, the latest first.
ListCobrancas == Reverse(cobrancas)

buscarCobrancas(limit, offset) ==
    SubSeq(ListCobrancas, offset + 1, Min({offset + limit, Len(ListCobrancas)}))

\* fault: the charges are paged as if nothing came before them
WrongListarPagamentosUnificado(pendencias, limit, offset) ==
    LET total == Len(pendencias)
        naPagina == SubSeq(pendencias, offset + 1, Min({offset + limit, total}))
    IN  IF offset < total
        THEN naPagina \o buscarCobrancas(limit - Len(naPagina), 0)
        ELSE buscarCobrancas(limit, offset)

ListarPagamentosUnificado(pendencias, limit, offset) ==
    LET total == Len(pendencias)
        naPagina == SubSeq(pendencias, offset + 1, Min({offset + limit, total}))
    IN  IF offset < total
        THEN naPagina \o buscarCobrancas(limit - Len(naPagina), 0)
        ELSE buscarCobrancas(limit, offset - total)

-----------------------------------------------------------------------------
Init ==
    /\ configs = <<>>
    /\ inicio = Nenhum
    /\ obrigacao = [m \in Range(mesesAnoLetivo) |-> "pendente"]
    /\ cobrancas = <<>>
    /\ hoje = 0
    /\ pagador = [h \in Pagadores |-> Livre]
    /\ repetidas = {}

EmCurso == {h \in Pagadores : pagador[h] # Livre}
HaEspaco == Len(configs) + Len(cobrancas) + Cardinality(EmCurso) < MaxRegistos

Registrar(e) ==
    /\ HaEspaco
    /\ configs' = Append(configs, e)

(* A first configuration need not say for which months it is; an update     *)
(* must.                                                                    *)
resolverModoVigenciaMensalidade(modo) ==
    IF modo = "" THEN Pendentes ELSE modo

ConfigureMensalidade(fim, modo) ==
    /\ modo = "" => resolveConfiguracao(Agora) = Nenhum
    /\ Registrar([tipo |-> "Configurada", em |-> hoje, fim |-> fim,
                  modo |-> resolverModoVigenciaMensalidade(modo)])
    /\ UNCHANGED <<inicio, obrigacao, cobrancas, hoje, pagador, repetidas>>

RemoveMensalidadeConfiguracao ==
    /\ resolveConfiguracao(Agora) # Nenhum
    /\ Registrar([tipo |-> "Removida", em |-> hoje])
    /\ UNCHANGED <<inicio, obrigacao, cobrancas, hoje, pagador, repetidas>>

\* The view of current configurations: the latest version, unless it was removed.
ConfiguracaoAtual ==
    IF Versoes # {} /\ ~RemovidaEntre(Max(Versoes), Agora) THEN Max(Versoes) ELSE Nenhum

limiteFimAnoLetivo ==
    IF ConfiguracaoAtual = Nenhum THEN 7 ELSE configs[ConfiguracaoAtual].fim

DefinirMesInicioCobranca(mes) ==
    /\ posicaoNoAnoLetivo(mes) <= posicaoNoAnoLetivo(limiteFimAnoLetivo)
    /\ inicio' = mes
    /\ UNCHANGED <<configs, obrigacao, cobrancas, hoje, pagador, repetidas>>

RemoveMesInicioCobranca ==
    /\ inicio # Nenhum
    /\ inicio' = Nenhum
    /\ UNCHANGED <<configs, obrigacao, cobrancas, hoje, pagador, repetidas>>

\* Every one of these months is due, pending and without an open charge.
PodemSerPagas(meses) ==
    /\ \A m \in meses : obrigacao[m] = "pendente" /\ Devido(m)
    /\ ~\E m \in meses : mensalidadeTemCobrancaAberta(m)

Atende(h) == pagador[h] = Livre /\ HaEspaco
Pede(h, op, meses) == pagador' = [pagador EXCEPT ![h] = [op |-> op, meses |-> meses]]

Larga(h) == pagador' = [pagador EXCEPT ![h] = Livre]

\* A request has checked that the month may be paid, and makes its charge.
EmPedido(mes) == \E g \in Pagadores : pagador[g].op = "cobranca" /\ mes \in pagador[g].meses

(* One charge for the months a student selects, the oldest pending one      *)
(* among them, by a method of the configuration in force.                   *)
IniciarPagamentoMensalidades(h, escolha) ==
    /\ Atende(h)
    /\ ConfiguracaoAtual # Nenhum
    /\ PendenciasSemCobrancaEstudante # <<>>
    /\ LET meses == escolha \cup {Head(PendenciasSemCobrancaEstudante).mes}
       IN  /\ PodemSerPagas(meses)
           /\ Pede(h, "cobranca", meses)
           /\ repetidas' = repetidas \cup {m \in meses : EmPedido(m)}
    /\ UNCHANGED <<configs, inicio, obrigacao, cobrancas, hoje>>

(* Months paid outside the platform are a charge that is born paid.         *)
RegistrarPagamentoExternoMensalidades(h, meses) ==
    /\ Atende(h) /\ PodemSerPagas(meses)
    /\ Pede(h, "externo", meses)
    /\ UNCHANGED <<configs, inicio, obrigacao, cobrancas, hoje, repetidas>>

(* The charge is recorded, whatever has become of its months meanwhile.     *)
CreateCharge(h) ==
    LET p == pagador[h] IN
    /\ p.op \in {"cobranca", "externo"}
    /\ cobrancas' = Append(cobrancas, [meses |-> p.meses, externo |-> p.op = "externo",
            status |-> IF p.op = "externo" THEN "paga" ELSE "aberta"])
    /\ Larga(h)
    /\ UNCHANGED <<configs, inicio, obrigacao, hoje, repetidas>>

(* A charge has the status of its last event: an answer of the provider, a  *)
(* cancellation or a payment outside the platform, however late (Cobranca   *)
(* has the steps; failed, expired and cancelled are one here).  One born    *)
(* paid has no provider.                                                    *)
EstadoDaCobranca(i, status) ==
    LET c == cobrancas[i] IN
    /\ ~c.externo /\ c.status # status
    /\ cobrancas' = [cobrancas EXCEPT ![i].status = status]
    /\ repetidas' = repetidas \cup
           {m \in c.meses : status = "aberta" /\ (mensalidadeTemCobrancaAberta(m) \/ EmPedido(m))}
    /\ UNCHANGED <<configs, inicio, obrigacao, hoje, pagador>>

(* A month that was paid stays so; one reinstated was annulled.             *)
precedenciaEstado(estado, evento) ==
    CASE evento = "paga" -> "pago"
      [] evento = "anulada" /\ estado # "pago" -> "anulado"
      [] evento = "reativada" /\ estado = "anulado" -> "pendente"
      [] OTHER -> estado

Registado(meses, evento) ==
    obrigacao' = [m \in DOMAIN obrigacao |->
        IF m \in meses THEN precedenciaEstado(obrigacao[m], evento) ELSE obrigacao[m]]

(* A charge that was paid pays all of its months.                           *)
confirmMensalidadeCharge(i) ==
    /\ cobrancas[i].status = "paga"
    /\ Registado(cobrancas[i].meses, "paga")
    /\ UNCHANGED <<configs, inicio, cobrancas, hoje, pagador, repetidas>>

garantirObrigacaoMensalidadeSemPagamento(mes) ==
    ~\E c \in Range(cobrancas) : c.status = "paga" /\ mes \in c.meses

(* An academy annuls a month that is due, which cancels its open charges    *)
(* whatever else they are for, or reinstates one that is annulled.          *)
AnularObrigacoesMensalidade(h, mes) ==
    /\ Atende(h) /\ obrigacao[mes] # "pago" /\ Devido(mes)
    /\ garantirObrigacaoMensalidadeSemPagamento(mes)
    /\ cobrancas' = [i \in DOMAIN cobrancas |->
            IF cobrancas[i].status = "aberta" /\ mes \in cobrancas[i].meses
            THEN [cobrancas[i] EXCEPT !.status = "encerrada"] ELSE cobrancas[i]]
    /\ Pede(h, "anulada", {mes})
    /\ UNCHANGED <<configs, inicio, obrigacao, hoje, repetidas>>

ReativarObrigacoesMensalidade(h, mes) ==
    /\ Atende(h) /\ obrigacao[mes] = "anulado" /\ Devido(mes)
    /\ garantirObrigacaoMensalidadeSemPagamento(mes)
    /\ Pede(h, "reativada", {mes})
    /\ UNCHANGED <<configs, inicio, obrigacao, cobrancas, hoje, repetidas>>

recordMensalidade(h) ==
    /\ pagador[h].op \in {"anulada", "reativada"}
    /\ Registado(pagador[h].meses, pagador[h].op)
    /\ Larga(h)
    /\ UNCHANGED <<configs, inicio, cobrancas, hoje, repetidas>>

(* The request fails before its record, which is never made.                *)
Desiste(h) ==
    /\ pagador[h] # Livre
    /\ Larga(h)
    /\ UNCHANGED <<configs, inicio, obrigacao, cobrancas, hoje, repetidas>>

Passar ==
    /\ \E i \in Instantes : i > hoje
    /\ hoje' = Min({i \in Instantes : i > hoje})
    /\ UNCHANGED <<configs, inicio, obrigacao, cobrancas, pagador, repetidas>>

Pedido(h) ==
    \/ \E meses \in SUBSET Escolhas :
        \/ IniciarPagamentoMensalidades(h, meses)
        \/ meses # {} /\ RegistrarPagamentoExternoMensalidades(h, meses)
    \/ \E m \in Escolhas :
        AnularObrigacoesMensalidade(h, m) \/ ReativarObrigacoesMensalidade(h, m)
    \/ CreateCharge(h) \/ recordMensalidade(h) \/ Desiste(h)

Next ==
    \/ \E fim \in {6, 7}, modo \in {"", APartir, Pendentes} :
        ConfigureMensalidade(fim, modo)
    \/ RemoveMensalidadeConfiguracao
    \/ \E m \in MesesInicio : DefinirMesInicioCobranca(m)
    \/ RemoveMesInicioCobranca
    \/ \E h \in Pagadores : Pedido(h)
    \/ \E i \in DOMAIN cobrancas :
        \/ \E status \in {"aberta", "paga", "encerrada"} : EstadoDaCobranca(i, status)
        \/ confirmMensalidadeCharge(i)
    \/ Passar

Spec == Init /\ [][Next]_vars

-----------------------------------------------------------------------------
(* Every variable has the values the code gives it.                         *)
TypeOK ==
    /\ \A i \in DOMAIN configs : configs[i].tipo \in {"Configurada", "Removida"}
    /\ inicio \in {Nenhum} \cup MesesInicio
    /\ obrigacao \in [Range(mesesAnoLetivo) -> {"pendente", "pago", "anulado"}]
    /\ \A i \in DOMAIN cobrancas : cobrancas[i].status \in {"aberta", "paga", "encerrada"}
    /\ hoje \in {0} \cup Instantes

(* The price of a month that has begun and was paid or annulled is history: *)
(* no later configuration or removal changes it, nor takes the month off    *)
(* the list (resolveConfiguracao: versions and removals later than the      *)
(* reference are not considered).                                           *)
PastPriceKept ==
    \A m \in Range(mesesAnoLetivo) :
        /\ obrigacao[m] # "pendente" /\ obrigacao'[m] = obrigacao[m]
        /\ hoje >= posicaoNoAnoLetivo(m) /\ inicio' = inicio
        /\ Devido(m)
        => Devido(m)' /\ Preco(m)' = Preco(m)

PastPricesStand == [][PastPriceKept]_vars

(* Whoever turns the pages of the list of payments, of any size, sees each  *)
(* month the student can still pay once as pending, or in the charge that   *)
(* waits for its payment, and never both; then each charge, and nothing     *)
(* twice (ListarPagamentosUnificado over FiltrarPendenciasComCobrancaReal-  *)
(* Vinculada; the months of the class query are those of the student's).    *)
(* Two charges wait for one month only after two requests overlapped, or    *)
(* the provider put an ended charge back to waiting beside another.         *)
NothingDueIsHidden ==
    LET pendencias == FiltrarPendenciasComCobrancaRealVinculada(PendenciasSemCobranca)
        todos == pendencias \o ListCobrancas
        esperam(mes) == {i \in DOMAIN cobrancas :
                            cobrancas[i].status = "aberta" /\ mes \in cobrancas[i].meses}
    IN  /\ \A l \in Range(PendenciasSemCobrancaEstudante) :
              /\ Cardinality({i \in DOMAIN pendencias : pendencias[i] = l})
                    = IF esperam(l.mes) = {} THEN 1 ELSE 0
              /\ Cardinality(esperam(l.mes)) > 1 => l.mes \in repetidas
        /\ \A limit \in 1..3 : \A offset \in 0..Len(todos) :
              ListarPagamentosUnificado(pendencias, limit, offset) =
                SubSeq(todos, offset + 1, Min({offset + limit, Len(todos)}))
=============================================================================
