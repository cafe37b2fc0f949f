---------------------------- MODULE PartesProofs ----------------------------
(***************************************************************************)
(* Proofs about six of the parts of Dominio: monthly fees, enrolment,      *)
(* requests to change a datum, extra services, final assessment and rules. *)
(* Each is instantiated where its proofs begin; DominioProofs concludes    *)
(* what they show of every behaviour.                                      *)
(***************************************************************************)
EXTENDS Integers, FiniteSets, Sequences, FiniteSetTheorems, TLAPS

CONSTANTS
    Superior, Escolhas, Instantes, MesesInicio, MaxRegistos, Pagadores,
    Candidaturas, ComBI, Atendentes, MaxAtendidos, MaxCobrancas,
    Inscricoes, Operadores, MaxOperacoes, MaxAlteracoes,
    Materias, Pendenciaveis, Limite, Escolas, Valores, Minima, UltimoNivel,
    UltimoAno, Docentes, MaxNotas,
    TiposRegra, Gestores, MaxRegras, MaxGestoes,
    Requests, Deciders, MaxKinds

VARIABLES
    configs, inicio, obrigacao, cobrancas, hoje, pagador, repetidas,
    solicitacao, lida, estudantes, guarda, cobranca, taxa, atendente, atendidos,
    descobertas,
    servico, servicoLido, inscricao, inscricaoLida, vaga, inscritas, lancamento,
    operador, operacoes, expostas,
    ensino, anoLetivo, percurso, percursoLido, estudante, docente, notas,
    regras, gestor, gestoes, sobrepostas,
    guard, creator, decider, log, projected, applied, docs, failed, shape

-----------------------------------------------------------------------------
(* What the proofs of several parts use.                                    *)

(* A set of natural numbers that is not empty has a least element: its      *)
(* initial segments are finite sets.                                        *)
LEMMA Primeiro ==
    ASSUME NEW Z \in SUBSET Nat, Z # {}
    PROVE  \E x \in Z : \A y \in Z : x <= y
  <1> DEFINE Abaixo == {0 .. x : x \in Z}
  <1>1. Abaixo \subseteq FiniteSubsetsOf(Nat) /\ Abaixo # {}
    <2>1. ASSUME NEW x \in Z PROVE 0 .. x \in SUBSET Nat /\ IsFiniteSet(0 .. x)
      BY FS_Interval
    <2> QED
      BY <2>1 DEF FiniteSubsetsOf
  <1>2. PICK B \in Abaixo : \A D \in Abaixo : ~(<<D, B>> \in StrictSubsetOrdering(Nat))
    BY <1>1, WFMin, FS_StrictSubsetOrderingWellFounded
  <1>3. PICK x \in Z : B = 0 .. x
    OBVIOUS
  <1>4. ASSUME NEW y \in Z, y < x PROVE FALSE
    <2>1. 0 .. y \in Abaixo /\ 0 .. y \in SUBSET Nat /\ 0 .. x \in SUBSET Nat
      OBVIOUS
    <2>2. 0 .. y \subseteq 0 .. x /\ x \in 0 .. x /\ x \notin 0 .. y
      BY <1>4
    <2> QED
      BY <1>2, <1>3, <2>1, <2>2 DEF StrictSubsetOrdering
  <1> QED
    BY <1>4

(* A finite set of positions has a last one.                                *)
LEMMA HaUltimo ==
    ASSUME NEW n \in Nat, NEW D \in SUBSET (1..n), D # {}
    PROVE  \E k \in D : \A i \in D : i <= k
  <1> DEFINE O == {n - x : x \in D}
  <1>1. O \in SUBSET Nat /\ O # {}
    <2>1. ASSUME NEW x \in D PROVE x \in Int /\ n - x \in Nat
      OBVIOUS
    <2> QED
      BY <2>1
  <1>2. PICK o \in O : \A y \in O : o <= y
    BY <1>1, Primeiro
  <1>3. PICK x \in D : o = n - x
    BY <1>2
  <1>4. ASSUME NEW y \in D PROVE y <= x
    <2>1. x \in Int /\ y \in Int /\ n - y \in O
      OBVIOUS
    <2>2. n - x <= n - y
      BY <1>2, <1>3, <2>1
    <2> QED
      BY <2>1, <2>2
  <1> QED
    BY <1>4

-----------------------------------------------------------------------------
(* Monthly fees.  What is recorded later is of today, and counts for no     *)
(* month that began before.                                                 *)

P == INSTANCE Mensalidade
MensalidadeHipoteses == Instantes \subseteq Nat

Registos == [tipo : {"Configurada"}, em : Nat, fim : {6, 7}, modo : {P!APartir, P!Pendentes}]
              \cup [tipo : {"Removida"}, em : Nat]
IMensalidade == configs \in Seq(Registos) /\ hoje \in Nat

(* What a step may do to the prices.                                        *)
Regista == hoje' = hoje /\ \E e \in Registos : e.em = hoje /\ configs' = Append(configs, e)

(* It is what Max chooses.                                                  *)
LEMMA MaxIsGreatest ==
    ASSUME NEW n \in Nat, NEW Z \in SUBSET (1..n), Z # {}
    PROVE  P!Max(Z) \in Z
  <1>1. \E z \in Z : \A y \in Z : z >= y
    <2>1. PICK k \in Z : \A i \in Z : i <= k
      BY HaUltimo
    <2>2. \A i \in Z : i \in Int
      OBVIOUS
    <2> QED
      BY <2>1, <2>2
  <1> QED
    BY <1>1 DEF P!Max

(* The least of a set, once one greater than all of them is added.          *)
LEMMA MinStays ==
    ASSUME NEW Z \in SUBSET Nat, Z # {}, NEW z \in Nat, \A y \in Z : y < z
    PROVE  P!Min(Z) \in Z /\ P!Min(Z \cup {z}) = P!Min(Z)
  <1>2. \E x \in Z : \A y \in Z : x <= y
    BY Primeiro
  <1>3. P!Min(Z) \in Z /\ \A y \in Z : P!Min(Z) <= y
    BY <1>2 DEF P!Min
  <1>4. \E x \in Z \cup {z} : \A y \in Z \cup {z} : x <= y
    <2>1. P!Min(Z) \in Nat /\ P!Min(Z) < z
      BY <1>3
    <2>2. \A y \in Z \cup {z} : P!Min(Z) <= y
      BY <1>3, <2>1
    <2> QED
      BY <1>3, <2>2
  <1>5. P!Min(Z \cup {z}) \in Z \cup {z} /\ \A y \in Z \cup {z} : P!Min(Z \cup {z}) <= y
    BY <1>4 DEF P!Min
  <1> DEFINE a == P!Min(Z)
             b == P!Min(Z \cup {z})
  <1>6. a \in Nat /\ b \in Nat /\ a < z /\ a <= b /\ b <= a
    <2>1. a \in Nat /\ a < z /\ b <= a
      BY <1>3, <1>5
    <2>2. b # z
      BY <2>1
    <2> QED
      BY <1>3, <1>5, <2>1, <2>2
  <1>7. a = b
    <2> HIDE DEF a, b
    <2> QED
      BY <1>6
  <1> QED
    BY <1>3, <1>7

(* The price of a month that has begun is not changed by what comes later.  *)
LEMMA PrecoFica ==
    ASSUME IMensalidade, Regista, NEW r \in Int, r <= hoje, P!resolveConfiguracao(r) # P!Nenhum
    PROVE  /\ P!resolveConfiguracao(r) \in DOMAIN configs
           /\ P!resolveConfiguracao(r)' = P!resolveConfiguracao(r)
  <1> DEFINE n == Len(configs)
             vigentes == {i \in P!Versoes : configs[i].em < r}
             depois == {i \in P!Versoes' : configs'[i].em < r}
  <1>1. PICK e \in Registos : e.em = hoje /\ configs' = Append(configs, e)
    BY DEF Regista
  <1>2. /\ n \in Nat /\ DOMAIN configs = 1..n /\ DOMAIN configs' = 1..(n + 1)
        /\ \A i \in 1..n : configs'[i] = configs[i]
        /\ configs'[n + 1] = e
        /\ hoje \in Nat
    BY <1>1 DEF IMensalidade
  <1>3. P!Versoes \in SUBSET (1..n) /\ (P!Versoes' = P!Versoes \/ P!Versoes' = P!Versoes \cup {n + 1})
    BY <1>2 DEF P!Versoes
  <1>4. depois = vigentes
    BY <1>1, <1>2 DEF P!Versoes
  <1>5. ASSUME NEW i PROVE P!RemovidaEntre(i, r)' <=> P!RemovidaEntre(i, r)
    BY <1>1, <1>2 DEF P!RemovidaEntre
  <1>6. CASE vigentes # {}
    <2>1. P!Max(vigentes) \in vigentes
      BY <1>2, <1>3, <1>6, MaxIsGreatest
    <2>2. PICK m \in 1..n : m = P!Max(vigentes)
      BY <1>3, <2>1
    <2>3. P!resolveConfiguracao(r) = IF P!RemovidaEntre(m, r) THEN P!Nenhum ELSE m
      BY <1>6, <2>2 DEF P!resolveConfiguracao
    <2>4. m = P!Max(depois) /\ depois # {}
      BY <1>4, <1>6, <2>2
    <2>5. P!resolveConfiguracao(r)' = IF P!RemovidaEntre(m, r)' THEN P!Nenhum ELSE m
      BY <2>4 DEF P!resolveConfiguracao
    <2> QED
      BY <1>2, <1>5, <2>3, <2>5
  <1>7. CASE vigentes = {}
    <2>1. P!Versoes # {} /\ P!resolveConfiguracao(r) = P!Min(P!Versoes)
      BY <1>7 DEF P!resolveConfiguracao
    <2>2. P!Versoes' # {} /\ P!resolveConfiguracao(r)' = P!Min(P!Versoes')
      BY <1>3, <1>4, <1>7, <2>1 DEF P!resolveConfiguracao
    <2>3. P!Versoes \in SUBSET Nat /\ n + 1 \in Nat /\ \A y \in P!Versoes : y < n + 1
      BY <1>2, <1>3
    <2>4. /\ P!Min(P!Versoes) \in P!Versoes
          /\ P!Min(P!Versoes \cup {n + 1}) = P!Min(P!Versoes)
      BY <2>1, <2>3, MinStays
    <2> QED
      BY <1>2, <1>3, <2>1, <2>2, <2>4
  <1> QED
    BY <1>6, <1>7

(* Every step records one event of today, or none.                          *)
LEMMA MensalidadeStep ==
    ASSUME IMensalidade, [P!Next]_P!vars, Instantes \subseteq Nat
    PROVE  Regista \/ (configs' = configs /\ hoje' \in Nat /\ hoje' >= hoje)
  <1>0. hoje \in Nat /\ configs \in Seq(Registos)
    BY DEF IMensalidade
  <1>1. ASSUME NEW fim \in {6, 7}, NEW modo \in {"", P!APartir, P!Pendentes},
               P!ConfigureMensalidade(fim, modo)
        PROVE  Regista
    <2>1. P!resolverModoVigenciaMensalidade(modo) \in {P!APartir, P!Pendentes}
      BY DEF P!resolverModoVigenciaMensalidade, P!APartir
    <2> DEFINE e == [tipo |-> "Configurada", em |-> hoje, fim |-> fim,
                     modo |-> P!resolverModoVigenciaMensalidade(modo)]
    <2>2. e \in Registos /\ e.em = hoje
      BY <1>0, <2>1 DEF Registos
    <2> QED
      BY <1>1, <2>2 DEF P!ConfigureMensalidade, P!Registrar, Regista
  <1>2. CASE P!RemoveMensalidadeConfiguracao
    <2> DEFINE e == [tipo |-> "Removida", em |-> hoje]
    <2>1. e \in Registos /\ e.em = hoje
      BY <1>0 DEF Registos
    <2> QED
      BY <1>2, <2>1 DEF P!RemoveMensalidadeConfiguracao, P!Registrar, Regista
  <1>3. CASE P!Passar
    <2> DEFINE Z == {i \in Instantes : i > hoje}
    <2>1. Z \in SUBSET Nat /\ Z # {} /\ hoje' = P!Min(Z) /\ configs' = configs
      BY <1>3 DEF P!Passar
    <2>2. P!Min(Z) \in Z
      <3> HIDE DEF Z
      <3>1. \E x \in Z : \A y \in Z : x <= y
        BY <2>1, Primeiro
      <3> QED
        BY <3>1 DEF P!Min
    <2> QED
      BY <1>0, <2>1, <2>2
  <1>4. CASE configs' = configs /\ hoje' = hoje
    BY <1>0, <1>4
  <1>5. ASSUME NEW h, P!Pedido(h) PROVE configs' = configs /\ hoje' = hoje
    BY <1>5 DEF P!Pedido, P!IniciarPagamentoMensalidades,
       P!RegistrarPagamentoExternoMensalidades, P!AnularObrigacoesMensalidade,
       P!ReativarObrigacoesMensalidade, P!CreateCharge, P!recordMensalidade, P!Desiste
  <1> QED
    BY <1>1, <1>2, <1>3, <1>4, <1>5
    DEF P!Next, P!vars, P!DefinirMesInicioCobranca, P!RemoveMesInicioCobranca,
        P!EstadoDaCobranca, P!confirmMensalidadeCharge

(* The events and the clock keep their types.                               *)
LEMMA MensalidadeNext ==
    ASSUME IMensalidade, [P!Next]_P!vars, Instantes \subseteq Nat
    PROVE  IMensalidade'
  <1>1. CASE Regista
    BY <1>1 DEF Regista, IMensalidade
  <1>2. CASE configs' = configs /\ hoje' \in Nat
    BY <1>2 DEF IMensalidade
  <1> QED
    BY <1>1, <1>2, MensalidadeStep

(* Months are numbers, whatever the first one is.                           *)
LEMMA Posicoes ==
    ASSUME NEW m \in P!Range(P!mesesAnoLetivo)
    PROVE  m \in Int /\ P!posicaoNoAnoLetivo(m) \in Int
  <1> DEFINE z == P!mesNaturalInicioAnoLetivo
             s == [i \in 1..(13 - z) |-> z + i - 1]
             t == [i \in 1..7 |-> i]
  <1>1. z \in {9, 10}
    BY DEF P!mesNaturalInicioAnoLetivo
  <1>2. s \in Seq(Int) /\ t \in Seq(Int)
    BY <1>1
  <1>3. s \o t \in Seq(Int) /\ P!mesesAnoLetivo = s \o t
    <2>1. P!mesesAnoLetivo = s \o t
      BY DEF P!mesesAnoLetivo
    <2> HIDE DEF s, t
    <2> QED
      BY <1>2, <2>1
  <1>4. m \in Int
    <2> HIDE DEF s, t
    <2> QED
      BY <1>3 DEF P!Range
  <1> QED
    BY <1>1, <1>4 DEF P!posicaoNoAnoLetivo

(* The price of a settled month stands.                                     *)
LEMMA MensalidadePreco ==
    ASSUME IMensalidade, [P!Next]_P!vars, Instantes \subseteq Nat
    PROVE  P!PastPriceKept
  <1> SUFFICES ASSUME NEW m \in P!Range(P!mesesAnoLetivo),
                      obrigacao[m] # "pendente", obrigacao'[m] = obrigacao[m],
                      hoje >= P!posicaoNoAnoLetivo(m), inicio' = inicio, P!Devido(m)
               PROVE  P!Devido(m)' /\ P!Preco(m)' = P!Preco(m)
    BY DEF P!PastPriceKept
  <1> DEFINE r == P!posicaoNoAnoLetivo(m)
             c == P!resolveConfiguracao(r)
  <1>1. r \in Int /\ hoje \in Nat /\ r <= hoje
    BY Posicoes DEF IMensalidade
  <1>2. P!Preco(m) = c /\ P!Preco(m)' = c'
    BY DEF P!Preco, P!ConfiguracaoDoMes, P!resolveConfiguracaoEfetiva
  <1>3. c # P!Nenhum
    BY <1>2 DEF P!Devido, P!DentroDoPeriodo
  <1>4. CASE Regista
    <2>1. c \in DOMAIN configs /\ c' = c
      BY <1>1, <1>3, <1>4, PrecoFica
    <2>2. configs'[c] = configs[c]
      BY <1>4, <2>1 DEF Regista, IMensalidade
    <2> QED
      BY <1>2, <2>1, <2>2 DEF P!Devido, P!DentroDoPeriodo, P!mesInicioEfetivo
  <1>5. CASE configs' = configs
    <2>1. c' = c
      BY <1>5 DEF P!resolveConfiguracao, P!Versoes, P!RemovidaEntre
    <2> QED
      BY <1>2, <1>5, <2>1 DEF P!Devido, P!DentroDoPeriodo, P!mesInicioEfetivo
  <1> QED
    BY <1>4, <1>5, MensalidadeStep

-----------------------------------------------------------------------------
(* What is due is on the list of payments.  A month waits in one charge     *)
(* only, or a request is making the only one, but for months that were      *)
(* asked for twice at once or put back to waiting; the two queries keep the *)
(* same months of the year, in which a month comes once; and a page is cut  *)
(* of both lists where one ends and the other begins.                       *)

\* A charge, and the charges there are; what the requests have checked.
Cobranca(z) ==
    /\ z = [meses |-> z.meses, externo |-> z.externo, status |-> z.status]
    /\ z.status \in {"aberta", "paga", "encerrada"}
CobrancasOK == \E Z : cobrancas \in Seq(Z) /\ \A z \in Z : Cobranca(z)
PagadorOK == \E W : pagador \in [Pagadores -> W]
\* A month waits in a charge; a request is making one for it.
Espera(i, m) == i \in DOMAIN cobrancas /\ cobrancas[i].status = "aberta" /\ m \in cobrancas[i].meses
Pediu(h, m) == h \in Pagadores /\ pagador[h].op = "cobranca" /\ m \in pagador[h].meses
UmaAberta == \A m : m \notin repetidas =>
    /\ \A i, k : Espera(i, m) /\ Espera(k, m) => i = k
    /\ \A g, h : Pediu(g, m) /\ Pediu(h, m) => g = h
    /\ \A i, h : ~(Espera(i, m) /\ Pediu(h, m))
TiposMensalidade ==
    /\ inicio \in {P!Nenhum} \cup MesesInicio /\ hoje \in {0} \cup Instantes
    /\ obrigacao \in [P!Range(P!mesesAnoLetivo) -> {"pendente", "pago", "anulado"}]
IConta == TiposMensalidade /\ CobrancasOK /\ PagadorOK /\ UmaAberta

(* There is no charge at first.                                            *)
LEMMA ContaInit ==
    ASSUME P!Init
    PROVE  IConta
  <1>1. cobrancas \in Seq({}) /\ DOMAIN cobrancas = {}
    BY DEF P!Init
  <1>2. pagador = [h \in Pagadores |-> P!Livre] /\ P!Livre.op = "livre"
    BY DEF P!Init, P!Livre
  <1>3. PagadorOK
    BY <1>2 DEF PagadorOK
  <1>4. CobrancasOK /\ UmaAberta
    BY <1>1, <1>2 DEF CobrancasOK, UmaAberta, Espera, Pediu
  <1> QED
    BY <1>3, <1>4 DEF P!Init, IConta, TiposMensalidade

(* What only ends charges and requests keeps one charge for a month.        *)
LEMMA ContaMenos ==
    ASSUME UmaAberta, repetidas \subseteq repetidas',
           \A i, m : Espera(i, m)' => Espera(i, m),
           \A h, m : Pediu(h, m)' => Pediu(h, m)
    PROVE  UmaAberta'
  BY DEF UmaAberta

(* What a request has checked is replaced, by what is not a new charge.     *)
LEMMA PedidoMuda ==
    ASSUME PagadorOK, NEW h \in Pagadores, NEW w, pagador' = [pagador EXCEPT ![h] = w]
    PROVE  /\ PagadorOK' /\ pagador'[h] = w /\ \A g \in Pagadores \ {h} : pagador'[g] = pagador[g]
           /\ w.op # "cobranca" => \A g, m : Pediu(g, m)' => Pediu(g, m) /\ g # h
  <1>1. PICK W : pagador \in [Pagadores -> W]
    BY DEF PagadorOK
  <1>2. pagador' \in [Pagadores -> W \cup {w}]
    BY <1>1
  <1>3. pagador'[h] = w /\ \A g \in Pagadores \ {h} : pagador'[g] = pagador[g]
    BY <1>1
  <1> QED
    BY <1>2, <1>3 DEF PagadorOK, Pediu

(* The charge that a request makes takes its place.                         *)
LEMMA CriaConta ==
    ASSUME CobrancasOK, PagadorOK, UmaAberta, NEW h \in Pagadores, P!CreateCharge(h)
    PROVE  (CobrancasOK /\ PagadorOK /\ UmaAberta)'
  <1>1. PICK Z : cobrancas \in Seq(Z) /\ \A z \in Z : Cobranca(z)
    BY DEF CobrancasOK
  <1>2. PICK p, c : /\ p = pagador[h] /\ p.op \in {"cobranca", "externo"}
                    /\ c = [meses |-> p.meses, externo |-> p.op = "externo",
                            status |-> IF p.op = "externo" THEN "paga" ELSE "aberta"]
    BY DEF P!CreateCharge
  <1>3. cobrancas' = Append(cobrancas, c) /\ pagador' = [pagador EXCEPT ![h] = P!Livre]
        /\ repetidas' = repetidas
    BY <1>2 DEF P!CreateCharge, P!Larga
  <1>4. Cobranca(c) /\ c.meses = p.meses /\ (c.status = "aberta" => p.op = "cobranca")
    BY <1>2 DEF Cobranca
  <1>5. cobrancas' \in Seq(Z \cup {c})
    BY <1>1, <1>3
  <1>6. CobrancasOK'
    BY <1>1, <1>4, <1>5 DEF CobrancasOK
  <1>7. PagadorOK' /\ \A g, m : Pediu(g, m)' => Pediu(g, m) /\ g # h
    <2>1. PICK w : w = P!Livre
      OBVIOUS
    <2>2. w.op # "cobranca"
      BY <2>1 DEF P!Livre
    <2> QED
      BY <1>3, <2>1, <2>2, PedidoMuda
  <1>8. ASSUME NEW i, NEW m, Espera(i, m)'
        PROVE  Espera(i, m) \/ (i = Len(cobrancas) + 1 /\ Pediu(h, m))
    <2>1. i \in DOMAIN cobrancas'
      BY <1>8 DEF Espera
    <2>2. \/ i \in DOMAIN cobrancas /\ cobrancas'[i] = cobrancas[i]
          \/ i = Len(cobrancas) + 1 /\ cobrancas'[i] = c
      BY <1>1, <1>3, <2>1
    <2> QED
      BY <1>2, <1>4, <1>8, <2>2 DEF Espera, Pediu
  <1>9. UmaAberta'
    <2>1. ASSUME NEW m, m \notin repetidas', NEW i, NEW k, Espera(i, m)', Espera(k, m)'
          PROVE  i = k
      BY <1>3, <1>8, <2>1 DEF UmaAberta
    <2>2. ASSUME NEW m, m \notin repetidas', NEW g, NEW k, Pediu(g, m)', Pediu(k, m)'
          PROVE  g = k
      BY <1>3, <1>7, <2>2 DEF UmaAberta
    <2>3. ASSUME NEW m, m \notin repetidas', NEW i, NEW g, Espera(i, m)', Pediu(g, m)'
          PROVE  FALSE
      BY <1>3, <1>7, <1>8, <2>3 DEF UmaAberta
    <2> QED
      BY <2>1, <2>2, <2>3 DEF UmaAberta
  <1> QED
    BY <1>6, <1>7, <1>9

(* A charge changes its status.  A month it puts back to waiting is one     *)
(* that was repeated, or no other waits for it.                             *)
LEMMA EstadoConta ==
    ASSUME CobrancasOK, UmaAberta, NEW i \in DOMAIN cobrancas,
           NEW e \in {"aberta", "paga", "encerrada"}, P!EstadoDaCobranca(i, e)
    PROVE  (CobrancasOK /\ UmaAberta)'
  <1>1. PICK Z : cobrancas \in Seq(Z) /\ \A z \in Z : Cobranca(z)
    BY DEF CobrancasOK
  <1>2. PICK b, c : b = cobrancas[i] /\ c = [b EXCEPT !.status = e]
    OBVIOUS
  <1>3. /\ cobrancas' = [cobrancas EXCEPT ![i] = c] /\ pagador' = pagador
        /\ repetidas' = repetidas \cup
             {m \in b.meses : e = "aberta" /\ (P!mensalidadeTemCobrancaAberta(m) \/ P!EmPedido(m))}
    BY <1>2 DEF P!EstadoDaCobranca
  <1>4. Cobranca(c) /\ c.status = e /\ c.meses = b.meses
    <2>1. Cobranca(b)
      BY <1>1, <1>2
    <2> QED
      BY <1>2, <2>1 DEF Cobranca
  <1>5. cobrancas' \in Seq(Z \cup {c})
    BY <1>1, <1>3
  <1>6. CobrancasOK'
    BY <1>1, <1>4, <1>5 DEF CobrancasOK
  <1>7. DOMAIN cobrancas' = DOMAIN cobrancas /\ cobrancas'[i] = c
        /\ \A k \in DOMAIN cobrancas : k # i => cobrancas'[k] = cobrancas[k]
    BY <1>1, <1>3
  <1>8. ASSUME NEW k, NEW m, Espera(k, m)'
        PROVE  Espera(k, m) \/ (k = i /\ e = "aberta" /\ m \in b.meses)
    BY <1>4, <1>7, <1>8 DEF Espera
  <1>9. ASSUME NEW m \in b.meses, e = "aberta", m \notin repetidas'
        PROVE  (\A k : ~Espera(k, m)) /\ (\A h : ~Pediu(h, m))
    <2>1. ~P!mensalidadeTemCobrancaAberta(m) /\ ~P!EmPedido(m)
      BY <1>3, <1>9
    <2> QED
      BY <2>1 DEF P!mensalidadeTemCobrancaAberta, P!EmPedido, Espera, Pediu, P!Range
  <1>10. repetidas \subseteq repetidas' /\ \A h, m : Pediu(h, m)' <=> Pediu(h, m)
    BY <1>3 DEF Pediu
  <1>11. UmaAberta'
    <2>1. ASSUME NEW m, m \notin repetidas', NEW j, NEW k, Espera(j, m)', Espera(k, m)'
          PROVE  j = k
      BY <1>8, <1>9, <1>10, <2>1 DEF UmaAberta
    <2>2. ASSUME NEW m, m \notin repetidas', NEW g, NEW k, Pediu(g, m)', Pediu(k, m)'
          PROVE  g = k
      BY <1>10, <2>2 DEF UmaAberta
    <2>3. ASSUME NEW m, m \notin repetidas', NEW j, NEW g, Espera(j, m)', Pediu(g, m)'
          PROVE  FALSE
      BY <1>8, <1>9, <1>10, <2>3 DEF UmaAberta
    <2> QED
      BY <2>1, <2>2, <2>3 DEF UmaAberta
  <1> QED
    BY <1>6, <1>11

(* A request may ask for months that nobody waits for, and that are         *)
(* repeated if another asks for them.                                       *)
LEMMA PedeConta ==
    ASSUME PagadorOK, UmaAberta, NEW h \in Pagadores, NEW y,
           P!Pede(h, "cobranca", y), ~\E m \in y : P!mensalidadeTemCobrancaAberta(m),
           repetidas' = repetidas \cup {m \in y : P!EmPedido(m)}, cobrancas' = cobrancas
    PROVE  (PagadorOK /\ UmaAberta)'
  <1>1. PICK w : w = [op |-> "cobranca", meses |-> y]
    OBVIOUS
  <1>2. /\ PagadorOK' /\ pagador'[h] = w /\ w.meses = y
        /\ \A g \in Pagadores \ {h} : pagador'[g] = pagador[g]
    BY <1>1, PedidoMuda DEF P!Pede
  <1>3. ASSUME NEW g, NEW m, Pediu(g, m)' PROVE Pediu(g, m) \/ (g = h /\ m \in y)
    BY <1>2, <1>3 DEF Pediu
  <1>4. ASSUME NEW m \in y PROVE \A i : ~Espera(i, m)
    <2>1. ~P!mensalidadeTemCobrancaAberta(m)
      OBVIOUS
    <2> QED
      BY <2>1 DEF P!mensalidadeTemCobrancaAberta, Espera, P!Range
  <1>5. ASSUME NEW m \in y, m \notin repetidas' PROVE \A g : ~Pediu(g, m)
    BY <1>5 DEF P!EmPedido, Pediu
  <1>6. repetidas \subseteq repetidas' /\ \A i, m : Espera(i, m)' <=> Espera(i, m)
    BY DEF Espera
  <1>7. UmaAberta'
    <2>1. ASSUME NEW m, m \notin repetidas', NEW i, NEW k, Espera(i, m)', Espera(k, m)'
          PROVE  i = k
      BY <1>6, <2>1 DEF UmaAberta
    <2>2. ASSUME NEW m, m \notin repetidas', NEW g, NEW k, Pediu(g, m)', Pediu(k, m)'
          PROVE  g = k
      BY <1>3, <1>5, <1>6, <2>2 DEF UmaAberta
    <2>3. ASSUME NEW m, m \notin repetidas', NEW i, NEW g, Espera(i, m)', Pediu(g, m)'
          PROVE  FALSE
      BY <1>3, <1>4, <1>5, <1>6, <2>3 DEF UmaAberta
    <2> QED
      BY <2>1, <2>2, <2>3 DEF UmaAberta
  <1> QED
    BY <1>2, <1>7

(* A request that records, gives up, or asks for what is not a new charge.  *)
LEMMA OutroPedido ==
    ASSUME PagadorOK, UmaAberta, NEW h \in Pagadores, NEW w, w.op # "cobranca",
           pagador' = [pagador EXCEPT ![h] = w], repetidas' = repetidas,
           \A i, m : Espera(i, m)' => Espera(i, m)
    PROVE  (PagadorOK /\ UmaAberta)'
  <1>1. PagadorOK' /\ \A g, m : Pediu(g, m)' => Pediu(g, m)
    BY PedidoMuda
  <1> QED
    BY <1>1, ContaMenos

(* An academy annuls a month: its charges end.                              *)
LEMMA AnulaConta ==
    ASSUME CobrancasOK, NEW h, NEW m, P!AnularObrigacoesMensalidade(h, m)
    PROVE  CobrancasOK' /\ \A i, k : Espera(i, k)' => Espera(i, k)
  <1>1. PICK Z : cobrancas \in Seq(Z) /\ \A z \in Z : Cobranca(z)
    BY DEF CobrancasOK
  <1> DEFINE Y == {z \in Z \cup {[z EXCEPT !.status = "encerrada"] : z \in Z} : Cobranca(z)}
  <1>2. ASSUME NEW i \in DOMAIN cobrancas
        PROVE  /\ cobrancas'[i] \in Y
               /\ cobrancas'[i].status = "aberta" => cobrancas'[i] = cobrancas[i]
    <2>1. cobrancas[i] \in Z /\ Cobranca(cobrancas[i])
      BY <1>1
    <2>2. PICK c, d : c = cobrancas[i] /\ d = [c EXCEPT !.status = "encerrada"]
      OBVIOUS
    <2>3. Cobranca(d) /\ d.status = "encerrada"
      BY <2>1, <2>2 DEF Cobranca
    <2>4. cobrancas'[i] \in {c, d}
      BY <2>2 DEF P!AnularObrigacoesMensalidade
    <2>5. c \in Y /\ d \in Y
      BY <2>1, <2>2, <2>3
    <2> QED
      BY <2>2, <2>3, <2>4, <2>5
  <1> HIDE DEF Y
  <1>3. cobrancas' = [i \in DOMAIN cobrancas |-> cobrancas'[i]]
    BY DEF P!AnularObrigacoesMensalidade
  <1>4. /\ DOMAIN cobrancas' = DOMAIN cobrancas
        /\ DOMAIN cobrancas = 1..Len(cobrancas) /\ Len(cobrancas) \in Nat
    BY <1>1, <1>3
  <1>5. cobrancas' \in Seq(Y)
    BY <1>2, <1>3, <1>4
  <1>6. CobrancasOK'
    BY <1>5 DEF CobrancasOK, Y
  <1>7. ASSUME NEW i, NEW k, Espera(i, k)' PROVE Espera(i, k)
    BY <1>2, <1>4, <1>7 DEF Espera
  <1> QED
    BY <1>6, <1>7

(* What is recorded of a month is a state of a month.                       *)
LEMMA RegistadoTipo ==
    ASSUME TiposMensalidade, NEW y, NEW e, P!Registado(y, e)
    PROVE  obrigacao' \in [P!Range(P!mesesAnoLetivo) -> {"pendente", "pago", "anulado"}]
  <1>1. PICK N, V : N = P!Range(P!mesesAnoLetivo) /\ V = {"pendente", "pago", "anulado"}
    OBVIOUS
  <1>2. obrigacao \in [N -> V]
    BY <1>1 DEF TiposMensalidade
  <1>3. ASSUME NEW v \in V PROVE P!precedenciaEstado(v, e) \in V
    BY <1>1 DEF P!precedenciaEstado
  <1>4. obrigacao' = [m \in N |-> IF m \in y THEN P!precedenciaEstado(obrigacao[m], e)
                                  ELSE obrigacao[m]]
    BY <1>2 DEF P!Registado
  <1>5. obrigacao' \in [N -> V]
    BY <1>2, <1>3, <1>4
  <1> QED
    BY <1>1, <1>5

(* What requests do keeps one charge for a month.                           *)
LEMMA PedidoConta ==
    ASSUME IConta, NEW h \in Pagadores, P!Pedido(h)
    PROVE  IConta'
  <1> USE DEF IConta
  <1>a. ASSUME cobrancas' = cobrancas
        PROVE  CobrancasOK' /\ \A i, m : Espera(i, m)' => Espera(i, m)
    BY <1>a DEF CobrancasOK, Espera
  <1>b. ASSUME UNCHANGED <<inicio, hoje, obrigacao>> PROVE TiposMensalidade'
    BY <1>b DEF TiposMensalidade
  <1>1. ASSUME NEW y, P!IniciarPagamentoMensalidades(h, y) PROVE IConta'
    <2>1. PICK z : z = y \cup {Head(P!PendenciasSemCobrancaEstudante).mes}
      OBVIOUS
    <2>2. /\ P!PodemSerPagas(z) /\ P!Pede(h, "cobranca", z)
          /\ repetidas' = repetidas \cup {m \in z : P!EmPedido(m)}
          /\ cobrancas' = cobrancas /\ UNCHANGED <<inicio, hoje, obrigacao>>
      BY <1>1, <2>1 DEF P!IniciarPagamentoMensalidades
    <2>3. (PagadorOK /\ UmaAberta)'
      BY <2>2, PedeConta DEF P!PodemSerPagas
    <2> QED
      BY <1>a, <1>b, <2>2, <2>3
  <1>2. ASSUME NEW y, P!RegistrarPagamentoExternoMensalidades(h, y) PROVE IConta'
    <2>1. PICK w : w = [op |-> "externo", meses |-> y]
      OBVIOUS
    <2>2. /\ w.op # "cobranca" /\ pagador' = [pagador EXCEPT ![h] = w] /\ repetidas' = repetidas
          /\ cobrancas' = cobrancas /\ UNCHANGED <<inicio, hoje, obrigacao>>
      BY <1>2, <2>1 DEF P!RegistrarPagamentoExternoMensalidades, P!Pede
    <2> QED
      BY <1>a, <1>b, <2>2, OutroPedido
  <1>3. ASSUME NEW m, P!AnularObrigacoesMensalidade(h, m) PROVE IConta'
    <2>1. PICK w : w = [op |-> "anulada", meses |-> {m}]
      OBVIOUS
    <2>2. /\ w.op # "cobranca" /\ pagador' = [pagador EXCEPT ![h] = w] /\ repetidas' = repetidas
          /\ UNCHANGED <<inicio, hoje, obrigacao>>
      BY <1>3, <2>1 DEF P!AnularObrigacoesMensalidade, P!Pede
    <2>3. CobrancasOK' /\ \A i, k : Espera(i, k)' => Espera(i, k)
      BY <1>3, AnulaConta
    <2> QED
      BY <1>b, <2>2, <2>3, OutroPedido
  <1>4. ASSUME NEW m, P!ReativarObrigacoesMensalidade(h, m) PROVE IConta'
    <2>1. PICK w : w = [op |-> "reativada", meses |-> {m}]
      OBVIOUS
    <2>2. /\ w.op # "cobranca" /\ pagador' = [pagador EXCEPT ![h] = w] /\ repetidas' = repetidas
          /\ cobrancas' = cobrancas /\ UNCHANGED <<inicio, hoje, obrigacao>>
      BY <1>4, <2>1 DEF P!ReativarObrigacoesMensalidade, P!Pede
    <2> QED
      BY <1>a, <1>b, <2>2, OutroPedido
  <1>5. CASE P!CreateCharge(h)
    <2>1. (CobrancasOK /\ PagadorOK /\ UmaAberta)'
      BY <1>5, CriaConta
    <2>2. UNCHANGED <<inicio, hoje, obrigacao>>
      BY <1>5 DEF P!CreateCharge
    <2> QED
      BY <1>b, <2>1, <2>2
  <1>c. ASSUME P!Larga(h), cobrancas' = cobrancas, repetidas' = repetidas
        PROVE  (CobrancasOK /\ PagadorOK /\ UmaAberta)'
    <2>1. P!Livre.op # "cobranca" /\ pagador' = [pagador EXCEPT ![h] = P!Livre]
      BY <1>c DEF P!Larga, P!Livre
    <2> QED
      BY <1>a, <1>c, <2>1, OutroPedido
  <1>6. CASE P!recordMensalidade(h)
    <2>1. (CobrancasOK /\ PagadorOK /\ UmaAberta)'
      BY <1>6, <1>c DEF P!recordMensalidade
    <2>2. obrigacao' \in [P!Range(P!mesesAnoLetivo) -> {"pendente", "pago", "anulado"}]
      BY <1>6, RegistadoTipo DEF P!recordMensalidade
    <2>3. UNCHANGED <<inicio, hoje>>
      BY <1>6 DEF P!recordMensalidade
    <2> QED
      BY <2>1, <2>2, <2>3 DEF TiposMensalidade
  <1>7. CASE P!Desiste(h)
    <2>1. (CobrancasOK /\ PagadorOK /\ UmaAberta)'
      BY <1>7, <1>c DEF P!Desiste
    <2>2. UNCHANGED <<inicio, hoje, obrigacao>>
      BY <1>7 DEF P!Desiste
    <2> QED
      BY <1>b, <2>1, <2>2
  <1> QED
    BY <1>1, <1>2, <1>3, <1>4, <1>5, <1>6, <1>7 DEF P!Pedido

(* Every step keeps one charge for a month.                                 *)
LEMMA ContaNext ==
    ASSUME Instantes \subseteq Nat, hoje \in Nat, IConta, [P!Next]_P!vars
    PROVE  IConta'
  <1>1. ASSUME cobrancas' = cobrancas, pagador' = pagador, repetidas' = repetidas
        PROVE  (CobrancasOK /\ PagadorOK /\ UmaAberta)'
    BY <1>1 DEF IConta, CobrancasOK, PagadorOK, UmaAberta, Espera, Pediu
  <1>2. CASE UNCHANGED P!vars
    BY <1>1, <1>2 DEF P!vars, IConta, TiposMensalidade
  <1>3. ASSUME NEW fim, NEW modo, P!ConfigureMensalidade(fim, modo) PROVE IConta'
    BY <1>1, <1>3 DEF P!ConfigureMensalidade, IConta, TiposMensalidade
  <1>4. CASE P!RemoveMensalidadeConfiguracao
    BY <1>1, <1>4 DEF P!RemoveMensalidadeConfiguracao, IConta, TiposMensalidade
  <1>5. ASSUME NEW m \in MesesInicio, P!DefinirMesInicioCobranca(m) PROVE IConta'
    BY <1>1, <1>5 DEF P!DefinirMesInicioCobranca, IConta, TiposMensalidade
  <1>6. CASE P!RemoveMesInicioCobranca
    BY <1>1, <1>6 DEF P!RemoveMesInicioCobranca, IConta, TiposMensalidade
  <1>7. ASSUME NEW h \in Pagadores, P!Pedido(h) PROVE IConta'
    BY <1>7, PedidoConta
  <1>8. ASSUME NEW i \in DOMAIN cobrancas, NEW e \in {"aberta", "paga", "encerrada"},
               P!EstadoDaCobranca(i, e)
        PROVE  IConta'
    <2>1. (CobrancasOK /\ UmaAberta)'
      BY <1>8, EstadoConta DEF IConta
    <2>2. UNCHANGED <<inicio, hoje, obrigacao, pagador>>
      BY <1>8 DEF P!EstadoDaCobranca
    <2> QED
      BY <2>1, <2>2 DEF IConta, TiposMensalidade, PagadorOK
  <1>9. ASSUME NEW i, P!confirmMensalidadeCharge(i) PROVE IConta'
    <2>1. obrigacao' \in [P!Range(P!mesesAnoLetivo) -> {"pendente", "pago", "anulado"}]
      BY <1>9, RegistadoTipo DEF P!confirmMensalidadeCharge, IConta
    <2> QED
      BY <1>1, <1>9, <2>1 DEF P!confirmMensalidadeCharge, IConta, TiposMensalidade
  <1>10. CASE P!Passar
    <2> DEFINE Z == {i \in Instantes : i > hoje}
    <2>1. Z \in SUBSET Nat /\ Z # {} /\ hoje' = P!Min(Z)
      BY <1>10 DEF P!Passar
    <2>2. P!Min(Z) \in Z
      <3> HIDE DEF Z
      <3>1. \E x \in Z : \A y \in Z : x <= y
        BY <2>1, Primeiro
      <3> QED
        BY <3>1 DEF P!Min
    <2>3. hoje' \in Instantes
      BY <2>1, <2>2
    <2> HIDE DEF Z
    <2> QED
      BY <1>1, <1>10, <2>3 DEF P!Passar, IConta, TiposMensalidade
  <1> QED
    BY <1>2, <1>3, <1>4, <1>5, <1>6, <1>7, <1>8, <1>9, <1>10 DEF P!Next

(* The types are part of it.                                                *)
LEMMA ContaTypeOK ==
    ASSUME IConta, \A i \in DOMAIN configs : configs[i].tipo \in {"Configurada", "Removida"}
    PROVE  P!TypeOK
  <1>1. ASSUME NEW i \in DOMAIN cobrancas
        PROVE  cobrancas[i].status \in {"aberta", "paga", "encerrada"}
    <2>1. PICK Z : cobrancas \in Seq(Z) /\ \A z \in Z : Cobranca(z)
      BY DEF CobrancasOK, IConta
    <2> QED
      BY <2>1 DEF Cobranca
  <1> QED
    BY <1>1 DEF IConta, TiposMensalidade, P!TypeOK

(* The first of two numbers.                                                *)
LEMMA MinDeDois ==
    ASSUME NEW a \in Int, NEW b \in Int
    PROVE  P!Min({a, b}) = IF a <= b THEN a ELSE b
  <1> DEFINE c == IF a <= b THEN a ELSE b
  <1>1. c \in {a, b} /\ \A y \in {a, b} : c <= y
    OBVIOUS
  <1>2. ASSUME NEW x \in {a, b}, \A y \in {a, b} : x <= y PROVE x = c
    BY <1>2
  <1> QED
    BY <1>1, <1>2 DEF P!Min

(* The steps of Filtrar up to a place of the list.                          *)
PassosFiltro(f, n, s, G) ==
    f = [i \in 0..n |-> IF i = 0 THEN <<>>
                        ELSE IF s[i] \in G THEN Append(f[i - 1], s[i]) ELSE f[i - 1]]
Escolhidos(s, n, G) == {s[j] : j \in {j \in 1..n : s[j] \in G}}
EscolhaOK(r, s, n, G) ==
    /\ r \in Seq(Escolhidos(s, n, G))
    /\ \A j \in 1..n : s[j] \in G => \E k \in DOMAIN r : r[k] = s[j]
    /\ (\A i, j \in 1..n : s[i] = s[j] => i = j) => \A i, j \in DOMAIN r : r[i] = r[j] => i = j

(* There are such steps.                                                    *)
LEMMA FiltroExiste ==
    ASSUME NEW n \in Nat, NEW s, NEW G
    PROVE  \E f : PassosFiltro(f, n, s, G)
  <1> DEFINE Sem == {m \in Nat : ~\E f : PassosFiltro(f, m, s, G)}
  <1>1. SUFFICES ASSUME Sem # {} PROVE FALSE
    OBVIOUS
  <1>2. PICK m \in Sem : \A k \in Sem : m <= k
    BY <1>1, Primeiro
  <1>3. CASE m = 0
    <2>1. PassosFiltro([i \in 0..0 |-> <<>>], 0, s, G)
      BY DEF PassosFiltro
    <2> QED
      BY <1>2, <1>3, <2>1
  <1>4. CASE m # 0
    <2>1. m \in Nat /\ m - 1 \in Nat /\ m - 1 \notin Sem
      BY <1>2, <1>4
    <2>2. PICK f : PassosFiltro(f, m - 1, s, G)
      BY <2>1
    <2> DEFINE u == IF s[m] \in G THEN Append(f[m - 1], s[m]) ELSE f[m - 1]
               g == [i \in 0..m |-> IF i = m THEN u ELSE f[i]]
    <2>3. ASSUME NEW i \in 0..m
          PROVE  g[i] = IF i = 0 THEN <<>>
                        ELSE IF s[i] \in G THEN Append(g[i - 1], s[i]) ELSE g[i - 1]
      <3>1. CASE i = m
        <4>1. g[i] = u /\ g[i - 1] = f[m - 1] /\ i # 0
          BY <1>4, <2>1, <3>1
        <4> QED
          BY <3>1, <4>1
      <3>2. CASE i = 0
        <4>1. g[0] = f[0]
          BY <1>4, <2>1
        <4>2. f[0] = <<>>
          BY <2>1, <2>2 DEF PassosFiltro
        <4> QED
          BY <3>2, <4>1, <4>2
      <3>3. CASE i # m /\ i # 0
        <4>1. i \in 0..(m - 1) /\ i - 1 \in 0..(m - 1) /\ i - 1 # m
          BY <2>1, <3>3
        <4>2. f[i] = IF s[i] \in G THEN Append(f[i - 1], s[i]) ELSE f[i - 1]
          BY <2>2, <3>3, <4>1 DEF PassosFiltro
        <4>3. g[i] = f[i] /\ g[i - 1] = f[i - 1]
          BY <2>1, <3>3, <4>1
        <4> QED
          BY <3>3, <4>2, <4>3
      <3> QED
        BY <3>1, <3>2, <3>3
    <2>4. g = [i \in 0..m |-> g[i]]
      OBVIOUS
    <2> HIDE DEF g
    <2>5. PassosFiltro(g, m, s, G)
      BY <2>3, <2>4 DEF PassosFiltro
    <2> QED
      BY <1>2, <2>5
  <1> QED
    BY <1>3, <1>4

(* Each of them has what was to be kept so far.                             *)
LEMMA FiltroEscolhe ==
    ASSUME NEW n \in Nat, NEW s, NEW G, NEW f, PassosFiltro(f, n, s, G)
    PROVE  EscolhaOK(f[n], s, n, G)
  <1> DEFINE Mau == {m \in 0..n : ~EscolhaOK(f[m], s, m, G)}
  <1>0. n \in 0..n
    OBVIOUS
  <1>1. SUFFICES ASSUME n \in Mau PROVE FALSE
    BY <1>0, Zenon
  <1>2. PICK m \in Mau : \A k \in Mau : m <= k
    <2>1. Mau # {} /\ Mau \in SUBSET Nat
      BY <1>1
    <2> QED
      BY <2>1, Primeiro
  <1>3. CASE m = 0
    <2>1. f[0] = <<>>
      BY DEF PassosFiltro
    <2>2. EscolhaOK(<<>>, s, 0, G)
      BY DEF EscolhaOK
    <2> QED
      BY <1>2, <1>3, <2>1, <2>2
  <1>4. CASE m # 0
    <2>1. m \in 0..n /\ m \in Nat /\ m - 1 \in 0..n /\ m - 1 \notin Mau
      BY <1>2, <1>4
    <2>2. PICK r, q : r = f[m - 1] /\ q = f[m]
      OBVIOUS
    <2>3. EscolhaOK(r, s, m - 1, G)
      BY <2>1, <2>2
    <2>4. q = IF s[m] \in G THEN Append(r, s[m]) ELSE r
      BY <1>4, <2>1, <2>2 DEF PassosFiltro
    <2>5. Escolhidos(s, m - 1, G) \subseteq Escolhidos(s, m, G)
      BY <2>1 DEF Escolhidos
    <2>6. r \in Seq(Escolhidos(s, m - 1, G)) /\ r \in Seq(Escolhidos(s, m, G))
      BY <2>3, <2>5 DEF EscolhaOK
    <2>7. CASE s[m] \in G
      <3>1. s[m] \in Escolhidos(s, m, G)
        BY <2>1, <2>7, <1>4 DEF Escolhidos
      <3>2. /\ q = Append(r, s[m]) /\ q \in Seq(Escolhidos(s, m, G)) /\ Len(r) \in Nat
            /\ DOMAIN q = 1..(Len(r) + 1) /\ q[Len(r) + 1] = s[m] /\ DOMAIN r = 1..Len(r)
            /\ \A k \in DOMAIN r : k \in DOMAIN q /\ q[k] = r[k]
        BY <2>4, <2>6, <2>7, <3>1
      <3>3. ASSUME NEW j \in 1..m, s[j] \in G PROVE \E k \in DOMAIN q : q[k] = s[j]
        <4>1. CASE j = m
          BY <3>2, <4>1
        <4>2. CASE j # m
          <5>1. j \in 1..(m - 1)
            BY <2>1, <4>2
          <5>2. PICK k \in DOMAIN r : r[k] = s[j]
            BY <2>3, <3>3, <5>1 DEF EscolhaOK
          <5> QED
            BY <3>2, <5>2
        <4> QED
          BY <4>1, <4>2
      <3>4. ASSUME \A i, j \in 1..m : s[i] = s[j] => i = j,
                   NEW i \in DOMAIN q, NEW j \in DOMAIN q, q[i] = q[j]
            PROVE  i = j
        <4>1. \A a, b \in 1..(m - 1) : s[a] = s[b] => a = b
          BY <2>1, <3>4
        <4>2. \A a, b \in DOMAIN r : r[a] = r[b] => a = b
          BY <2>3, <4>1 DEF EscolhaOK
        <4>3. ASSUME NEW a \in DOMAIN r, r[a] = s[m] PROVE FALSE
          <5>1. r[a] \in Escolhidos(s, m - 1, G)
            BY <2>6
          <5>2. PICK b \in 1..(m - 1) : r[a] = s[b]
            BY <5>1 DEF Escolhidos
          <5>3. b \in 1..m /\ m \in 1..m /\ b # m
            BY <2>1, <1>4
          <5> QED
            BY <3>4, <4>3, <5>2, <5>3
        <4>4. i \in DOMAIN r \/ i = Len(r) + 1
          BY <3>2
        <4>5. j \in DOMAIN r \/ j = Len(r) + 1
          BY <3>2
        <4> QED
          BY <3>2, <3>4, <4>2, <4>3, <4>4, <4>5
      <3>5. EscolhaOK(q, s, m, G)
        BY <3>2, <3>3, <3>4 DEF EscolhaOK
      <3> QED
        BY <1>2, <2>2, <3>5
    <2>8. CASE s[m] \notin G
      <3>1. q = r
        BY <2>4, <2>8
      <3>2. ASSUME NEW j \in 1..m, s[j] \in G PROVE j \in 1..(m - 1)
        BY <2>1, <2>8, <3>2
      <3>3. \A j \in 1..(m - 1) : j \in 1..m
        BY <2>1
      <3>4. EscolhaOK(q, s, m, G)
        BY <2>3, <2>6, <3>1, <3>2, <3>3 DEF EscolhaOK
      <3> QED
        BY <1>2, <2>2, <3>4
    <2> QED
      BY <2>7, <2>8
  <1> QED
    BY <1>3, <1>4

(* What Filtrar keeps: all it is asked for, each once if the list has each  *)
(* once.                                                                    *)
LEMMA FiltrarFacts ==
    ASSUME NEW s, NEW G, Len(s) \in Nat
    PROVE  EscolhaOK(P!Filtrar(s, G), s, Len(s), G)
  <1> DEFINE n == Len(s)
             F == CHOOSE f : PassosFiltro(f, n, s, G)
  <1>1. PassosFiltro(F, n, s, G)
    BY FiltroExiste
  <1>2. EscolhaOK(F[n], s, n, G)
    <2> HIDE DEF F
    <2> QED
      BY <1>1, FiltroEscolhe
  <1>3. P!Filtrar(s, G) = F[n]
    BY DEF P!Filtrar, PassosFiltro
  <1> QED
    BY <1>2, <1>3

(* Two lists with the same elements at the same places.                     *)
LEMMA ListasIguais ==
    ASSUME NEW T, NEW s \in Seq(T), NEW t \in Seq(T), Len(s) = Len(t),
           \A i \in 1..Len(s) : s[i] = t[i]
    PROVE  s = t
  OBVIOUS

(* What a page of a list is.                                                *)
LEMMA Pagina ==
    ASSUME NEW T, NEW s \in Seq(T), NEW a \in Nat, NEW b \in Nat, a <= b, b <= Len(s)
    PROVE  /\ SubSeq(s, a + 1, b) \in Seq(T) /\ Len(SubSeq(s, a + 1, b)) = b - a
           /\ \A i \in 1..(b - a) : SubSeq(s, a + 1, b)[i] = s[a + i]
  <1>1. \A i \in (a + 1)..b : s[i] \in T
    OBVIOUS
  <1> DEFINE r == SubSeq(s, a + 1, b)
  <1>2. r \in Seq(T) /\ Len(r) = b - a
    BY <1>1
  <1>3. ASSUME NEW i \in 1..(b - a) PROVE r[i] = s[a + i]
    OBVIOUS
  <1> QED
    BY <1>2, <1>3

(* A page of two lists, one after the other: of the first alone, of the     *)
(* second alone, or what is left of the first and then the second.          *)
LEMMA PaginaDeDuas ==
    ASSUME NEW T, NEW s \in Seq(T), NEW t \in Seq(T), NEW a \in Nat, NEW b \in Nat,
           a <= b, b <= Len(s) + Len(t)
    PROVE  SubSeq(s \o t, a + 1, b) =
             IF b <= Len(s) THEN SubSeq(s, a + 1, b)
             ELSE IF a < Len(s) THEN SubSeq(s, a + 1, Len(s)) \o SubSeq(t, 1, b - Len(s))
             ELSE SubSeq(t, (a - Len(s)) + 1, b - Len(s))
  <1>1. PICK n, m, st, r : n = Len(s) /\ m = Len(t) /\ st = s \o t /\ r = SubSeq(st, a + 1, b)
    OBVIOUS
  <1>2. /\ n \in Nat /\ m \in Nat /\ b <= n + m
        /\ st \in Seq(T) /\ Len(st) = n + m
    BY <1>1
  <1>3. ASSUME NEW k \in 1..(n + m) PROVE st[k] = IF k <= n THEN s[k] ELSE t[k - n]
    BY <1>1
  <1>4. r \in Seq(T) /\ Len(r) = b - a /\ \A i \in 1..(b - a) : r[i] = st[a + i]
    <2>1. b <= Len(st)
      BY <1>2
    <2>2. /\ SubSeq(st, a + 1, b) \in Seq(T) /\ Len(SubSeq(st, a + 1, b)) = b - a
          /\ \A i \in 1..(b - a) : SubSeq(st, a + 1, b)[i] = st[a + i]
      BY <1>2, <2>1, Pagina, Zenon
    <2> QED
      BY <1>1, <2>2, Zenon
  <1>5. ASSUME NEW i \in 1..(b - a)
        PROVE  r[i] = IF a + i <= n THEN s[a + i] ELSE t[(a + i) - n]
    <2>1. a + i \in 1..(n + m)
      BY <1>2
    <2> QED
      BY <1>3, <1>4, <2>1
  <1>6. ASSUME b <= n PROVE r = SubSeq(s, a + 1, b)
    <2>1. PICK u : u = SubSeq(s, a + 1, b)
      OBVIOUS
    <2>2. /\ u \in Seq(T) /\ Len(u) = b - a
          /\ \A i \in 1..(b - a) : u[i] = s[a + i]
      <3>1. b <= Len(s)
        BY <1>1, <1>6
      <3>2. /\ SubSeq(s, a + 1, b) \in Seq(T) /\ Len(SubSeq(s, a + 1, b)) = b - a
            /\ \A i \in 1..(b - a) : SubSeq(s, a + 1, b)[i] = s[a + i]
        BY <3>1, Pagina, Zenon
      <3> QED
        BY <2>1, <3>2, Zenon
    <2>3. ASSUME NEW i \in 1..(b - a) PROVE r[i] = u[i]
      <3>1. a + i <= n
        BY <1>2, <1>6
      <3> QED
        BY <1>5, <2>2, <3>1
    <2> QED
      BY <1>4, <2>1, <2>2, <2>3, ListasIguais
  <1>7. ASSUME b > n, a < n PROVE r = SubSeq(s, a + 1, n) \o SubSeq(t, 1, b - n)
    <2>1. PICK u, w, c : /\ u = SubSeq(s, a + 1, n) /\ w = SubSeq(t, 0 + 1, b - n)
                         /\ c = b - n
      OBVIOUS
    <2>2. c \in Nat /\ c <= Len(t) /\ b = c + n /\ n - a \in Nat
      BY <1>1, <1>2, <1>7, <2>1
    <2>3. /\ u \in Seq(T) /\ Len(u) = n - a
          /\ \A i \in 1..(n - a) : u[i] = s[a + i]
      <3>1. a <= n /\ n <= Len(s)
        BY <1>1, <1>2, <1>7
      <3>2. /\ SubSeq(s, a + 1, n) \in Seq(T) /\ Len(SubSeq(s, a + 1, n)) = n - a
            /\ \A i \in 1..(n - a) : SubSeq(s, a + 1, n)[i] = s[a + i]
        BY <1>2, <3>1, Pagina, Zenon
      <3> QED
        BY <2>1, <3>2, Zenon
    <2>4. /\ w \in Seq(T) /\ Len(w) = c - 0
          /\ \A i \in 1..(c - 0) : w[i] = t[0 + i]
      <3>1. 0 \in Nat /\ 0 <= c
        BY <2>2
      <3>2. /\ SubSeq(t, 0 + 1, c) \in Seq(T) /\ Len(SubSeq(t, 0 + 1, c)) = c - 0
            /\ \A i \in 1..(c - 0) : SubSeq(t, 0 + 1, c)[i] = t[0 + i]
        BY <2>2, <3>1, Pagina, ZenonT(30)
      <3> QED
        BY <2>1, <3>2, Zenon
    <2>5. PICK v : v = u \o w
      OBVIOUS
    <2>6. /\ v \in Seq(T) /\ Len(v) = b - a
          /\ \A i \in 1..(b - a) : v[i] = IF i <= n - a THEN u[i] ELSE w[i - (n - a)]
      <3>1. Len(u) = n - a /\ Len(w) = c /\ b - a = (n - a) + c
        BY <1>2, <2>2, <2>3, <2>4
      <3>2. /\ v \in Seq(T) /\ Len(v) = Len(u) + Len(w)
            /\ \A i \in 1..(Len(u) + Len(w)) : v[i] = IF i <= Len(u) THEN u[i] ELSE w[i - Len(u)]
        BY <2>3, <2>4, <2>5
      <3> QED
        BY <3>1, <3>2
    <2>7. ASSUME NEW i \in 1..(b - a) PROVE r[i] = v[i]
      <3>1. CASE i <= n - a
        <4>1. i \in 1..(n - a) /\ a + i <= n
          BY <1>2, <2>2, <3>1
        <4> QED
          BY <1>5, <2>3, <2>6, <3>1, <4>1
      <3>2. CASE ~(i <= n - a)
        <4>1. PICK k : k = i - (n - a)
          OBVIOUS
        <4>2. k \in 1..(c - 0) /\ ~(a + i <= n) /\ (a + i) - n = 0 + k
          BY <1>2, <2>2, <3>2, <4>1
        <4>3. v[i] = t[0 + k]
          BY <2>4, <2>6, <3>2, <4>1, <4>2
        <4> QED
          BY <1>5, <4>2, <4>3
      <3> QED
        BY <3>1, <3>2
    <2>8. r = v
      BY <1>4, <2>6, <2>7, ListasIguais
    <2> QED
      BY <2>1, <2>5, <2>8
  <1>8. ASSUME b > n, ~(a < n) PROVE r = SubSeq(t, (a - n) + 1, b - n)
    <2>1. PICK u, c, d : u = SubSeq(t, c + 1, d) /\ c = a - n /\ d = b - n
      OBVIOUS
    <2>2. c \in Nat /\ d \in Nat /\ c <= d /\ d <= Len(t) /\ d - c = b - a
      BY <1>1, <1>2, <1>8, <2>1
    <2>3. /\ u \in Seq(T) /\ Len(u) = d - c
          /\ \A i \in 1..(d - c) : u[i] = t[c + i]
      <3>1. /\ SubSeq(t, c + 1, d) \in Seq(T) /\ Len(SubSeq(t, c + 1, d)) = d - c
            /\ \A i \in 1..(d - c) : SubSeq(t, c + 1, d)[i] = t[c + i]
        BY <2>2, Pagina, Zenon
      <3> QED
        BY <2>1, <3>1, Zenon
    <2>4. ASSUME NEW i \in 1..(b - a) PROVE r[i] = u[i]
      <3>1. ~(a + i <= n) /\ (a + i) - n = c + i
        BY <1>2, <1>8, <2>1
      <3> QED
        BY <1>5, <2>2, <2>3, <3>1
    <2> QED
      BY <1>4, <2>1, <2>2, <2>3, <2>4, ListasIguais
  <1>9. CASE b <= n
    BY <1>1, <1>6, <1>9
  <1>10. CASE b > n /\ a < n
    <2>1. SubSeq(s \o t, a + 1, b) = SubSeq(s, a + 1, Len(s)) \o SubSeq(t, 1, b - Len(s))
      BY <1>1, <1>7, <1>10, Zenon
    <2>2. ~(b <= Len(s)) /\ a < Len(s)
      BY <1>1, <1>2, <1>10
    <2> QED
      BY <2>1, <2>2, Zenon
  <1>11. CASE b > n /\ ~(a < n)
    <2>1. SubSeq(s \o t, a + 1, b) = SubSeq(t, (a - Len(s)) + 1, b - Len(s))
      BY <1>1, <1>8, <1>11, Zenon
    <2>2. ~(b <= Len(s)) /\ ~(a < Len(s))
      BY <1>1, <1>2, <1>11
    <2> QED
      BY <2>1, <2>2, Zenon
  <1>12. (b <= n) \/ (b > n /\ a < n) \/ (b > n /\ ~(a < n))
    BY <1>2
  <1> QED
    BY <1>9, <1>10, <1>11, <1>12, Zenon

(* A page of the list of payments is that page of all that is on it: what   *)
(* is due, then the charges.                                                *)
LEMMA PaginasCertas ==
    ASSUME NEW T, NEW p \in Seq(T), CobrancasOK, NEW limit \in 1..3,
           NEW offset \in 0..Len(p \o P!ListCobrancas)
    PROVE  P!ListarPagamentosUnificado(p, limit, offset) =
             SubSeq(p \o P!ListCobrancas, offset + 1,
                    P!Min({offset + limit, Len(p \o P!ListCobrancas)}))
  <1>1. PICK Z : cobrancas \in Seq(Z)
    BY DEF CobrancasOK
  <1>2. PICK t, n, m : t = P!ListCobrancas /\ n = Len(p) /\ m = Len(t)
    OBVIOUS
  <1>3. t \in Seq(T \cup Z) /\ p \in Seq(T \cup Z) /\ n \in Nat /\ m \in Nat
        /\ Len(p \o t) = n + m
    <2>1. t \in Seq(T \cup Z)
      <3>1. t = [i \in 1..Len(cobrancas) |-> cobrancas[(Len(cobrancas) - i) + 1]]
        BY <1>2 DEF P!ListCobrancas, P!Reverse
      <3>2. PICK k \in Nat : k = Len(cobrancas)
        BY <1>1
      <3>3. \A i \in 1..k : cobrancas[(k - i) + 1] \in T \cup Z
        BY <1>1, <3>2
      <3> QED
        BY <3>1, <3>2, <3>3
    <2>2. p \in Seq(T \cup Z)
      OBVIOUS
    <2> QED
      BY <1>2, <2>1, <2>2
  <1>4. offset \in Nat /\ limit \in Nat /\ limit > 0 /\ offset <= n + m
    BY <1>2, <1>3
  <1>5. PICK b : b = IF offset + limit <= n + m THEN offset + limit ELSE n + m
    OBVIOUS
  <1>6. b \in Nat /\ offset <= b /\ b <= n + m
    BY <1>3, <1>4, <1>5
  <1>7. P!Min({offset + limit, Len(p \o P!ListCobrancas)}) = b
    <2>1. P!Min({offset + limit, n + m}) = b
      BY <1>3, <1>4, <1>5, MinDeDois
    <2> QED
      BY <1>2, <1>3, <2>1
  <1>8. SubSeq(p \o t, offset + 1, b) =
             IF b <= n THEN SubSeq(p, offset + 1, b)
             ELSE IF offset < n THEN SubSeq(p, offset + 1, n) \o SubSeq(t, 1, b - n)
             ELSE SubSeq(t, (offset - n) + 1, b - n)
    <2>1. b <= Len(p) + Len(t)
      BY <1>2, <1>6, Zenon
    <2>2. SubSeq(p \o t, offset + 1, b) =
             IF b <= Len(p) THEN SubSeq(p, offset + 1, b)
             ELSE IF offset < Len(p) THEN SubSeq(p, offset + 1, Len(p)) \o SubSeq(t, 1, b - Len(p))
             ELSE SubSeq(t, (offset - Len(p)) + 1, b - Len(p))
      <3>1. PICK Y, a : Y = T \cup Z /\ a = offset
        OBVIOUS
      <3>2. p \in Seq(Y) /\ t \in Seq(Y) /\ a \in Nat /\ a <= b
        BY <1>3, <1>4, <1>6, <3>1, Zenon
      <3>3. SubSeq(p \o t, a + 1, b) =
               IF b <= Len(p) THEN SubSeq(p, a + 1, b)
               ELSE IF a < Len(p) THEN SubSeq(p, a + 1, Len(p)) \o SubSeq(t, 1, b - Len(p))
               ELSE SubSeq(t, (a - Len(p)) + 1, b - Len(p))
        BY <1>6, <2>1, <3>2, PaginaDeDuas
      <3> QED
        BY <3>1, <3>3, Zenon
    <2> QED
      BY <1>2, <2>2, Zenon
  <1>9. ASSUME NEW l \in Nat, NEW o \in Nat, o <= m
        PROVE  P!buscarCobrancas(l, o) = SubSeq(t, o + 1, IF o + l <= m THEN o + l ELSE m)
    <2>1. P!Min({o + l, m}) = IF o + l <= m THEN o + l ELSE m
      BY <1>3, MinDeDois
    <2> QED
      BY <1>2, <2>1 DEF P!buscarCobrancas
  <1>10. CASE offset < n
    <2>1. PICK e, r : /\ e = (IF offset + limit <= n THEN offset + limit ELSE n)
                      /\ r = SubSeq(p, offset + 1, e)
      OBVIOUS
    <2>2. P!Min({offset + limit, n}) = e
      BY <1>3, <1>4, <2>1, MinDeDois
    <2>3. e \in Nat /\ offset <= e /\ e <= n /\ offset < e
      BY <1>3, <1>4, <1>10, <2>1
    <2>4. r \in Seq(T \cup Z) /\ Len(r) = e - offset
      <3>1. e <= Len(p)
        BY <1>2, <2>3, Zenon
      <3>2. SubSeq(p, offset + 1, e) \in Seq(T \cup Z)
            /\ Len(SubSeq(p, offset + 1, e)) = e - offset
        BY <1>3, <1>4, <2>3, <3>1, Pagina, ZenonT(30)
      <3> QED
        BY <2>1, <3>2, Zenon
    <2>5. PICK l : l = limit - Len(r)
      OBVIOUS
    <2>6. l \in Nat /\ 0 <= m /\ l = limit - (e - offset)
      BY <1>3, <1>4, <2>1, <2>3, <2>4, <2>5
    <2>7. P!ListarPagamentosUnificado(p, limit, offset) = r \o P!buscarCobrancas(l, 0)
      BY <1>2, <1>10, <2>1, <2>2, <2>5 DEF P!ListarPagamentosUnificado
    <2>8. PICK f : f = IF l <= m THEN l ELSE m
      OBVIOUS
    <2>9. P!buscarCobrancas(l, 0) = SubSeq(t, 1, f)
      <3>1. P!buscarCobrancas(l, 0) = SubSeq(t, 0 + 1, IF 0 + l <= m THEN 0 + l ELSE m)
        BY <1>9, <2>6
      <3> QED
        BY <2>6, <2>8, <3>1
    <2>10. CASE offset + limit <= n
      <3>1. l = 0 /\ f = 0 /\ b = offset + limit /\ e = b /\ b <= n
        BY <1>3, <1>4, <1>5, <2>1, <2>6, <2>8, <2>10
      <3>2. SubSeq(t, 1, f) = <<>>
        BY <1>3, <3>1
      <3>3. r \o <<>> = r
        BY <2>4
      <3>4. SubSeq(p \o t, offset + 1, b) = r
        BY <1>8, <2>1, <3>1
      <3> QED
        BY <1>2, <1>7, <2>7, <2>9, <3>2, <3>3, <3>4, Zenon
    <2>11. CASE ~(offset + limit <= n)
      <3>1. e = n /\ f = b - n /\ (b <= n => b = n /\ f = 0)
        BY <1>3, <1>4, <1>5, <2>1, <2>6, <2>8, <2>11
      <3>2. SubSeq(p \o t, offset + 1, b) = r \o SubSeq(t, 1, f)
        <4>1. CASE b <= n
          <5>1. SubSeq(t, 1, f) = <<>> /\ r \o <<>> = r
            BY <1>3, <2>4, <3>1, <4>1
          <5> QED
            BY <1>8, <2>1, <3>1, <4>1, <5>1
        <4>2. CASE ~(b <= n)
          BY <1>8, <1>10, <2>1, <3>1, <4>2
        <4> QED
          BY <4>1, <4>2
      <3> QED
        BY <1>2, <1>7, <2>7, <2>9, <3>2, Zenon
    <2> QED
      BY <2>10, <2>11
  <1>11. CASE ~(offset < n)
    <2>1. PICK o, f : o = offset - n /\ f = IF o + limit <= m THEN o + limit ELSE m
      OBVIOUS
    <2>2. o \in Nat /\ o <= m /\ f = b - n
      BY <1>3, <1>4, <1>5, <1>11, <2>1
    <2>3. P!ListarPagamentosUnificado(p, limit, offset) = SubSeq(t, o + 1, f)
      <3>1. P!ListarPagamentosUnificado(p, limit, offset) = P!buscarCobrancas(limit, o)
        BY <1>2, <1>11, <2>1 DEF P!ListarPagamentosUnificado
      <3> QED
        BY <1>4, <1>9, <2>1, <2>2, <3>1
    <2>4. SubSeq(p \o t, offset + 1, b) = SubSeq(t, o + 1, f)
      <3>1. CASE b <= n
        <4>1. b = n /\ offset = n /\ f = 0 /\ o = 0
          BY <1>3, <1>4, <1>6, <1>11, <2>1, <2>2, <3>1
        <4>2. SubSeq(p, offset + 1, b) = <<>> /\ SubSeq(t, o + 1, f) = <<>>
          BY <1>2, <1>3, <4>1
        <4> QED
          BY <1>8, <3>1, <4>2
      <3>2. CASE ~(b <= n)
        BY <1>8, <1>11, <2>1, <2>2, <3>2
      <3> QED
        BY <3>1, <3>2
    <2> QED
      BY <1>2, <1>7, <2>3, <2>4, Zenon
  <1> QED
    BY <1>10, <1>11

(* A month is in one place of the school year.                              *)
LEMMA MesesUmaVez ==
    /\ P!mesesAnoLetivo \in Seq(Nat) /\ Len(P!mesesAnoLetivo) \in Nat
    /\ \A i, j \in 1..Len(P!mesesAnoLetivo) : P!mesesAnoLetivo[i] = P!mesesAnoLetivo[j] => i = j
  <1>1. PICK z \in {9, 10}, a \in {3, 4} : z = P!mesNaturalInicioAnoLetivo /\ a = 13 - z
    BY DEF P!mesNaturalInicioAnoLetivo
  <1>2. PICK s, t, r : /\ s = [i \in 1..a |-> z + i - 1] /\ t = [i \in 1..7 |-> i]
                       /\ r = s \o t
    OBVIOUS
  <1>3. /\ s \in Seq(Nat) /\ t \in Seq(Nat) /\ a = Len(s) /\ 7 = Len(t)
        /\ \A i \in 1..a : s[i] = z + i - 1
        /\ \A i \in 1..7 : t[i] = i
    BY <1>2
  <1>4. /\ r \in Seq(Nat) /\ Len(r) = a + 7
        /\ \A i \in 1..(a + 7) : r[i] = IF i <= a THEN z + i - 1 ELSE i - a
    <2>1. PICK b : b = 7
      OBVIOUS
    <2>2. r = s \o t /\ s \in Seq(Nat) /\ t \in Seq(Nat)
      BY <1>2, <1>3
    <2>3. /\ r \in Seq(Nat) /\ Len(r) = a + b
          /\ \A i \in 1..(a + b) : r[i] = IF i <= a THEN s[i] ELSE t[i - a]
      <3>1. /\ r \in Seq(Nat) /\ Len(r) = Len(s) + Len(t)
            /\ \A i \in 1..(Len(s) + Len(t)) : r[i] = IF i <= Len(s) THEN s[i] ELSE t[i - Len(s)]
        BY <2>2
      <3>2. a = Len(s) /\ b = Len(t)
        BY <1>3, <2>1
      <3> QED
        BY <3>1, <3>2, Zenon
    <2>4. ASSUME NEW i \in 1..(a + 7) PROVE r[i] = IF i <= a THEN z + i - 1 ELSE i - a
      <3>1. CASE i <= a
        <4>1. r[i] = s[i] /\ i \in 1..a
          BY <2>1, <2>3, <3>1
        <4> QED
          BY <1>3, <3>1, <4>1
      <3>2. CASE ~(i <= a)
        <4>1. i \in 1..(a + b) /\ i - a \in 1..7
          BY <2>1, <3>2
        <4>2. r[i] = t[i - a]
          BY <2>3, <3>2, <4>1, Zenon
        <4> QED
          BY <1>3, <3>2, <4>1, <4>2
      <3> QED
        BY <3>1, <3>2
    <2> QED
      BY <2>1, <2>3, <2>4, Zenon
  <1>5. ASSUME NEW i \in 1..Len(r), NEW j \in 1..Len(r), r[i] = r[j] PROVE i = j
    BY <1>4, <1>5
  <1>6. r = P!mesesAnoLetivo
    BY <1>1, <1>2 DEF P!mesesAnoLetivo
  <1> QED
    BY <1>4, <1>5, <1>6

(* What the student is told to owe is pending, and at the latest price.     *)
LEMMA DoEstudante ==
    ASSUME NEW l \in P!Range(P!PendenciasSemCobrancaEstudante)
    PROVE  \E m \in P!Range(P!mesesAnoLetivo) :
              /\ obrigacao[m] = "pendente" /\ P!DentroDoPeriodo(m, P!ConfiguracaoDoMes(m, TRUE))
              /\ l = P!Linha(m, P!ConfiguracaoDoMes(m, TRUE), "pendente")
  <1> DEFINE G == {m \in P!Range(P!mesesAnoLetivo) : P!Devido(m)}
  <1>1. PICK A : A = P!Filtrar(P!mesesAnoLetivo, G)
    OBVIOUS
  <1>2. A \in Seq(Escolhidos(P!mesesAnoLetivo, Len(P!mesesAnoLetivo), G))
    BY <1>1, MesesUmaVez, FiltrarFacts DEF EscolhaOK
  <1>3. PICK L : L = [i \in DOMAIN A |-> P!Linha(A[i], P!Preco(A[i]), obrigacao[A[i]])]
    OBVIOUS
  <1>4. L = P!ListMensalidades
    BY <1>1, <1>3 DEF P!ListMensalidades
  <1>5. Len(L) \in Nat /\ DOMAIN L = 1..Len(L) /\ DOMAIN A = DOMAIN L
    BY <1>2, <1>3
  <1> DEFINE W == {x \in P!Range(L) : x.estado = "pendente"}
  <1>6. P!Filtrar(L, W) \in Seq(Escolhidos(L, Len(L), W))
    BY <1>5, FiltrarFacts DEF EscolhaOK
  <1>7. P!PendenciasSemCobrancaEstudante = P!Filtrar(L, W)
    BY <1>4 DEF P!PendenciasSemCobrancaEstudante
  <1>8. l \in Escolhidos(L, Len(L), W)
    <2> HIDE DEF W
    <2> QED
      BY <1>6, <1>7 DEF P!Range
  <1>9. PICK j \in DOMAIN A : l = L[j] /\ l.estado = "pendente"
    BY <1>5, <1>8 DEF Escolhidos
  <1>10. PICK m : m = A[j] /\ m \in G
    <2> HIDE DEF G
    <2>1. A[j] \in Escolhidos(P!mesesAnoLetivo, Len(P!mesesAnoLetivo), G)
      BY <1>2
    <2> QED
      BY <2>1 DEF Escolhidos
  <1>11. l = P!Linha(m, P!Preco(m), obrigacao[m])
    BY <1>3, <1>9, <1>10
  <1>12. obrigacao[m] = "pendente"
    BY <1>9, <1>11 DEF P!Linha
  <1> QED
    BY <1>10, <1>11, <1>12 DEF P!Devido, P!Preco

(* The query of the class has each month once, and all that are due.        *)
LEMMA DaClasse ==
    /\ P!PendenciasSemCobranca \in Seq(P!Range(P!PendenciasSemCobranca))
    /\ \A i, j \in DOMAIN P!PendenciasSemCobranca :
          P!PendenciasSemCobranca[i] = P!PendenciasSemCobranca[j] => i = j
    /\ \A m \in P!Range(P!mesesAnoLetivo) :
          obrigacao[m] = "pendente" /\ P!DentroDoPeriodo(m, P!ConfiguracaoDoMes(m, TRUE))
          => \E k \in DOMAIN P!PendenciasSemCobranca :
                P!PendenciasSemCobranca[k] = P!Linha(m, P!ConfiguracaoDoMes(m, TRUE), "pendente")
  <1> DEFINE G == {m \in P!Range(P!mesesAnoLetivo) :
            obrigacao[m] = "pendente" /\ P!DentroDoPeriodo(m, P!ConfiguracaoDoMes(m, TRUE))}
  <1>1. PICK B, n : B = P!Filtrar(P!mesesAnoLetivo, G) /\ n = Len(P!mesesAnoLetivo)
    OBVIOUS
  <1>2. EscolhaOK(B, P!mesesAnoLetivo, n, G)
    BY <1>1, MesesUmaVez, FiltrarFacts
  <1>3. B \in Seq(Escolhidos(P!mesesAnoLetivo, n, G)) /\ \A i, j \in DOMAIN B : B[i] = B[j] => i = j
    BY <1>1, <1>2, MesesUmaVez DEF EscolhaOK
  <1>4. PICK L : L = [i \in DOMAIN B |-> P!Linha(B[i], P!ConfiguracaoDoMes(B[i], TRUE), "pendente")]
    OBVIOUS
  <1>5. L = P!PendenciasSemCobranca
    BY <1>1, <1>4 DEF P!PendenciasSemCobranca
  <1>6. DOMAIN L = DOMAIN B /\ DOMAIN B = 1..Len(B) /\ Len(B) \in Nat
    BY <1>3, <1>4
  <1>7. L \in Seq(P!Range(L))
    <2>1. PICK b \in Nat : b = Len(B)
      BY <1>6
    <2>2. \A i \in 1..b : L[i] \in P!Range(L)
      BY <1>6, <2>1 DEF P!Range
    <2>3. L = [i \in 1..b |-> L[i]]
      BY <1>4, <1>6, <2>1
    <2> QED
      BY <2>2, <2>3
  <1>8. ASSUME NEW i \in DOMAIN L, NEW j \in DOMAIN L, L[i] = L[j] PROVE i = j
    <2>1. L[i].mes = B[i] /\ L[j].mes = B[j]
      BY <1>4, <1>6 DEF P!Linha
    <2> QED
      BY <1>3, <1>6, <1>8, <2>1
  <1>9. ASSUME NEW m \in G
        PROVE  \E k \in DOMAIN L : L[k] = P!Linha(m, P!ConfiguracaoDoMes(m, TRUE), "pendente")
    <2>1. PICK j \in 1..n : P!mesesAnoLetivo[j] = m
      <3>1. m \in P!Range(P!mesesAnoLetivo)
        OBVIOUS
      <3>2. DOMAIN P!mesesAnoLetivo = 1..n
        BY <1>1, MesesUmaVez
      <3> QED
        BY <3>1, <3>2 DEF P!Range
    <2>2. PICK k \in DOMAIN B : B[k] = m
      <3> HIDE DEF G
      <3> QED
        BY <1>2, <1>9, <2>1 DEF EscolhaOK
    <2> QED
      BY <1>4, <1>6, <2>2
  <1> QED
    BY <1>5, <1>7, <1>8, <1>9

(* The cardinality that Mensalidade speaks of is that of FiniteSets.        *)
LEMMA MensalidadeCardinality ==
    ASSUME NEW Z
    PROVE  P!Cardinality(Z) = Cardinality(Z)
  BY DEF P!Cardinality, Cardinality

(* Each month the student can pay is listed once, or waits in charges: in   *)
(* one, unless it is one that was repeated.                                 *)
LEMMA UmaSoVez ==
    ASSUME CobrancasOK, UmaAberta, NEW l \in P!Range(P!PendenciasSemCobrancaEstudante), NEW D,
           D = P!FiltrarPendenciasComCobrancaRealVinculada(P!PendenciasSemCobranca)
    PROVE  LET ali == {i \in DOMAIN cobrancas :
                          cobrancas[i].status = "aberta" /\ l.mes \in cobrancas[i].meses}
           IN  /\ P!Cardinality({i \in DOMAIN D : D[i] = l}) = IF ali = {} THEN 1 ELSE 0
               /\ P!Cardinality(ali) > 1 => l.mes \in repetidas
  <1> DEFINE aqui == {i \in DOMAIN D : D[i] = l}
             ali == {i \in DOMAIN cobrancas :
                        cobrancas[i].status = "aberta" /\ l.mes \in cobrancas[i].meses}
  <1> SUFFICES /\ P!Cardinality(aqui) = IF ali = {} THEN 1 ELSE 0
               /\ P!Cardinality(ali) > 1 => l.mes \in repetidas
    OBVIOUS
  <1>1. PICK L : L = P!PendenciasSemCobranca
    OBVIOUS
  <1>2. L \in Seq(P!Range(L)) /\ \A i, j \in DOMAIN L : L[i] = L[j] => i = j
    BY <1>1, DaClasse
  <1>3. PICK m \in P!Range(P!mesesAnoLetivo) :
              /\ obrigacao[m] = "pendente" /\ P!DentroDoPeriodo(m, P!ConfiguracaoDoMes(m, TRUE))
              /\ l = P!Linha(m, P!ConfiguracaoDoMes(m, TRUE), "pendente")
    BY DoEstudante
  <1>4. PICK k \in DOMAIN L : L[k] = l
    BY <1>1, <1>3, DaClasse
  <1> DEFINE W == {x \in P!Range(L) : ~P!mensalidadeTemCobrancaAberta(x.mes)}
  <1>5. D = P!Filtrar(L, W)
    BY <1>1 DEF P!FiltrarPendenciasComCobrancaRealVinculada
  <1>6. Len(L) \in Nat /\ DOMAIN L = 1..Len(L)
    BY <1>2
  <1>7. l \in P!Range(L)
    BY <1>4 DEF P!Range
  <1>8. EscolhaOK(D, L, Len(L), W)
    BY <1>5, <1>6, FiltrarFacts
  <1>9. P!Cardinality({}) = 0 /\ \A x : P!Cardinality({x}) = 1
    BY FS_EmptySet, FS_Singleton, MensalidadeCardinality
  <1>10. CASE P!mensalidadeTemCobrancaAberta(l.mes)
    <2>1. aqui = {}
      <3>1. ASSUME NEW i \in DOMAIN D PROVE D[i] \in W
        <4> HIDE DEF W
        <4>1. D[i] \in Escolhidos(L, Len(L), W)
          BY <1>8 DEF EscolhaOK
        <4> QED
          BY <4>1 DEF Escolhidos
      <3> QED
        BY <1>10, <3>1
    <2>2. PICK c \in P!Range(cobrancas) : c.status = "aberta" /\ l.mes \in c.meses
      BY <1>10 DEF P!mensalidadeTemCobrancaAberta
    <2>3. PICK i \in DOMAIN cobrancas : cobrancas[i] = c
      BY <2>2 DEF P!Range
    <2>4. i \in ali
      BY <2>2, <2>3
    <2>5. ASSUME l.mes \notin repetidas PROVE ali = {i}
      <3>1. ASSUME NEW j \in ali PROVE j = i
        <4>1. Espera(i, l.mes) /\ Espera(j, l.mes)
          BY <2>2, <2>3 DEF Espera
        <4> QED
          BY <2>5, <4>1 DEF UmaAberta
      <3> QED
        BY <2>4, <3>1
    <2> HIDE DEF aqui, ali
    <2>6. P!Cardinality(aqui) = 0 /\ (l.mes \notin repetidas => P!Cardinality(ali) = 1)
      BY <1>9, <2>1, <2>5, Zenon
    <2> QED
      BY <2>4, <2>6
  <1>11. CASE ~P!mensalidadeTemCobrancaAberta(l.mes)
    <2>1. ali = {}
      BY <1>11 DEF P!mensalidadeTemCobrancaAberta, P!Range
    <2>2. l \in W
      BY <1>7, <1>11
    <2>3. \A i, j \in 1..Len(L) : L[i] = L[j] => i = j
      BY <1>2, <1>6
    <2>4. PICK i \in DOMAIN D : D[i] = l
      <3> HIDE DEF W
      <3> QED
        BY <1>4, <1>6, <1>8, <2>2 DEF EscolhaOK
    <2>5. \A x, y \in DOMAIN D : D[x] = D[y] => x = y
      <3> HIDE DEF W
      <3> QED
        BY <1>8, <2>3 DEF EscolhaOK
    <2>6. aqui = {i}
      BY <2>4, <2>5
    <2> HIDE DEF aqui, ali
    <2>7. P!Cardinality(aqui) = 1 /\ P!Cardinality(ali) = 0
      BY <1>9, <2>1, <2>6
    <2> QED
      BY <2>1, <2>7
  <1> QED
    BY <1>10, <1>11

(* So nothing that is due is hidden.                                        *)
LEMMA NadaEscondido ==
    ASSUME IConta
    PROVE  P!NothingDueIsHidden
  <1> DEFINE D == P!FiltrarPendenciasComCobrancaRealVinculada(P!PendenciasSemCobranca)
             esperam(mes) == {i \in DOMAIN cobrancas :
                                 cobrancas[i].status = "aberta" /\ mes \in cobrancas[i].meses}
  <1>1. \A l \in P!Range(P!PendenciasSemCobrancaEstudante) :
          /\ P!Cardinality({i \in DOMAIN D : D[i] = l}) = IF esperam(l.mes) = {} THEN 1 ELSE 0
          /\ P!Cardinality(esperam(l.mes)) > 1 => l.mes \in repetidas
    BY UmaSoVez DEF IConta
  <1>2. \E T : D \in Seq(T)
    <2> DEFINE L == P!PendenciasSemCobranca
               W == {x \in P!Range(L) : ~P!mensalidadeTemCobrancaAberta(x.mes)}
    <2>1. Len(L) \in Nat
      BY DaClasse
    <2>2. D = P!Filtrar(L, W)
      BY DEF P!FiltrarPendenciasComCobrancaRealVinculada
    <2> HIDE DEF D, L, W
    <2> QED
      BY <2>1, <2>2, FiltrarFacts DEF EscolhaOK
  <1>3. \A limit \in 1..3 : \A offset \in 0..Len(D \o P!ListCobrancas) :
              P!ListarPagamentosUnificado(D, limit, offset) =
                SubSeq(D \o P!ListCobrancas, offset + 1,
                       P!Min({offset + limit, Len(D \o P!ListCobrancas)}))
    <2> HIDE DEF D
    <2> QED
      BY <1>2, PaginasCertas DEF IConta
  <1> QED
    BY <1>1, <1>3, Zenon DEF P!NothingDueIsHidden

(* The configurations of monthly fees are set or removed.                   *)
LEMMA MensalidadeTypeOK == ASSUME IMensalidade, IConta PROVE P!TypeOK
  <1>1. \A i \in DOMAIN configs : configs[i].tipo \in {"Configurada", "Removida"}
    BY DEF IMensalidade, Registos
  <1> QED
    BY <1>1, ContaTypeOK

-----------------------------------------------------------------------------
(* Enrolment.  Why an identity card never has two students, for any number  *)
(* of requests and handlers.  The argument follows the guard of the card:   *)
(* whoever has it is between reserving and consuming it, and the read model *)
(* shows every student with the card whenever the guard can be taken.       *)

M == INSTANCE Matricula

\* the states of the guard are not handlers, and a direct registration is not a request
MatriculaHipoteses ==
    /\ Atendentes \cap {"livre", "consumida", M!Orfa} = {}
    /\ M!Direto \notin Candidaturas /\ ComBI \subseteq Candidaturas
    /\ MaxCobrancas \in Nat

Cartao(s) == s = M!Direto \/ s \in ComBI
PassosMatricula == {"parado", "reservar", "verificar", "decidir", "consumir", "gravar", "cancelar",
           "gerar", "cancelarCobrancas", "gravarCancelamento"}
OpsMatricula == {M!Ninguem, "registar", "aprovar", "efetivar", "pagar", "cancelar", "recusar"}
PedidosMatricula ==
    [passo : PassosMatricula, op : OpsMatricula, s : Candidaturas \cup {M!Direto, M!Ninguem},
     alvos : SUBSET ComBI]
EventosMatricula == {"Criada", "Aprovada", "AprovadaPendentePagamento", "Vinculada", "Reprovada",
            "Cancelada", "CanceladaPorOutra", "ValorPendenteAtualizado"}
CobrancasMatricula == [abertas : Nat, pagas : Nat, canceladas : Nat]

DominiosMatricula ==
    /\ solicitacao \in [Candidaturas -> Seq(EventosMatricula)] /\ lida \in [Candidaturas -> Nat]
    /\ estudantes \in Seq([de : Candidaturas \cup {M!Direto}, visivel : BOOLEAN])
    /\ cobranca \in [Candidaturas -> CobrancasMatricula]
    /\ atendente \in [Atendentes -> PedidosMatricula]

\* A handler has a request, or registers a student directly.
OpMatriculaOK == \A h \in Atendentes :
    \/ atendente[h] = M!Parado
    \/ /\ atendente[h].op = "registar" /\ atendente[h].s = M!Direto
       /\ atendente[h].passo \in {"reservar", "verificar", "decidir", "consumir"}
    \/ /\ atendente[h].op # "registar" /\ atendente[h].s \in Candidaturas

\* The guard and its holder say the same.
Segura(h) ==
    \/ atendente[h].passo \in {"verificar", "consumir"}
    \/ atendente[h].passo = "decidir" /\ Cartao(atendente[h].s)
GuardaMatriculaOK == \A h \in Atendentes :
    /\ guarda = h <=> Segura(h)
    /\ Segura(h) \/ atendente[h].passo = "reservar" => Cartao(atendente[h].s)

\* The students with the card: one, and one more for each time it was freed.
Alunos == {i \in DOMAIN estudantes : M!TemCartao(estudantes[i])}
Unico ==
    /\ descobertas \in Nat /\ IsFiniteSet(Alunos) /\ Cardinality(Alunos) \in Nat
    /\ Cardinality(Alunos) <= 1 + descobertas
Cheio == Cardinality(Alunos) = 1 + descobertas

\* When there are as many as there may be, whoever may take the guard, or has it and
\* has not looked, would see one, and nobody is about to make another.
VistoMatriculaOK == Cheio =>
    /\ guarda = "livre" => M!BilheteCadastrado
    /\ \A h \in Atendentes : atendente[h].passo = "verificar" => M!BilheteCadastrado
    /\ \A h \in Atendentes : ~(atendente[h].passo = "decidir" /\ Cartao(atendente[h].s))

IMatricula ==
    DominiosMatricula /\ M!TypeOK /\ OpMatriculaOK /\ GuardaMatriculaOK /\ VistoMatriculaOK /\ Unico

-----------------------------------------------------------------------------
(* While no student is made, as many have the card and as many are in sight. *)
LEMMA MesmosAlunos ==
    ASSUME Unico, UNCHANGED <<estudantes, descobertas>>
    PROVE  /\ (Cheio' <=> Cheio) /\ (M!BilheteCadastrado' <=> M!BilheteCadastrado)
           /\ Unico'
  <1>1. Alunos' = Alunos /\ M!BilheteCadastrado' = M!BilheteCadastrado
    BY DEF Alunos, M!BilheteCadastrado, M!TemCartao, M!Range
  <1> QED
    BY <1>1 DEF Cheio, Unico

(* A student with the card is one more.                                     *)
LEMMA MaisUmAluno ==
    ASSUME Unico, NEW e, estudantes' = Append(estudantes, e), NEW T, estudantes \in Seq(T), e \in T
    PROVE  /\ IsFiniteSet(Alunos') /\ Cardinality(Alunos') \in Nat
           /\ Cardinality(Alunos') = Cardinality(Alunos) + (IF M!TemCartao(e) THEN 1 ELSE 0)
           /\ M!BilheteCadastrado => M!BilheteCadastrado'
  <1> DEFINE n == Len(estudantes) + 1
  <1>1. /\ DOMAIN estudantes' = DOMAIN estudantes \cup {n} /\ n \notin DOMAIN estudantes
        /\ estudantes'[n] = e
        /\ \A i \in DOMAIN estudantes : estudantes'[i] = estudantes[i]
    OBVIOUS
  <1> HIDE DEF n
  <1>2. Alunos' = IF M!TemCartao(e) THEN Alunos \cup {n} ELSE Alunos
    BY <1>1 DEF Alunos, M!TemCartao
  <1>3. n \notin Alunos
    BY <1>1 DEF Alunos
  <1>4. IsFiniteSet(Alunos) /\ Cardinality(Alunos) \in Nat
    BY DEF Unico
  <1>5. M!BilheteCadastrado => M!BilheteCadastrado'
    BY <1>1 DEF M!BilheteCadastrado, M!Range, M!TemCartao
  <1>6. /\ IsFiniteSet(Alunos \cup {n})
        /\ Cardinality(Alunos \cup {n}) = Cardinality(Alunos) + 1
    BY <1>3, <1>4, FS_AddElement
  <1>7. CASE M!TemCartao(e)
    BY <1>2, <1>4, <1>5, <1>6, <1>7
  <1>8. CASE ~M!TemCartao(e)
    BY <1>2, <1>4, <1>5, <1>8
  <1> QED
    BY <1>7, <1>8

(* What the two ways of ending a step do to the handlers.                   *)
LEMMA PassaFacts ==
    ASSUME atendente \in [Atendentes -> PedidosMatricula], NEW h \in Atendentes,
           NEW p \in PassosMatricula, M!Passa(h, p)
    PROVE  /\ atendente' \in [Atendentes -> PedidosMatricula]
           /\ atendente'[h].passo = p /\ atendente'[h].op = atendente[h].op
           /\ atendente'[h].s = atendente[h].s
           /\ \A g \in Atendentes \ {h} : atendente'[g] = atendente[g]
  BY DEF M!Passa, PedidosMatricula

(* A handler that ends leaves the others as they were.                      *)
LEMMA TerminaFacts ==
    ASSUME atendente \in [Atendentes -> PedidosMatricula], NEW h \in Atendentes, M!Termina(h)
    PROVE  /\ atendente' \in [Atendentes -> PedidosMatricula]
           /\ atendente'[h] = M!Parado /\ M!Parado.passo = "parado"
           /\ \A g \in Atendentes \ {h} : atendente'[g] = atendente[g]
  <1>1. M!Parado \in PedidosMatricula /\ M!Parado.passo = "parado"
    BY DEF M!Parado, PedidosMatricula, PassosMatricula, OpsMatricula
  <1> QED
    BY <1>1 DEF M!Termina

(* The initial states satisfy the invariant.                                *)
LEMMA MatriculaInit == ASSUME MatriculaHipoteses PROVE M!Init => IMatricula
  <1> SUFFICES ASSUME M!Init PROVE IMatricula
    OBVIOUS
  <1>1. DominiosMatricula
    <2>1. /\ <<>> \in Seq(EventosMatricula)
          /\ <<>> \in Seq([de : Candidaturas \cup {M!Direto}, visivel : BOOLEAN])
      OBVIOUS
    <2>2. M!Parado \in PedidosMatricula
      BY DEF M!Parado, PedidosMatricula, PassosMatricula, OpsMatricula
    <2>3. [abertas |-> 0, pagas |-> 0, canceladas |-> 0] \in CobrancasMatricula
      BY DEF CobrancasMatricula
    <2> QED
      BY <2>1, <2>2, <2>3 DEF M!Init, DominiosMatricula
  <1>4. M!TypeOK
    BY DEF MatriculaHipoteses, M!Init, M!TypeOK, M!Parado, M!Orfa, M!Total
  <1>2. OpMatriculaOK /\ GuardaMatriculaOK
    BY DEF MatriculaHipoteses, M!Init, OpMatriculaOK, GuardaMatriculaOK, Segura, M!Parado
  <1>3. VistoMatriculaOK /\ Unico
    <2>1. Alunos = {}
      BY DEF M!Init, Alunos
    <2>2. IsFiniteSet({}) /\ Cardinality({}) = 0
      BY FS_EmptySet
    <2>3. descobertas = 0 /\ 1 + 0 # 0
      BY DEF M!Init
    <2> QED
      BY <2>1, <2>2, <2>3 DEF VistoMatriculaOK, Cheio, Unico
  <1> QED
    BY <1>1, <1>2, <1>3, <1>4 DEF IMatricula

(* A handler that takes a request, without the guard.                      *)
LEMMA AtendeInv ==
    ASSUME MatriculaHipoteses, IMatricula, NEW h \in Atendentes,
           NEW op \in OpsMatricula, NEW s \in Candidaturas \cup {M!Direto},
           NEW passo \in PassosMatricula,
           M!Atende(h, op, s, passo),
           UNCHANGED <<solicitacao, lida, estudantes, guarda, cobranca, taxa, descobertas>>,
           op = "registar" => s = M!Direto, op = "registar" => passo = "reservar",
           op # "registar" => s \in Candidaturas,
           passo \in {"reservar", "gerar", "cancelarCobrancas", "decidir"},
           passo = "decidir" => ~Cartao(s), passo = "reservar" => Cartao(s)
    PROVE  IMatricula'
  <1> USE DEF M!Atende
  <1>1. atendente' \in [Atendentes -> PedidosMatricula]
    BY DEF IMatricula, DominiosMatricula, PedidosMatricula
  <1>2. DominiosMatricula' /\ M!TypeOK'
    BY <1>1 DEF IMatricula, DominiosMatricula, M!TypeOK, GuardaMatriculaOK, Segura, M!Parado,
       M!Total
  <1>3. OpMatriculaOK'
    BY DEF IMatricula, OpMatriculaOK, DominiosMatricula
  <1>4. GuardaMatriculaOK'
    BY DEF IMatricula, GuardaMatriculaOK, Segura, DominiosMatricula, M!Parado
  <1>5. VistoMatriculaOK' /\ Unico'
    <2>1. (Cheio' <=> Cheio) /\ (M!BilheteCadastrado' <=> M!BilheteCadastrado) /\ Unico'
      BY MesmosAlunos DEF IMatricula
    <2> QED
      BY <2>1 DEF IMatricula, VistoMatriculaOK, DominiosMatricula
  <1> QED
    BY <1>2, <1>3, <1>4, <1>5 DEF IMatricula

(* The first step of each handler.                                          *)
LEMMA MatriculaComecaInv ==
    ASSUME MatriculaHipoteses, IMatricula, NEW h \in Atendentes, M!Comeca(h) PROVE IMatricula'
  <1>1. CASE M!registerEstudantePorAcademia(h)
    BY <1>1, AtendeInv DEF M!registerEstudantePorAcademia, OpsMatricula, PassosMatricula, Cartao
  <1>2. ASSUME NEW s \in Candidaturas,
               \/ M!AprovarSolicitacaoMatricula(h, s) \/ M!efetivarVinculoMatriculaPaga(h, s)
               \/ M!IniciarPagamentoMatricula(h, s) \/ M!CancelarSolicitacaoMatricula(h, s)
        PROVE  IMatricula'
    <2>1. /\ M!Reserva(s) \in {"reservar", "decidir"}
          /\ M!Reserva(s) = "decidir" => ~Cartao(s)
          /\ M!Reserva(s) = "reservar" => Cartao(s)
      BY DEF M!Reserva, Cartao
    <2>2. CASE M!AprovarSolicitacaoMatricula(h, s)
      BY <2>1, <2>2, AtendeInv DEF M!AprovarSolicitacaoMatricula, OpsMatricula, PassosMatricula
    <2>3. CASE M!efetivarVinculoMatriculaPaga(h, s)
      BY <2>1, <2>3, AtendeInv DEF M!efetivarVinculoMatriculaPaga, OpsMatricula, PassosMatricula
    <2>4. CASE M!IniciarPagamentoMatricula(h, s)
      BY <2>4, AtendeInv DEF M!IniciarPagamentoMatricula, OpsMatricula, PassosMatricula
    <2>5. CASE M!CancelarSolicitacaoMatricula(h, s)
      BY <2>5, AtendeInv DEF M!CancelarSolicitacaoMatricula, OpsMatricula, PassosMatricula
    <2> QED
      BY <1>2, <2>2, <2>3, <2>4, <2>5
  <1> QED
    BY <1>1, <1>2 DEF M!Comeca

(* The requests get events, and the handlers that append them do not hold   *)
(* the guard, or give it back.                                              *)
LEMMA RegistaTipos ==
    ASSUME IMatricula, NEW s \in Candidaturas, NEW eventos \in Seq(EventosMatricula),
           M!Regista(s, eventos)
    PROVE  /\ solicitacao' \in [Candidaturas -> Seq(EventosMatricula)]
           /\ \A t \in Candidaturas : lida[t] \in 0..Len(solicitacao'[t])
  <1>1. solicitacao[s] \o eventos \in Seq(EventosMatricula)
        /\ Len(solicitacao[s] \o eventos) >= Len(solicitacao[s])
    BY DEF IMatricula, DominiosMatricula
  <1> QED
    BY <1>1 DEF IMatricula, DominiosMatricula, M!TypeOK, M!Regista

(* A handler without the guard is done, or goes to a step without it.       *)
LEMMA SemGuardaInv ==
    ASSUME MatriculaHipoteses, IMatricula, NEW h \in Atendentes,
           atendente' \in [Atendentes -> PedidosMatricula],
           \A g \in Atendentes \ {h} : atendente'[g] = atendente[g],
           guarda # h, UNCHANGED <<guarda, estudantes, descobertas>>,
           atendente'[h] # M!Parado => atendente'[h].op # "registar",
           atendente'[h] # M!Parado => atendente'[h].s \in Candidaturas,
           atendente'[h].passo \notin {"verificar", "consumir"},
           atendente'[h].passo = "decidir" => ~Cartao(atendente'[h].s),
           atendente'[h].passo = "reservar" => Cartao(atendente'[h].s)
    PROVE  /\ OpMatriculaOK' /\ GuardaMatriculaOK' /\ VistoMatriculaOK' /\ Unico'
           /\ guarda' \in Atendentes \cup {"livre", "consumida", M!Orfa}
           /\ \A g \in Atendentes :
                 guarda' = g => atendente'[g].passo \in {"verificar", "decidir", "consumir"}
  <1>1. OpMatriculaOK'
    BY DEF IMatricula, OpMatriculaOK
  <1>2. GuardaMatriculaOK'
    BY DEF IMatricula, GuardaMatriculaOK, Segura
  <1>3. (Cheio' <=> Cheio) /\ (M!BilheteCadastrado' <=> M!BilheteCadastrado) /\ Unico'
    BY MesmosAlunos DEF IMatricula
  <1>4. VistoMatriculaOK'
    BY <1>3 DEF IMatricula, VistoMatriculaOK
  <1> QED
    BY <1>1, <1>2, <1>3, <1>4 DEF GuardaMatriculaOK, Segura, IMatricula, M!TypeOK

-----------------------------------------------------------------------------
(* The steps of a handler that creates a student.                           *)

(* Who finds the guard free gets it while every student is in sight.        *)
LEMMA MatriculaReserveInv ==
    ASSUME MatriculaHipoteses, IMatricula, NEW h \in Atendentes, M!Reserve(h)
    PROVE  IMatricula'
  <1>0. /\ UNCHANGED <<solicitacao, lida, estudantes, cobranca, descobertas>>
        /\ atendente[h].passo = "reservar"
    BY DEF M!Reserve
  <1>3. (Cheio' <=> Cheio) /\ (M!BilheteCadastrado' <=> M!BilheteCadastrado) /\ Unico'
    BY <1>0, MesmosAlunos DEF IMatricula
  <1>1. CASE guarda = "livre" /\ guarda' = h /\ M!Passa(h, "verificar")
    <2>1. "verificar" \in PassosMatricula
      BY DEF PassosMatricula
    <2>2. /\ atendente' \in [Atendentes -> PedidosMatricula]
          /\ atendente'[h].passo = "verificar" /\ atendente'[h].op = atendente[h].op
          /\ atendente'[h].s = atendente[h].s
          /\ \A g \in Atendentes \ {h} : atendente'[g] = atendente[g]
      BY <1>1, <2>1, PassaFacts DEF IMatricula, DominiosMatricula
    <2>3. DominiosMatricula' /\ OpMatriculaOK'
      <3>1. atendente[h] # M!Parado
        BY <1>0 DEF M!Parado
      <3> QED
        BY <1>0, <2>2, <3>1 DEF IMatricula, DominiosMatricula, OpMatriculaOK
    <2>4. GuardaMatriculaOK'
      BY <1>0, <1>1, <2>2 DEF IMatricula, GuardaMatriculaOK, Segura, MatriculaHipoteses
    <2>5. M!TypeOK'
      BY <1>0, <1>1, <2>2 DEF IMatricula, M!TypeOK, GuardaMatriculaOK, Segura, M!Total,
         MatriculaHipoteses
    <2>6. VistoMatriculaOK' /\ Unico'
      BY <1>0, <1>1, <1>3, <2>2 DEF IMatricula, VistoMatriculaOK, MatriculaHipoteses
    <2> QED
      BY <2>3, <2>4, <2>5, <2>6 DEF IMatricula
  <1>2. CASE guarda # "livre" /\ M!Termina(h) /\ UNCHANGED guarda
    <2>2. /\ atendente' \in [Atendentes -> PedidosMatricula]
          /\ atendente'[h] = M!Parado /\ M!Parado.passo = "parado"
          /\ \A g \in Atendentes \ {h} : atendente'[g] = atendente[g]
      BY <1>2, TerminaFacts DEF IMatricula, DominiosMatricula
    <2>3. DominiosMatricula' /\ OpMatriculaOK'
      BY <1>0, <2>2 DEF IMatricula, DominiosMatricula, OpMatriculaOK
    <2>4. GuardaMatriculaOK'
      BY <1>0, <1>2, <2>2 DEF IMatricula, GuardaMatriculaOK, Segura, MatriculaHipoteses
    <2>5. M!TypeOK'
      BY <1>0, <1>2, <2>2 DEF IMatricula, M!TypeOK, GuardaMatriculaOK, Segura, M!Total,
         MatriculaHipoteses
    <2>6. VistoMatriculaOK' /\ Unico'
      BY <1>0, <1>2, <1>3, <2>2 DEF IMatricula, VistoMatriculaOK, MatriculaHipoteses
    <2> QED
      BY <2>3, <2>4, <2>5, <2>6 DEF IMatricula
  <1> QED
    BY <1>1, <1>2 DEF M!Reserve

(* Who does not find the card in the read model may make the student.       *)
LEMMA VerificarInv ==
    ASSUME MatriculaHipoteses, IMatricula, NEW h \in Atendentes,
           M!GetByBilheteIdentidadePrincipal(h) PROVE IMatricula'
  <1>0. /\ UNCHANGED <<solicitacao, lida, estudantes, cobranca, descobertas>>
        /\ atendente[h].passo = "verificar" /\ atendente[h] # M!Parado
    BY DEF M!GetByBilheteIdentidadePrincipal, M!Parado
  <1>1. /\ guarda = h /\ Segura(h) /\ Cartao(atendente[h].s)
        /\ \A g \in Atendentes \ {h} : ~Segura(g)
    BY <1>0 DEF IMatricula, GuardaMatriculaOK, Segura
  <1>4. (Cheio' <=> Cheio) /\ (M!BilheteCadastrado' <=> M!BilheteCadastrado) /\ Unico'
    BY <1>0, MesmosAlunos DEF IMatricula
  <1>2. CASE ~M!BilheteCadastrado /\ M!Passa(h, "decidir") /\ UNCHANGED guarda
    <2>1. "decidir" \in PassosMatricula
      BY DEF PassosMatricula
    <2>2. /\ atendente' \in [Atendentes -> PedidosMatricula]
          /\ atendente'[h].passo = "decidir" /\ atendente'[h].op = atendente[h].op
          /\ atendente'[h].s = atendente[h].s
          /\ \A g \in Atendentes \ {h} : atendente'[g] = atendente[g]
      BY <1>2, <2>1, PassaFacts DEF IMatricula, DominiosMatricula
    <2>3. ~Cheio
      BY <1>0, <1>2 DEF IMatricula, VistoMatriculaOK
    <2>4. DominiosMatricula' /\ OpMatriculaOK'
      BY <1>0, <2>2 DEF IMatricula, DominiosMatricula, OpMatriculaOK
    <2>5. GuardaMatriculaOK'
      BY <1>0, <1>1, <1>2, <2>2 DEF IMatricula, GuardaMatriculaOK, Segura
    <2>6. M!TypeOK'
      BY <1>0, <1>1, <1>2, <2>2 DEF IMatricula, M!TypeOK, M!Total
    <2>7. VistoMatriculaOK' /\ Unico'
      BY <1>4, <2>3 DEF VistoMatriculaOK
    <2> QED
      BY <2>4, <2>5, <2>6, <2>7 DEF IMatricula
  <1>3. CASE M!BilheteCadastrado /\ M!Termina(h) /\ M!Solta
    <2>2. /\ atendente' \in [Atendentes -> PedidosMatricula]
          /\ atendente'[h] = M!Parado /\ M!Parado.passo = "parado"
          /\ \A g \in Atendentes \ {h} : atendente'[g] = atendente[g]
      BY <1>3, TerminaFacts DEF IMatricula, DominiosMatricula
    <2>4. DominiosMatricula' /\ OpMatriculaOK'
      BY <1>0, <2>2 DEF IMatricula, DominiosMatricula, OpMatriculaOK
    <2>5. GuardaMatriculaOK'
      BY <1>0, <1>1, <1>3, <2>2 DEF IMatricula, GuardaMatriculaOK, Segura, M!Solta,
         MatriculaHipoteses
    <2>6. M!TypeOK'
      BY <1>0, <1>1, <1>3, <2>2 DEF IMatricula, M!TypeOK, M!Total, M!Solta, MatriculaHipoteses
    <2>7. VistoMatriculaOK' /\ Unico'
      BY <1>1, <1>3, <1>4, <2>2 DEF IMatricula, VistoMatriculaOK, Segura
    <2> QED
      BY <2>4, <2>5, <2>6, <2>7 DEF IMatricula
  <1> QED
    BY <1>2, <1>3 DEF M!GetByBilheteIdentidadePrincipal

(* With a fee the reservation goes back, and there may be one student more.  *)
LEMMA MarcarInv ==
    ASSUME MatriculaHipoteses, IMatricula, NEW h \in Atendentes,
           M!MarcarPendentePagamento(h) PROVE IMatricula'
  <1> DEFINE s == atendente[h].s
  <1>0. /\ UNCHANGED <<lida, estudantes, cobranca, descobertas>>
        /\ atendente[h].passo = "decidir" /\ atendente[h].op = "aprovar" /\ atendente[h] # M!Parado
        /\ M!Regista(s, <<"Aprovada", "AprovadaPendentePagamento">>) /\ M!Termina(h)
        /\ IF s \in ComBI THEN M!Solta ELSE UNCHANGED guarda
    BY DEF M!MarcarPendentePagamento, M!Parado
  <1>1. s \in Candidaturas /\ s # M!Direto
    BY <1>0 DEF IMatricula, OpMatriculaOK, MatriculaHipoteses
  <1>2. /\ atendente' \in [Atendentes -> PedidosMatricula]
        /\ atendente'[h] = M!Parado /\ M!Parado.passo = "parado"
        /\ \A g \in Atendentes \ {h} : atendente'[g] = atendente[g]
    BY <1>0, TerminaFacts DEF IMatricula, DominiosMatricula
  <1>3. <<"Aprovada", "AprovadaPendentePagamento">> \in Seq(EventosMatricula)
    BY DEF EventosMatricula
  <1>4. /\ solicitacao' \in [Candidaturas -> Seq(EventosMatricula)]
        /\ \A t \in Candidaturas : lida[t] \in 0..Len(solicitacao'[t])
    BY <1>0, <1>1, <1>3, RegistaTipos
  <1>5. DominiosMatricula'
    BY <1>0, <1>2, <1>4 DEF IMatricula, DominiosMatricula
  <1>6. CASE s \in ComBI
    <2>1. guarda = h /\ ~Cheio /\ \A g \in Atendentes \ {h} : ~Segura(g)
      BY <1>0, <1>6 DEF IMatricula, GuardaMatriculaOK, VistoMatriculaOK, Segura, Cartao
    <2>2. OpMatriculaOK' /\ GuardaMatriculaOK'
      BY <1>0, <1>2, <1>6, <2>1 DEF IMatricula, OpMatriculaOK, GuardaMatriculaOK, Segura,
         M!Solta, MatriculaHipoteses
    <2>3. M!TypeOK'
      BY <1>0, <1>2, <1>4, <1>6, <2>1 DEF IMatricula, M!TypeOK, M!Total, M!Solta,
         MatriculaHipoteses
    <2>4. VistoMatriculaOK' /\ Unico'
      BY <1>0, <2>1, MesmosAlunos DEF IMatricula, VistoMatriculaOK
    <2> QED
      BY <1>5, <2>2, <2>3, <2>4 DEF IMatricula
  <1>7. CASE s \notin ComBI
    <2>1. guarda # h /\ guarda' = guarda
      BY <1>0, <1>1, <1>7 DEF IMatricula, GuardaMatriculaOK, Segura, Cartao
    <2>2. /\ OpMatriculaOK' /\ GuardaMatriculaOK' /\ VistoMatriculaOK' /\ Unico'
          /\ guarda' \in Atendentes \cup {"livre", "consumida", M!Orfa}
          /\ \A g \in Atendentes :
                guarda' = g => atendente'[g].passo \in {"verificar", "decidir", "consumir"}
      BY <1>0, <1>2, <2>1, SemGuardaInv
    <2>3. M!TypeOK'
      BY <1>0, <1>4, <2>2 DEF IMatricula, M!TypeOK, M!Total
    <2> QED
      BY <1>5, <2>2, <2>3 DEF IMatricula
  <1> QED
    BY <1>6, <1>7

(* A handler that gives the card back after it recorded the student, or that *)
(* fails to: the card is free with a student in sight, or counts once more.  *)
LEMMA DevolveInv ==
    ASSUME MatriculaHipoteses, IMatricula, NEW h \in Atendentes, guarda = h, M!Devolve(h),
           IsFiniteSet(Alunos'), Cardinality(Alunos') \in Nat,
           Cardinality(Alunos') <= 1 + descobertas
    PROVE  /\ OpMatriculaOK' /\ GuardaMatriculaOK' /\ VistoMatriculaOK' /\ Unico'
           /\ atendente' \in [Atendentes -> PedidosMatricula]
           /\ guarda' \in Atendentes \cup {"livre", "consumida", M!Orfa}
           /\ \A g \in Atendentes :
                 guarda' = g => atendente'[g].passo \in {"verificar", "decidir", "consumir"}
  <1>1. /\ M!Termina(h) /\ guarda' \in {"livre", M!Orfa}
        /\ descobertas' = descobertas + (IF guarda' = "livre" /\ ~M!BilheteCadastrado' THEN 1 ELSE 0)
    BY DEF M!Devolve
  <1>2. /\ atendente' \in [Atendentes -> PedidosMatricula]
        /\ atendente'[h] = M!Parado /\ M!Parado.passo = "parado"
        /\ \A g \in Atendentes \ {h} : atendente'[g] = atendente[g]
    BY <1>1, TerminaFacts DEF IMatricula, DominiosMatricula
  <1>3. \A g \in Atendentes \ {h} : ~Segura(g)
    BY DEF IMatricula, GuardaMatriculaOK
  <1>4. \A g \in Atendentes : guarda' # g
    BY <1>1 DEF MatriculaHipoteses
  <1>5. OpMatriculaOK' /\ GuardaMatriculaOK'
    BY <1>2, <1>3, <1>4 DEF IMatricula, OpMatriculaOK, GuardaMatriculaOK, Segura
  <1>6. /\ descobertas \in Nat /\ descobertas' \in Nat /\ descobertas' >= descobertas
        /\ guarda' = "livre" /\ ~M!BilheteCadastrado' => descobertas' = descobertas + 1
    <2>1. descobertas \in Nat
      BY DEF IMatricula, Unico
    <2>2. CASE guarda' = "livre" /\ ~M!BilheteCadastrado'
      BY <1>1, <2>1, <2>2
    <2>3. CASE ~(guarda' = "livre" /\ ~M!BilheteCadastrado')
      BY <1>1, <2>1, <2>3
    <2> QED
      BY <2>2, <2>3
  <1>7. /\ Cardinality(Alunos') <= 1 + descobertas'
        /\ guarda' = "livre" /\ ~M!BilheteCadastrado' =>
              Cardinality(Alunos') # 1 + descobertas'
    BY <1>6
  <1>8. Unico' /\ (guarda' = "livre" /\ ~M!BilheteCadastrado' => ~Cheio')
    BY <1>6, <1>7 DEF Unico, Cheio
  <1>9. VistoMatriculaOK'
    <2>1. \A g \in Atendentes : /\ atendente'[g].passo # "verificar"
                               /\ ~(atendente'[g].passo = "decidir" /\ Cartao(atendente'[g].s))
      BY <1>2, <1>3 DEF Segura
    <2> QED
      BY <1>8, <2>1 DEF VistoMatriculaOK
  <1> QED
    BY <1>1, <1>2, <1>4, <1>5, <1>8, <1>9

(* A student of the card is created while there may be one more, and is out *)
(* of sight while the guard is taken.                                       *)
LEMMA MatriculaCriarInv ==
    ASSUME MatriculaHipoteses, IMatricula, NEW h \in Atendentes,
           M!CriarComVinculo(h) PROVE IMatricula'
  <1> DEFINE s == atendente[h].s
             e == [de |-> s, visivel |-> FALSE]
             passo == IF guarda = h THEN "consumir" ELSE "gravar"
             T == [de : Candidaturas \cup {M!Direto}, visivel : BOOLEAN]
  <1>0. /\ UNCHANGED <<solicitacao, lida, cobranca>>
        /\ atendente[h].passo = "decidir" /\ atendente[h] # M!Parado
        /\ estudantes' = Append(estudantes, e)
    BY DEF M!CriarComVinculo, M!Parado
  <1>1. s \in Candidaturas \cup {M!Direto} /\ passo \in PassosMatricula /\ Unico
    BY <1>0 DEF IMatricula, OpMatriculaOK, PassosMatricula
  <1>2. guarda = h <=> Cartao(s)
    BY <1>0 DEF IMatricula, GuardaMatriculaOK, Segura
  <1>3. /\ estudantes \in Seq(T) /\ e \in T /\ estudantes' \in Seq(T)
        /\ \A i \in DOMAIN estudantes' : estudantes'[i].de \in Candidaturas \cup {M!Direto}
    <2>1. estudantes \in Seq(T) /\ e \in T
      BY <1>1 DEF IMatricula, DominiosMatricula
    <2>2. estudantes' \in Seq(T)
      <3> HIDE DEF T, e
      <3> QED
        BY <1>0, <2>1
    <2>3. \A i \in DOMAIN estudantes' : estudantes'[i] \in T
      <3> HIDE DEF T, e
      <3> QED
        BY <2>2
    <2> QED
      BY <2>1, <2>2, <2>3
  <1>4. M!TemCartao(e) <=> Cartao(s)
    BY DEF M!TemCartao, Cartao
  <1>5. /\ IsFiniteSet(Alunos') /\ Cardinality(Alunos') \in Nat
        /\ Cardinality(Alunos') = Cardinality(Alunos) + (IF Cartao(s) THEN 1 ELSE 0)
        /\ M!BilheteCadastrado => M!BilheteCadastrado'
    <2> HIDE DEF T, e
    <2> QED
      BY <1>0, <1>1, <1>3, <1>4, MaisUmAluno
  <1>6. Cardinality(Alunos') <= 1 + descobertas
    <2>1. Cartao(s) => ~Cheio
      BY <1>0 DEF IMatricula, VistoMatriculaOK
    <2> QED
      BY <1>1, <1>5, <2>1 DEF Unico, Cheio
  <1>7. CASE guarda = h /\ M!Devolve(h)
    <2>1. /\ OpMatriculaOK' /\ GuardaMatriculaOK' /\ VistoMatriculaOK' /\ Unico'
          /\ atendente' \in [Atendentes -> PedidosMatricula]
          /\ guarda' \in Atendentes \cup {"livre", "consumida", M!Orfa}
          /\ \A g \in Atendentes :
                guarda' = g => atendente'[g].passo \in {"verificar", "decidir", "consumir"}
      BY <1>5, <1>6, <1>7, DevolveInv
    <2>2. DominiosMatricula' /\ M!TypeOK'
      BY <1>0, <1>3, <2>1 DEF IMatricula, DominiosMatricula, M!TypeOK, M!Total
    <2> QED
      BY <2>1, <2>2 DEF IMatricula
  <1>8. CASE UNCHANGED <<guarda, descobertas>> /\ M!Passa(h, passo)
    <2>1. /\ atendente' \in [Atendentes -> PedidosMatricula]
          /\ atendente'[h].passo = passo /\ atendente'[h].op = atendente[h].op
          /\ atendente'[h].s = s
          /\ \A g \in Atendentes \ {h} : atendente'[g] = atendente[g]
      BY <1>1, <1>8, PassaFacts DEF IMatricula, DominiosMatricula
    <2>2. OpMatriculaOK'
      <3>1. passo \in {"consumir", "gravar"} /\ (s = M!Direto => passo = "consumir")
        BY <1>2 DEF Cartao
      <3> QED
        BY <1>0, <2>1, <3>1 DEF IMatricula, OpMatriculaOK
    <2>3. GuardaMatriculaOK'
      BY <1>0, <1>2, <1>8, <2>1 DEF IMatricula, GuardaMatriculaOK, Segura
    <2>4. DominiosMatricula' /\ M!TypeOK'
      BY <1>0, <1>3, <1>8, <2>1, <2>3 DEF IMatricula, DominiosMatricula, M!TypeOK, M!Total,
         GuardaMatriculaOK, Segura
    <2>5. Unico'
      BY <1>1, <1>5, <1>6, <1>8 DEF Unico
    <2>6. CASE Cartao(s)
      <3>1. \A g \in Atendentes \ {h} : ~Segura(g)
        BY <1>2, <2>6 DEF IMatricula, GuardaMatriculaOK
      <3>2. guarda' # "livre" /\ passo = "consumir"
        BY <1>2, <1>8, <2>6 DEF MatriculaHipoteses
      <3>3. VistoMatriculaOK'
        BY <2>1, <3>1, <3>2 DEF VistoMatriculaOK, Segura
      <3> QED
        BY <2>2, <2>3, <2>4, <2>5, <3>3 DEF IMatricula
    <2>7. CASE ~Cartao(s)
      <3>1. passo = "gravar" /\ (Cheio' <=> Cheio)
        BY <1>1, <1>2, <1>5, <1>8, <2>7 DEF Cheio, Unico
      <3>2. VistoMatriculaOK'
        BY <1>5, <1>8, <2>1, <3>1 DEF IMatricula, VistoMatriculaOK
      <3> QED
        BY <2>2, <2>3, <2>4, <2>5, <3>2 DEF IMatricula
    <2> QED
      BY <2>6, <2>7
  <1>9. CASE guarda # h /\ M!Termina(h) /\ UNCHANGED <<guarda, descobertas>>
    <2>1. /\ atendente' \in [Atendentes -> PedidosMatricula]
          /\ atendente'[h] = M!Parado /\ M!Parado.passo = "parado"
          /\ \A g \in Atendentes \ {h} : atendente'[g] = atendente[g]
      BY <1>9, TerminaFacts DEF IMatricula, DominiosMatricula
    <2>2. OpMatriculaOK' /\ GuardaMatriculaOK'
      BY <1>9, <2>1 DEF IMatricula, OpMatriculaOK, GuardaMatriculaOK, Segura
    <2>3. DominiosMatricula' /\ M!TypeOK'
      BY <1>0, <1>3, <1>9, <2>1, <2>2 DEF IMatricula, DominiosMatricula, M!TypeOK, M!Total,
         GuardaMatriculaOK, Segura
    <2>4. Unico' /\ (Cheio' <=> Cheio)
      BY <1>1, <1>2, <1>5, <1>6, <1>9 DEF Unico, Cheio
    <2>5. VistoMatriculaOK'
      BY <1>5, <1>9, <2>1, <2>4 DEF IMatricula, VistoMatriculaOK
    <2> QED
      BY <2>2, <2>3, <2>4, <2>5 DEF IMatricula
  <1> QED
    BY <1>7, <1>8, <1>9 DEF M!CriarComVinculo

(* A card that was consumed is never free again; one that could not be is   *)
(* given back.                                                              *)
LEMMA ConsumirInv ==
    ASSUME MatriculaHipoteses, IMatricula, NEW h \in Atendentes, M!Consume(h)
    PROVE  IMatricula'
  <1>0. /\ UNCHANGED <<solicitacao, lida, estudantes, cobranca>>
        /\ atendente[h].passo = "consumir" /\ atendente[h] # M!Parado
    BY DEF M!Consume, M!Parado
  <1>1. guarda = h /\ \A g \in Atendentes \ {h} : ~Segura(g)
    BY <1>0 DEF IMatricula, GuardaMatriculaOK, Segura
  <1>2. /\ IsFiniteSet(Alunos') /\ Cardinality(Alunos') \in Nat
        /\ Cardinality(Alunos') <= 1 + descobertas
    <2>1. Alunos' = Alunos
      BY <1>0 DEF Alunos, M!TemCartao
    <2> QED
      BY <2>1 DEF IMatricula, Unico
  <1>3. CASE M!Devolve(h)
    <2>1. /\ OpMatriculaOK' /\ GuardaMatriculaOK' /\ VistoMatriculaOK' /\ Unico'
          /\ atendente' \in [Atendentes -> PedidosMatricula]
          /\ guarda' \in Atendentes \cup {"livre", "consumida", M!Orfa}
          /\ \A g \in Atendentes :
                guarda' = g => atendente'[g].passo \in {"verificar", "decidir", "consumir"}
      BY <1>1, <1>2, <1>3, DevolveInv
    <2>2. DominiosMatricula' /\ M!TypeOK'
      BY <1>0, <2>1 DEF IMatricula, DominiosMatricula, M!TypeOK, M!Total
    <2> QED
      BY <2>1, <2>2 DEF IMatricula
  <1>4. CASE /\ guarda' = "consumida" /\ UNCHANGED descobertas
             /\ \/ M!Termina(h)
                \/ atendente[h].op # "registar" /\ M!Passa(h, "gravar")
    <2>1. /\ atendente' \in [Atendentes -> PedidosMatricula]
          /\ atendente'[h] # M!Parado =>
                /\ atendente'[h].op = atendente[h].op /\ atendente'[h].s = atendente[h].s
                /\ atendente[h].op # "registar"
          /\ atendente'[h].passo \in {"parado", "gravar"}
          /\ \A g \in Atendentes \ {h} : atendente'[g] = atendente[g]
      <3>1. CASE M!Termina(h)
        BY <3>1, TerminaFacts DEF IMatricula, DominiosMatricula
      <3>2. CASE atendente[h].op # "registar" /\ M!Passa(h, "gravar")
        <4>1. "gravar" \in PassosMatricula
          BY DEF PassosMatricula
        <4> QED
          BY <3>2, <4>1, PassaFacts DEF IMatricula, DominiosMatricula
      <3> QED
        BY <1>4, <3>1, <3>2
    <2>2. DominiosMatricula'
      BY <1>0, <2>1 DEF IMatricula, DominiosMatricula
    <2>3. OpMatriculaOK'
      BY <1>0, <2>1 DEF IMatricula, OpMatriculaOK
    <2>4. GuardaMatriculaOK'
      BY <1>1, <1>4, <2>1 DEF IMatricula, GuardaMatriculaOK, Segura, MatriculaHipoteses
    <2>5. M!TypeOK'
      BY <1>0, <1>1, <1>4, <2>1 DEF IMatricula, M!TypeOK, M!Total, MatriculaHipoteses
    <2>6. VistoMatriculaOK' /\ Unico'
      BY <1>0, <1>1, <1>4, <2>1, MesmosAlunos DEF IMatricula, VistoMatriculaOK, Segura
    <2> QED
      BY <2>2, <2>3, <2>4, <2>5, <2>6 DEF IMatricula
  <1> QED
    BY <1>3, <1>4 DEF M!Consume

(* A handler that gives the card back before it made the student.           *)
LEMMA MatriculaReleaseInv ==
    ASSUME MatriculaHipoteses, IMatricula, NEW h \in Atendentes, M!Release(h)
    PROVE  IMatricula'
  <1>0. /\ UNCHANGED <<solicitacao, lida, estudantes, cobranca, descobertas>>
        /\ atendente[h].passo \in {"verificar", "decidir"} /\ guarda = h /\ guarda' = "livre"
        /\ M!Termina(h)
    BY DEF M!Release, M!Solta
  <1>1. Segura(h) /\ \A g \in Atendentes \ {h} : ~Segura(g)
    BY <1>0 DEF IMatricula, GuardaMatriculaOK
  <1>2. /\ atendente' \in [Atendentes -> PedidosMatricula]
        /\ atendente'[h] = M!Parado /\ M!Parado.passo = "parado"
        /\ \A g \in Atendentes \ {h} : atendente'[g] = atendente[g]
    BY <1>0, TerminaFacts DEF IMatricula, DominiosMatricula
  <1>3. DominiosMatricula' /\ OpMatriculaOK'
    BY <1>0, <1>2 DEF IMatricula, DominiosMatricula, OpMatriculaOK
  <1>4. GuardaMatriculaOK'
    BY <1>0, <1>1, <1>2 DEF IMatricula, GuardaMatriculaOK, Segura, MatriculaHipoteses
  <1>5. M!TypeOK'
    BY <1>0, <1>2 DEF IMatricula, M!TypeOK, M!Total, MatriculaHipoteses
  <1>6. (Cheio' <=> Cheio) /\ (M!BilheteCadastrado' <=> M!BilheteCadastrado) /\ Unico'
    BY <1>0, MesmosAlunos DEF IMatricula
  <1>7. Cheio => M!BilheteCadastrado
    BY <1>0, <1>1 DEF IMatricula, VistoMatriculaOK, Segura
  <1>8. VistoMatriculaOK'
    BY <1>1, <1>2, <1>6, <1>7 DEF VistoMatriculaOK, Segura
  <1> QED
    BY <1>3, <1>4, <1>5, <1>6, <1>8 DEF IMatricula

-----------------------------------------------------------------------------
(* The steps after the guard: the request gets its event.                   *)
LEMMA MatriculaGravarInv ==
    ASSUME MatriculaHipoteses, IMatricula, NEW h \in Atendentes, NEW t \in Candidaturas,
           NEW eventos \in Seq(EventosMatricula),
           ~Segura(h), atendente' \in [Atendentes -> PedidosMatricula],
           \A g \in Atendentes \ {h} : atendente'[g] = atendente[g],
           atendente'[h] # M!Parado =>
               /\ atendente'[h].op # "registar" /\ atendente'[h].s \in Candidaturas
               /\ atendente'[h].passo \notin {"verificar", "consumir", "decidir", "reservar"},
           M!Regista(t, eventos) \/ solicitacao' = solicitacao,
           UNCHANGED <<lida, estudantes, guarda, cobranca, descobertas>>
    PROVE  IMatricula'
  <1>1. /\ solicitacao' \in [Candidaturas -> Seq(EventosMatricula)]
        /\ \A u \in Candidaturas : lida[u] \in 0..Len(solicitacao'[u])
    BY RegistaTipos DEF IMatricula, DominiosMatricula, M!TypeOK
  <1>2. DominiosMatricula'
    BY <1>1 DEF IMatricula, DominiosMatricula
  <1>3. guarda # h
    BY DEF IMatricula, GuardaMatriculaOK
  <1>4. M!Parado.passo = "parado"
    BY DEF M!Parado
  <1>5. /\ OpMatriculaOK' /\ GuardaMatriculaOK' /\ VistoMatriculaOK' /\ Unico'
        /\ guarda' \in Atendentes \cup {"livre", "consumida", M!Orfa}
        /\ \A g \in Atendentes :
              guarda' = g => atendente'[g].passo \in {"verificar", "decidir", "consumir"}
    BY <1>3, <1>4, SemGuardaInv
  <1>6. M!TypeOK'
    BY <1>1, <1>5 DEF IMatricula, M!TypeOK, M!Total
  <1> QED
    BY <1>2, <1>5, <1>6 DEF IMatricula

(* The request is marked when its student exists.                           *)
LEMMA VincularInv ==
    ASSUME MatriculaHipoteses, IMatricula, NEW h \in Atendentes,
           M!VincularAposPagamento(h) PROVE IMatricula'
  <1>1. /\ atendente[h].passo = "gravar" /\ atendente[h].op = "efetivar"
        /\ M!Regista(atendente[h].s, <<"Vinculada">>) /\ M!Termina(h)
        /\ UNCHANGED <<lida, estudantes, guarda, cobranca, descobertas>>
    BY DEF M!VincularAposPagamento
  <1>2. atendente[h].s \in Candidaturas /\ ~Segura(h)
    BY <1>1 DEF IMatricula, OpMatriculaOK, M!Parado, Segura
  <1>3. <<"Vinculada">> \in Seq(EventosMatricula)
    BY DEF EventosMatricula
  <1> QED
    BY <1>1, <1>2, <1>3, TerminaFacts, MatriculaGravarInv DEF IMatricula, DominiosMatricula

(* An approval makes no student.                                            *)
LEMMA AprovarInv ==
    ASSUME MatriculaHipoteses, IMatricula, NEW h \in Atendentes, M!Aprovar(h)
    PROVE  IMatricula'
  <1> DEFINE s == atendente[h].s
             resto == [atendente[h] EXCEPT !.passo = "cancelar", !.alvos = M!Concorrentes(s)]
  <1>1. /\ atendente[h].passo = "gravar" /\ atendente[h].op = "aprovar"
        /\ M!Regista(s, <<"Aprovada">>)
        /\ atendente' = [atendente EXCEPT ![h] = IF M!Concorrentes(s) = {} THEN M!Parado ELSE resto]
        /\ UNCHANGED <<lida, estudantes, guarda, cobranca, descobertas>>
    BY DEF M!Aprovar
  <1>2. s \in Candidaturas /\ ~Segura(h)
    BY <1>1 DEF IMatricula, OpMatriculaOK, M!Parado, Segura
  <1>3. <<"Aprovada">> \in Seq(EventosMatricula)
    BY DEF EventosMatricula
  <1>4. M!Parado \in PedidosMatricula /\ M!Concorrentes(s) \in SUBSET ComBI
    BY DEF M!Parado, PedidosMatricula, PassosMatricula, OpsMatricula, M!Concorrentes
  <1>5. /\ resto \in PedidosMatricula /\ resto.passo = "cancelar"
        /\ resto.op = atendente[h].op /\ resto.s = s
    BY <1>4 DEF IMatricula, DominiosMatricula, PedidosMatricula, PassosMatricula
  <1>6. /\ atendente' \in [Atendentes -> PedidosMatricula]
        /\ \A g \in Atendentes \ {h} : atendente'[g] = atendente[g]
        /\ atendente'[h] = M!Parado \/ atendente'[h] = resto
    BY <1>1, <1>4, <1>5 DEF IMatricula, DominiosMatricula
  <1>7. atendente'[h] # M!Parado =>
               /\ atendente'[h].op # "registar" /\ atendente'[h].s \in Candidaturas
               /\ atendente'[h].passo \notin {"verificar", "consumir", "decidir", "reservar"}
    BY <1>1, <1>2, <1>5, <1>6
  <1> QED
    BY <1>1, <1>2, <1>3, <1>6, <1>7, MatriculaGravarInv

(* The requests of the same card that waited are cancelled.                 *)
LEMMA ConcorrentesInv ==
    ASSUME MatriculaHipoteses, IMatricula, NEW h \in Atendentes,
           M!cancelarSolicitacoesConcorrentes(h) PROVE IMatricula'
  <1> DEFINE menos(t) == [atendente[h] EXCEPT !.alvos = atendente[h].alvos \ {t}]
  <1>1. PICK t \in atendente[h].alvos :
          /\ IF M!Status(t) = "pendente" THEN M!Regista(t, <<"CanceladaPorOutra">>)
                                       ELSE UNCHANGED solicitacao
          /\ atendente' = [atendente EXCEPT ![h] =
                 IF atendente[h].alvos = {t} THEN M!Parado ELSE menos(t)]
    BY DEF M!cancelarSolicitacoesConcorrentes
  <1> DEFINE resto == menos(t)
  <1>2. atendente[h].passo = "cancelar" /\ UNCHANGED <<lida, estudantes, guarda, cobranca, descobertas>>
    BY DEF M!cancelarSolicitacoesConcorrentes
  <1>3. t \in Candidaturas /\ ~Segura(h)
        /\ atendente[h].op # "registar" /\ atendente[h].s \in Candidaturas
    <2>1. t \in Candidaturas
      BY DEF IMatricula, DominiosMatricula, PedidosMatricula, MatriculaHipoteses
    <2>2. atendente[h] # M!Parado
      BY <1>2 DEF M!Parado
    <2> QED
      BY <1>2, <2>1, <2>2 DEF IMatricula, OpMatriculaOK, Segura
  <1>4. <<"CanceladaPorOutra">> \in Seq(EventosMatricula) /\ M!Parado \in PedidosMatricula
    BY DEF EventosMatricula, M!Parado, PedidosMatricula, PassosMatricula, OpsMatricula
  <1>5. /\ resto \in PedidosMatricula /\ resto.passo = "cancelar"
        /\ resto.op = atendente[h].op /\ resto.s = atendente[h].s
    BY <1>2 DEF IMatricula, DominiosMatricula, PedidosMatricula, PassosMatricula
  <1>6. /\ atendente' \in [Atendentes -> PedidosMatricula]
        /\ \A g \in Atendentes \ {h} : atendente'[g] = atendente[g]
        /\ atendente'[h] = M!Parado \/ atendente'[h] = resto
    BY <1>1, <1>4, <1>5 DEF IMatricula, DominiosMatricula
  <1>7. atendente'[h] # M!Parado =>
               /\ atendente'[h].op # "registar" /\ atendente'[h].s \in Candidaturas
               /\ atendente'[h].passo \notin {"verificar", "consumir", "decidir", "reservar"}
    BY <1>3, <1>5, <1>6
  <1> QED
    BY <1>1, <1>2, <1>3, <1>4, <1>6, <1>7, MatriculaGravarInv

(* A cancelled request has made no student.                                 *)
LEMMA CancelarInv ==
    ASSUME MatriculaHipoteses, IMatricula, NEW h \in Atendentes,
           M!CancelarPendentePagamentoMatricula(h) PROVE IMatricula'
  <1>1. /\ atendente[h].passo = "gravarCancelamento"
        /\ M!Regista(atendente[h].s, <<"Cancelada">>) /\ M!Termina(h)
        /\ UNCHANGED <<lida, estudantes, guarda, cobranca, descobertas>>
    BY DEF M!CancelarPendentePagamentoMatricula
  <1>2. atendente[h].s \in Candidaturas /\ ~Segura(h)
    BY <1>1 DEF IMatricula, OpMatriculaOK, M!Parado, Segura
  <1>3. <<"Cancelada">> \in Seq(EventosMatricula)
    BY DEF EventosMatricula
  <1> QED
    BY <1>1, <1>2, <1>3, TerminaFacts, MatriculaGravarInv DEF IMatricula, DominiosMatricula

-----------------------------------------------------------------------------
(* A charge opens, is paid or is cancelled, and the request's total says so. *)
LEMMA CobrancaFacts ==
    ASSUME NEW c \in CobrancasMatricula
    PROVE  /\ M!Total(c) \in Nat
           /\ LET d == [c EXCEPT !.abertas = @ + 1]
              IN  d \in CobrancasMatricula /\ M!Total(d) = M!Total(c) + 1
           /\ LET d == [c EXCEPT !.pagas = @ + 1]
              IN  d \in CobrancasMatricula /\ M!Total(d) = M!Total(c) + 1
           /\ LET d == [c EXCEPT !.abertas = 0, !.canceladas = @ + c.abertas]
              IN  d \in CobrancasMatricula /\ M!Total(d) = M!Total(c)
           /\ LET d == [c EXCEPT !.abertas = @ - 1, !.pagas = @ + 1]
              IN  c.abertas > 0 => d \in CobrancasMatricula /\ M!Total(d) = M!Total(c)
  <1> DEFINE aberta == [c EXCEPT !.abertas = @ + 1]
             nova == [c EXCEPT !.pagas = @ + 1]
             cancelada == [c EXCEPT !.abertas = 0, !.canceladas = @ + c.abertas]
             paga == [c EXCEPT !.abertas = @ - 1, !.pagas = @ + 1]
  <1>1. /\ c.abertas \in Nat /\ c.pagas \in Nat /\ c.canceladas \in Nat
        /\ c.canceladas + c.abertas \in Nat
        /\ c.abertas > 0 => c.abertas - 1 \in Nat
    BY DEF CobrancasMatricula
  <1>2. aberta \in CobrancasMatricula /\ M!Total(aberta) = M!Total(c) + 1
    BY <1>1 DEF CobrancasMatricula, M!Total
  <1>3. nova \in CobrancasMatricula /\ M!Total(nova) = M!Total(c) + 1
    BY <1>1 DEF CobrancasMatricula, M!Total
  <1>4. cancelada \in CobrancasMatricula /\ M!Total(cancelada) = M!Total(c)
    <2>1. cancelada \in CobrancasMatricula
      BY <1>1 DEF CobrancasMatricula
    <2>2. /\ cancelada.abertas = 0 /\ cancelada.pagas = c.pagas
          /\ cancelada.canceladas = c.canceladas + c.abertas
      BY DEF CobrancasMatricula
    <2> QED
      BY <1>1, <2>1, <2>2 DEF M!Total
  <1>5. c.abertas > 0 => paga \in CobrancasMatricula /\ M!Total(paga) = M!Total(c)
    <2>1. c.pagas + 1 \in Nat
      BY <1>1
    <2>3. ASSUME c.abertas - 1 \in Nat PROVE paga \in CobrancasMatricula
      BY <2>1, <2>3 DEF CobrancasMatricula
    <2>2. /\ paga.abertas = c.abertas - 1 /\ paga.pagas = c.pagas + 1
          /\ paga.canceladas = c.canceladas
      BY DEF CobrancasMatricula
    <2> QED
      BY <1>1, <2>2, <2>3 DEF M!Total
  <1> QED
    BY <1>1, <1>2, <1>3, <1>4, <1>5 DEF M!Total

(* The charges of a request change among themselves.                        *)
LEMMA MatriculaCobrancaInv ==
    ASSUME MatriculaHipoteses, IMatricula, NEW h \in Atendentes,
           NEW c \in CobrancasMatricula, NEW t \in Candidaturas,
           ~Segura(h), atendente' \in [Atendentes -> PedidosMatricula],
           \A g \in Atendentes \ {h} : atendente'[g] = atendente[g],
           atendente'[h] # M!Parado => atendente'[h].op # "registar",
           atendente'[h] # M!Parado => atendente'[h].s \in Candidaturas,
           atendente'[h].passo \notin {"verificar", "consumir"},
           atendente'[h].passo = "decidir" => ~Cartao(atendente'[h].s),
           atendente'[h].passo = "reservar" => Cartao(atendente'[h].s),
           cobranca' = [cobranca EXCEPT ![t] = c], M!Total(c) <= MaxCobrancas,
           UNCHANGED <<solicitacao, lida, estudantes, guarda, descobertas>>
    PROVE  IMatricula'
  <1>1. M!Total(c) \in 0..MaxCobrancas
    BY DEF CobrancasMatricula, M!Total, MatriculaHipoteses
  <1>2. DominiosMatricula'
    BY DEF IMatricula, DominiosMatricula
  <1>3. guarda # h
    BY DEF IMatricula, GuardaMatriculaOK
  <1>5. /\ OpMatriculaOK' /\ GuardaMatriculaOK' /\ VistoMatriculaOK' /\ Unico'
        /\ guarda' \in Atendentes \cup {"livre", "consumida", M!Orfa}
        /\ \A g \in Atendentes :
              guarda' = g => atendente'[g].passo \in {"verificar", "decidir", "consumir"}
    BY <1>3, SemGuardaInv
  <1>6. M!TypeOK'
    BY <1>1, <1>5 DEF IMatricula, DominiosMatricula, M!TypeOK
  <1> QED
    BY <1>2, <1>5, <1>6 DEF IMatricula

(* A charge is generated, and may be paid at once.                          *)
LEMMA GerarInv ==
    ASSUME MatriculaHipoteses, IMatricula, NEW h \in Atendentes, M!gerarCobranca(h)
    PROVE  IMatricula'
  <1> DEFINE s == atendente[h].s
             c == cobranca[s]
             aberta == [c EXCEPT !.abertas = @ + 1]
             paga == [c EXCEPT !.pagas = @ + 1]
             novo == [atendente[h] EXCEPT !.op = "efetivar", !.passo = M!Reserva(s)]
  <1>1. /\ atendente[h].passo = "gerar" /\ M!Total(c) < MaxCobrancas
        /\ UNCHANGED <<solicitacao, lida, estudantes, guarda, descobertas>>
    BY DEF M!gerarCobranca
  <1>2. s \in Candidaturas /\ ~Segura(h)
    BY <1>1 DEF IMatricula, OpMatriculaOK, M!Parado, Segura
  <1>3. c \in CobrancasMatricula
    BY <1>2 DEF IMatricula, DominiosMatricula
  <1>4. aberta \in CobrancasMatricula /\ M!Total(aberta) = M!Total(c) + 1
    BY <1>3, CobrancaFacts
  <1>5. paga \in CobrancasMatricula /\ M!Total(paga) = M!Total(c) + 1
    BY <1>3, CobrancaFacts
  <1>6. M!Total(c) \in Nat /\ M!Total(c) + 1 <= MaxCobrancas
    BY <1>1, <1>3 DEF M!Total, CobrancasMatricula, MatriculaHipoteses
  <1>7. CASE cobranca' = [cobranca EXCEPT ![s].abertas = @ + 1] /\ M!Termina(h)
    <2>1. cobranca' = [cobranca EXCEPT ![s] = aberta]
      BY <1>7
    <2>2. /\ atendente' \in [Atendentes -> PedidosMatricula]
          /\ atendente'[h] = M!Parado /\ M!Parado.passo = "parado"
          /\ \A g \in Atendentes \ {h} : atendente'[g] = atendente[g]
      BY <1>7, TerminaFacts DEF IMatricula, DominiosMatricula
    <2> QED
      BY <1>1, <1>2, <1>4, <1>6, <2>1, <2>2, MatriculaCobrancaInv
  <1>8. CASE /\ cobranca' = [cobranca EXCEPT ![s].pagas = @ + 1]
             /\ atendente' = [atendente EXCEPT ![h] =
                   IF M!Status(s) = "aprovada_pendente_pagamento" THEN novo ELSE M!Parado]
    <2>1. cobranca' = [cobranca EXCEPT ![s] = paga]
      BY <1>8
    <2>2. /\ M!Reserva(s) \in {"reservar", "decidir"}
          /\ M!Reserva(s) = "decidir" => ~Cartao(s)
          /\ M!Reserva(s) = "reservar" => Cartao(s)
      BY DEF M!Reserva, Cartao
    <2>3. /\ novo \in PedidosMatricula /\ novo.passo = M!Reserva(s) /\ novo.op = "efetivar" /\ novo.s = s
          /\ M!Parado \in PedidosMatricula /\ M!Parado.passo = "parado"
      BY <2>2 DEF IMatricula, DominiosMatricula, PedidosMatricula, PassosMatricula,
         OpsMatricula, M!Parado
    <2>4. /\ atendente' \in [Atendentes -> PedidosMatricula]
          /\ \A g \in Atendentes \ {h} : atendente'[g] = atendente[g]
          /\ atendente'[h] = M!Parado \/ atendente'[h] = novo
      BY <1>8, <2>3 DEF IMatricula, DominiosMatricula
    <2>5. /\ atendente'[h] # M!Parado => atendente'[h].op # "registar"
          /\ atendente'[h] # M!Parado => atendente'[h].s \in Candidaturas
          /\ atendente'[h].passo \notin {"verificar", "consumir"}
          /\ atendente'[h].passo = "decidir" => ~Cartao(atendente'[h].s)
          /\ atendente'[h].passo = "reservar" => Cartao(atendente'[h].s)
      BY <1>2, <2>2, <2>3, <2>4
    <2> QED
      BY <1>1, <1>2, <1>5, <1>6, <2>1, <2>4, <2>5, MatriculaCobrancaInv
  <1> QED
    BY <1>7, <1>8 DEF M!gerarCobranca

(* A charge is cancelled, or has been paid.                                 *)
LEMMA CancelarCobrancaInv ==
    ASSUME MatriculaHipoteses, IMatricula, NEW h \in Atendentes,
           M!CancelarCobrancaMatriculaAberta(h) PROVE IMatricula'
  <1> DEFINE s == atendente[h].s
             c == cobranca[s]
             cancelada == [c EXCEPT !.abertas = 0, !.canceladas = @ + c.abertas]
             paga == [c EXCEPT !.abertas = @ - 1, !.pagas = @ + 1]
  <1>1. /\ atendente[h].passo = "cancelarCobrancas"
        /\ UNCHANGED <<solicitacao, lida, estudantes, guarda, descobertas>>
    BY DEF M!CancelarCobrancaMatriculaAberta
  <1>2. atendente[h] # M!Parado
    BY <1>1 DEF M!Parado
  <1>3. /\ s \in Candidaturas /\ ~Segura(h) /\ atendente[h].op # "registar"
        /\ "gravarCancelamento" \in PassosMatricula
    BY <1>1, <1>2 DEF IMatricula, OpMatriculaOK, Segura, PassosMatricula
  <1>4. c \in CobrancasMatricula /\ M!Total(c) <= MaxCobrancas
    BY <1>3 DEF IMatricula, DominiosMatricula, M!TypeOK
  <1>5. CASE /\ cobranca' = [cobranca EXCEPT ![s].abertas = 0,
                                            ![s].canceladas = @ + cobranca[s].abertas]
             /\ IF atendente[h].op = "cancelar" THEN M!Passa(h, "gravarCancelamento") ELSE M!Termina(h)
    <2>1. cobranca' = [cobranca EXCEPT ![s] = cancelada]
      BY <1>5
    <2>2. cancelada \in CobrancasMatricula /\ M!Total(cancelada) = M!Total(c)
      BY <1>4, CobrancaFacts
    <2>3. CASE M!Passa(h, "gravarCancelamento")
      BY <1>1, <1>3, <1>4, <2>1, <2>2, <2>3, PassaFacts, MatriculaCobrancaInv DEF IMatricula,
         DominiosMatricula
    <2>4. CASE M!Termina(h)
      BY <1>1, <1>3, <1>4, <2>1, <2>2, <2>4, TerminaFacts,
         MatriculaCobrancaInv DEF IMatricula, DominiosMatricula
    <2> QED
      BY <1>5, <2>3, <2>4
  <1>6. CASE /\ cobranca[s].abertas > 0 /\ M!Termina(h)
             /\ cobranca' = [cobranca EXCEPT ![s].abertas = @ - 1, ![s].pagas = @ + 1]
    <2>1. cobranca' = [cobranca EXCEPT ![s] = paga]
      BY <1>6
    <2>2. paga \in CobrancasMatricula /\ M!Total(paga) = M!Total(c)
      BY <1>4, <1>6, CobrancaFacts
    <2> QED
      BY <1>1, <1>3, <1>4, <1>6, <2>1, <2>2, TerminaFacts,
         MatriculaCobrancaInv DEF IMatricula, DominiosMatricula
  <1> QED
    BY <1>5, <1>6 DEF M!CancelarCobrancaMatriculaAberta

-----------------------------------------------------------------------------
(* A handler that stops with the guard leaves it taken.                     *)
LEMMA MatriculaInterrompeInv ==
    ASSUME MatriculaHipoteses, IMatricula, NEW h \in Atendentes, M!Interrompe(h)
    PROVE  IMatricula'
  <1>1. /\ M!Termina(h) /\ guarda' = IF guarda = h THEN M!Orfa ELSE guarda
        /\ UNCHANGED <<solicitacao, lida, estudantes, cobranca, descobertas>>
    BY DEF M!Interrompe
  <1>2. /\ atendente' \in [Atendentes -> PedidosMatricula]
        /\ atendente'[h] = M!Parado /\ M!Parado.passo = "parado"
        /\ \A g \in Atendentes \ {h} : atendente'[g] = atendente[g]
    BY <1>1, TerminaFacts DEF IMatricula, DominiosMatricula
  <1>3. DominiosMatricula' /\ OpMatriculaOK'
    BY <1>1, <1>2 DEF IMatricula, DominiosMatricula, OpMatriculaOK
  <1>4. GuardaMatriculaOK' /\ M!Orfa # "livre"
    BY <1>1, <1>2 DEF IMatricula, GuardaMatriculaOK, Segura, MatriculaHipoteses, M!Orfa
  <1>5. M!TypeOK'
    BY <1>1, <1>2, <1>4 DEF IMatricula, M!TypeOK, GuardaMatriculaOK, Segura, M!Total
  <1>6. VistoMatriculaOK' /\ Unico'
    BY <1>1, <1>2, <1>4, MesmosAlunos DEF IMatricula, VistoMatriculaOK
  <1> QED
    BY <1>3, <1>4, <1>5, <1>6 DEF IMatricula

(* Steps that leave the handlers, the students and the guard as they are.   *)
LEMMA ForaInv ==
    ASSUME MatriculaHipoteses, IMatricula,
           UNCHANGED <<estudantes, guarda, atendente, descobertas>>,
           solicitacao' \in [Candidaturas -> Seq(EventosMatricula)], lida' \in [Candidaturas -> Nat],
           \A s \in Candidaturas : lida'[s] <= Len(solicitacao'[s]),
           cobranca' \in [Candidaturas -> CobrancasMatricula],
           \A s \in Candidaturas : M!Total(cobranca'[s]) <= MaxCobrancas
    PROVE  IMatricula'
  <1>1. \A s \in Candidaturas : lida'[s] \in 0..Len(solicitacao'[s])
    OBVIOUS
  <1>2. \A s \in Candidaturas : M!Total(cobranca'[s]) \in 0..MaxCobrancas
    <2> SUFFICES ASSUME NEW s \in Candidaturas PROVE M!Total(cobranca'[s]) \in 0..MaxCobrancas
      OBVIOUS
    <2>1. cobranca'[s] \in CobrancasMatricula
      OBVIOUS
    <2>2. M!Total(cobranca'[s]) \in Nat
      BY <2>1, CobrancaFacts
    <2> QED
      BY <2>2 DEF MatriculaHipoteses
  <1>3. DominiosMatricula' /\ OpMatriculaOK'
    BY DEF IMatricula, DominiosMatricula, OpMatriculaOK
  <1>4. GuardaMatriculaOK' /\ VistoMatriculaOK' /\ Unico'
    BY MesmosAlunos DEF IMatricula, GuardaMatriculaOK, Segura, VistoMatriculaOK
  <1>5. M!TypeOK'
    BY <1>1, <1>2 DEF IMatricula, M!TypeOK
  <1> QED
    BY <1>3, <1>4, <1>5 DEF IMatricula

(* A request is made, rejected, paid or projected.                          *)
LEMMA SolicitacaoInv ==
    ASSUME MatriculaHipoteses, IMatricula, NEW s \in Candidaturas,
           \/ M!CriarSolicitacaoMatricula(s) \/ M!ReprovarSolicitacaoMatricula(s)
           \/ M!Paga(s) \/ M!ProjetaSolicitacao(s)
    PROVE  IMatricula'
  <1>1. /\ solicitacao \in [Candidaturas -> Seq(EventosMatricula)] /\ lida \in [Candidaturas -> Nat]
        /\ \A t \in Candidaturas : lida[t] <= Len(solicitacao[t])
        /\ cobranca \in [Candidaturas -> CobrancasMatricula]
        /\ \A t \in Candidaturas : M!Total(cobranca[t]) <= MaxCobrancas
    BY DEF IMatricula, DominiosMatricula, M!TypeOK
  <1>2. <<"Criada">> \in Seq(EventosMatricula) /\ <<"Reprovada">> \in Seq(EventosMatricula)
    BY DEF EventosMatricula
  <1>3. CASE M!CriarSolicitacaoMatricula(s) \/ M!ReprovarSolicitacaoMatricula(s)
    <2>1. /\ M!Regista(s, <<"Criada">>) \/ M!Regista(s, <<"Reprovada">>)
          /\ UNCHANGED <<lida, estudantes, guarda, cobranca, atendente, descobertas>>
      BY <1>3 DEF M!CriarSolicitacaoMatricula, M!ReprovarSolicitacaoMatricula
    <2>2. /\ solicitacao' \in [Candidaturas -> Seq(EventosMatricula)]
          /\ \A t \in Candidaturas : lida[t] \in 0..Len(solicitacao'[t])
      BY <1>2, <2>1, RegistaTipos
    <2> QED
      BY <1>1, <2>1, <2>2, ForaInv
  <1>4. CASE M!Paga(s)
    <2> DEFINE c == [cobranca[s] EXCEPT !.abertas = @ - 1, !.pagas = @ + 1]
    <2>1. cobranca[s].abertas > 0 /\ cobranca' = [cobranca EXCEPT ![s] = c]
          /\ UNCHANGED <<solicitacao, lida, estudantes, guarda, atendente, descobertas>>
      BY <1>4 DEF M!Paga
    <2>2. c \in CobrancasMatricula /\ M!Total(c) = M!Total(cobranca[s])
      BY <1>1, <2>1, CobrancaFacts
    <2>3. /\ cobranca' \in [Candidaturas -> CobrancasMatricula]
          /\ \A t \in Candidaturas : M!Total(cobranca'[t]) <= MaxCobrancas
      <3> HIDE DEF c
      <3> QED
        BY <1>1, <2>1, <2>2
    <2> QED
      BY <1>1, <2>1, <2>3, ForaInv
  <1>5. CASE M!ProjetaSolicitacao(s)
    <2>1. lida[s] < Len(solicitacao[s]) /\ lida' = [lida EXCEPT ![s] = @ + 1]
          /\ UNCHANGED <<solicitacao, estudantes, guarda, cobranca, atendente, descobertas>>
      BY <1>5 DEF M!ProjetaSolicitacao
    <2>2. /\ lida' \in [Candidaturas -> Nat]
          /\ \A t \in Candidaturas : lida'[t] <= Len(solicitacao'[t])
      BY <1>1, <2>1
    <2> QED
      BY <1>1, <2>1, <2>2, ForaInv
  <1> QED
    BY <1>3, <1>4, <1>5

(* The fee of enrolment is set or removed.                                  *)
LEMMA TaxaInv ==
    ASSUME MatriculaHipoteses, IMatricula,
           M!ConfigureMatricula \/ M!RemoveMatriculaConfiguracao PROVE IMatricula'
  <1>1. /\ solicitacao \in [Candidaturas -> Seq(EventosMatricula)] /\ lida \in [Candidaturas -> Nat]
        /\ \A t \in Candidaturas : lida[t] <= Len(solicitacao[t])
        /\ cobranca \in [Candidaturas -> CobrancasMatricula]
        /\ \A t \in Candidaturas : M!Total(cobranca[t]) <= MaxCobrancas
    BY DEF IMatricula, DominiosMatricula, M!TypeOK
  <1>2. CASE M!ConfigureMatricula
    <2>1. UNCHANGED <<lida, estudantes, guarda, cobranca, atendente, descobertas>>
      BY <1>2 DEF M!ConfigureMatricula
    <2>2. PICK alvos \in {{}, M!Reprecificaveis} :
              solicitacao' = [s \in Candidaturas |->
                  IF s \in alvos THEN Append(solicitacao[s], "ValorPendenteAtualizado")
                                 ELSE solicitacao[s]]
      BY <1>2 DEF M!ConfigureMatricula
    <2>3. "ValorPendenteAtualizado" \in EventosMatricula
      BY DEF EventosMatricula
    <2>4. \A s \in Candidaturas :
              /\ Append(solicitacao[s], "ValorPendenteAtualizado") \in Seq(EventosMatricula)
              /\ Len(Append(solicitacao[s], "ValorPendenteAtualizado")) >= Len(solicitacao[s])
      BY <1>1, <2>3
    <2>5. /\ solicitacao' \in [Candidaturas -> Seq(EventosMatricula)]
          /\ \A s \in Candidaturas : Len(solicitacao'[s]) >= Len(solicitacao[s])
      BY <1>1, <2>2, <2>4
    <2> QED
      BY <1>1, <2>1, <2>5, ForaInv
  <1>3. CASE M!RemoveMatriculaConfiguracao
    BY <1>1, <1>3, ForaInv DEF M!RemoveMatriculaConfiguracao
  <1> QED
    BY <1>2, <1>3

(* The read model catches up with a student, and the guard of a handler     *)
(* that is gone expires when it has.                                        *)
LEMMA ProjetaEstudanteInv ==
    ASSUME MatriculaHipoteses, IMatricula, NEW i \in DOMAIN estudantes,
           M!ProjetaEstudante(i) PROVE IMatricula'
  <1>1. /\ estudantes' = [estudantes EXCEPT ![i].visivel = TRUE]
        /\ UNCHANGED <<solicitacao, lida, guarda, cobranca, atendente, descobertas>>
    BY DEF M!ProjetaEstudante
  <1>2. /\ estudantes' \in Seq([de : Candidaturas \cup {M!Direto}, visivel : BOOLEAN])
        /\ DOMAIN estudantes' = DOMAIN estudantes
        /\ \A j \in DOMAIN estudantes : /\ estudantes'[j].de = estudantes[j].de
                                        /\ estudantes[j].visivel => estudantes'[j].visivel
    <2> DEFINE E == [de : Candidaturas \cup {M!Direto}, visivel : BOOLEAN]
               novo == [estudantes[i] EXCEPT !.visivel = TRUE]
    <2>1. estudantes \in Seq(E) /\ estudantes[i] \in E
      <3>1. estudantes \in Seq(E)
        BY DEF IMatricula, DominiosMatricula
      <3> HIDE DEF E
      <3> QED
        BY <3>1
    <2>2. novo \in E /\ novo.de = estudantes[i].de /\ novo.visivel
      BY <2>1
    <2>3. estudantes' = [estudantes EXCEPT ![i] = novo]
      BY <1>1
    <2> HIDE DEF E, novo
    <2>4. estudantes' \in Seq(E) /\ DOMAIN estudantes' = DOMAIN estudantes
      BY <2>1, <2>2, <2>3
    <2>5. \A j \in DOMAIN estudantes : estudantes'[j] = IF j = i THEN novo ELSE estudantes[j]
      BY <2>3
    <2> QED
      BY <2>2, <2>4, <2>5 DEF E
  <1>3. DominiosMatricula' /\ M!TypeOK'
    BY <1>1, <1>2 DEF IMatricula, DominiosMatricula, M!TypeOK
  <1>4. OpMatriculaOK' /\ GuardaMatriculaOK'
    BY <1>1 DEF IMatricula, OpMatriculaOK, GuardaMatriculaOK, Segura
  <1>5. Alunos' = Alunos
    BY <1>2 DEF Alunos, M!TemCartao
  <1>6. M!BilheteCadastrado => M!BilheteCadastrado'
    BY <1>2 DEF M!BilheteCadastrado, M!TemCartao, M!Range
  <1>7. VistoMatriculaOK' /\ Unico'
    BY <1>1, <1>5, <1>6 DEF IMatricula, VistoMatriculaOK, Unico, Cheio
  <1> QED
    BY <1>3, <1>4, <1>5, <1>7 DEF IMatricula

(* A guard left behind is freed when nobody can use it.                     *)
LEMMA MatriculaExpiraInv ==
    ASSUME MatriculaHipoteses, IMatricula, M!ExpiraGuarda
    PROVE  IMatricula'
  <1>1. /\ guarda = M!Orfa /\ guarda' = "livre"
        /\ UNCHANGED <<solicitacao, lida, estudantes, cobranca, atendente, descobertas>>
        /\ \A e \in M!Range(estudantes) : e.visivel \/ M!Recusado(e)
    BY DEF M!ExpiraGuarda, M!Solta
  <1>2. Cheio => M!BilheteCadastrado
    <2>1. Cheio => Alunos # {}
      <3>1. Cardinality({}) = 0 /\ (descobertas \in Nat => 1 + descobertas # 0)
        BY FS_EmptySet
      <3> QED
        BY <3>1 DEF IMatricula, Unico, Cheio
    <2>2. ASSUME NEW i \in Alunos PROVE M!BilheteCadastrado
      <3>1. /\ M!TemCartao(estudantes[i]) /\ estudantes[i] \in M!Range(estudantes)
            /\ i \in DOMAIN estudantes
        BY DEF Alunos, M!Range
      <3> QED
        BY <1>1, <3>1 DEF M!BilheteCadastrado, M!Recusado
    <2> QED
      BY <2>1, <2>2
  <1>3. DominiosMatricula' /\ M!TypeOK' /\ OpMatriculaOK'
    BY <1>1 DEF IMatricula, DominiosMatricula, M!TypeOK, OpMatriculaOK, MatriculaHipoteses
  <1>4. GuardaMatriculaOK'
    BY <1>1 DEF IMatricula, GuardaMatriculaOK, Segura, MatriculaHipoteses
  <1>5. VistoMatriculaOK' /\ Unico'
    BY <1>1, <1>2, MesmosAlunos DEF IMatricula, VistoMatriculaOK
  <1> QED
    BY <1>3, <1>4, <1>5 DEF IMatricula

-----------------------------------------------------------------------------
(* Every step of the handlers, of the payers and of the read models.        *)
LEMMA MatriculaNext ==
    ASSUME MatriculaHipoteses, IMatricula, [M!Next]_M!vars
    PROVE  IMatricula'
  <1>1. ASSUME NEW h \in Atendentes, M!Comeca(h) \/ M!Cria(h) \/ M!Cobra(h) \/ M!Interrompe(h)
        PROVE  IMatricula'
    <2>1. CASE M!Cria(h)
      BY <2>1, MatriculaReserveInv, VerificarInv, MarcarInv, MatriculaCriarInv, ConsumirInv,
         VincularInv,
         AprovarInv, ConcorrentesInv, MatriculaReleaseInv DEF M!Cria
    <2>2. CASE M!Cobra(h)
      BY <2>2, GerarInv, CancelarCobrancaInv, CancelarInv DEF M!Cobra
    <2> QED
      BY <1>1, <2>1, <2>2, MatriculaComecaInv, MatriculaInterrompeInv
  <1>2. CASE UNCHANGED M!vars
    BY <1>2, MesmosAlunos DEF M!vars, IMatricula, DominiosMatricula, M!TypeOK, OpMatriculaOK,
       GuardaMatriculaOK, Segura, VistoMatriculaOK
  <1> QED
    BY <1>1, <1>2, SolicitacaoInv, TaxaInv, ProjetaEstudanteInv, MatriculaExpiraInv DEF M!Next

(* The cardinality that Matricula speaks of is that of FiniteSets.          *)
LEMMA MatriculaCardinality ==
    ASSUME NEW Z
    PROVE  M!Cardinality(Z) = Cardinality(Z)
  BY DEF M!Cardinality, Cardinality

(* The students of the invariant are those the property counts.             *)
LEMMA MatriculaOneStudent == IMatricula => M!TypeOK /\ M!OneStudentPerBI
  <1> SUFFICES ASSUME IMatricula PROVE M!OneStudentPerBI
    BY DEF IMatricula
  <1>1. M!Cardinality(Alunos) = Cardinality(Alunos)
    BY MatriculaCardinality
  <1>2. Cardinality(Alunos) <= 1 + descobertas
    BY DEF IMatricula, Unico
  <1> QED
    BY <1>1, <1>2 DEF M!OneStudentPerBI, Alunos

-----------------------------------------------------------------------------
(* Requests to change a datum, for any requests, any deciders and any kinds *)
(* of failure.  The invariant says what the guard of a datum stands for: a  *)
(* handler that may still make its request, a request that waits for its    *)
(* decision, or a decision that is about to free the key.                   *)

Q == INSTANCE MCSolicitacoes

Registo == [type : {"Criada"} \cup Q!Decided, sol : Requests, basis : Nat]
Busy == [pc : {"load", "apply", "decide", "releaseKey", "delete"}, sol : Requests,
         aprovar : BOOLEAN, loaded : Nat]
Steps == {"new", "check", "upload", "save", "consume", "release", "over"}

TiposPedidos ==
    /\ guard \in [Requests -> {"none", "reserved", "consumed", "released", "expired"}]
    /\ creator \in [Requests -> Steps]
    /\ decider \in [Deciders -> {Q!Idle} \cup Busy]
    /\ log \in Seq(Registo)
    /\ projected \in Nat /\ projected <= Len(log)
    /\ applied \subseteq Requests /\ docs \subseteq Requests
    /\ failed \subseteq Q!Kinds

\* The ledger has the request, and its decision.
Made(r) == \E i \in DOMAIN log : log[i].sol = r
Ended(r) == \E i \in DOMAIN log : log[i].sol = r /\ log[i].type \in Q!Decided

\* Who decides has found the request in the ledger, and has read a part of it.
Seen == \A d \in Deciders : decider[d].pc # "idle" =>
            Made(decider[d].sol) /\ decider[d].loaded <= Len(log)

\* No request is in the ledger before its handler has saved it.
NoneYet == \A r \in Requests : creator[r] \in {"new", "check", "upload", "save"} => ~Made(r)

\* Who approves has changed the datum.
Applied ==
    /\ \A i \in DOMAIN log : log[i].type = "Aprovada" => log[i].sol \in applied
    /\ \A d \in Deciders : decider[d].pc = "decide" /\ decider[d].aprovar =>
            decider[d].sol \in applied

\* A document is deleted when its request has been decided, or was not saved.
Documents ==
    /\ \A r \in Requests : creator[r] = "save" => r \in docs
    /\ \A d \in Deciders : decider[d].pc \in {"releaseKey", "delete"} => Ended(decider[d].sol)
    /\ "reply" \notin failed => \A r \in Requests : Made(r) /\ ~Ended(r) => r \in docs

\* A row of a decided request is active only while a decision is about to free the key.
KeyFreed ==
    failed \cap {"crash", "reply", "release"} = {} =>
        \A r \in Requests : guard[r] \in Q!Active /\ Ended(r) =>
            \E d \in Deciders : decider[d].pc = "releaseKey"

\* The row of a request in the ledger is consumed, or its handler is about to consume it.
Held(r) == guard[r] = "consumed" \/ (guard[r] = "reserved" /\ creator[r] = "consume")

\* One row is active: that of the request that is made, that waits or that was decided.
Calm == failed \cap {"crash", "reply", "consume"} = {} /\ ~Q!DecidedTwice
OneRow ==
    Calm =>
        /\ \A q, r \in Requests : guard[q] \in Q!Active /\ guard[r] \in Q!Active => q = r
        /\ \A r \in Requests :
              /\ creator[r] \in {"check", "upload", "save"} => guard[r] = "reserved"
              /\ creator[r] = "release" => ~Made(r)
              /\ Made(r) /\ ~Ended(r) => Held(r)
        /\ \A d \in Deciders : decider[d].pc = "releaseKey" => Held(decider[d].sol)
        /\ \A d, e \in Deciders :
              (decider[d].pc = "releaseKey" /\ decider[e].pc = "releaseKey"
                  /\ decider[d].sol = decider[e].sol) => d = e

IPedidos ==
    TiposPedidos /\ Seen /\ NoneYet /\ Applied /\ Q!DecidedOnce /\ Documents /\ KeyFreed /\ OneRow

-----------------------------------------------------------------------------
(* The ledger.                                                              *)

(* The status of a request after a prefix of the log, by its events.        *)
LEMMA PrefixStatus ==
    ASSUME TiposPedidos, NEW n \in Nat, n <= Len(log), NEW r \in Requests
    PROVE  /\ Q!Status(n, r) = "pendente" <=>
                /\ \E i \in 1..n : log[i].sol = r
                /\ ~ \E i \in 1..n : log[i].sol = r /\ log[i].type \in Q!Decided
           /\ Q!Status(n, r) = "decided" <=>
                \E i \in 1..n : log[i].sol = r /\ log[i].type \in Q!Decided
  <1>1. Len(SubSeq(log, 1, n)) = n /\ \A i \in 1..n : SubSeq(log, 1, n)[i] = log[i]
    BY DEF TiposPedidos
  <1>2. DOMAIN SubSeq(log, 1, n) = 1..n
    BY <1>1 DEF TiposPedidos
  <1>3. Q!Events(n, r) = {e \in {log[i] : i \in 1..n} : e.sol = r}
    BY <1>1, <1>2 DEF Q!Events, Q!ToSet
  <1>4. Q!Events(n, r) = {} <=> ~ \E i \in 1..n : log[i].sol = r
    BY <1>3
  <1>5. (\E e \in Q!Events(n, r) : e.type \in Q!Decided)
           <=> \E i \in 1..n : log[i].sol = r /\ log[i].type \in Q!Decided
    BY <1>3
  <1> QED
    BY <1>4, <1>5 DEF Q!Status

(* The status in the ledger.                                                *)
LEMMA LedgerStatus ==
    ASSUME TiposPedidos, NEW r \in Requests
    PROVE  /\ Q!Status(Len(log), r) = "pendente" <=> Made(r) /\ ~Ended(r)
           /\ Q!Status(Len(log), r) = "decided" <=> Ended(r)
  <1>1. Len(log) \in Nat /\ DOMAIN log = 1..Len(log)
    BY DEF TiposPedidos
  <1> QED
    BY <1>1, PrefixStatus DEF Made, Ended

(* What one more event changes.                                             *)
LEMMA OneMore ==
    ASSUME TiposPedidos, NEW e \in Registo, log' = Append(log, e)
    PROVE  /\ log' \in Seq(Registo) /\ Len(log') = Len(log) + 1 /\ Len(log) \in Nat
           /\ DOMAIN log' = 1..(Len(log) + 1) /\ DOMAIN log = 1..Len(log)
           /\ \A i \in 1..Len(log) : log'[i] = log[i]
           /\ log'[Len(log) + 1] = e
           /\ \A r : Made(r)' <=> Made(r) \/ r = e.sol
           /\ \A r : Ended(r)' <=> Ended(r) \/ (r = e.sol /\ e.type \in Q!Decided)
           /\ Q!DecidedTwice => Q!DecidedTwice'
           /\ e.type \in Q!Decided /\ Ended(e.sol) => Q!DecidedTwice'
  <1>1. /\ log' \in Seq(Registo) /\ Len(log') = Len(log) + 1 /\ Len(log) \in Nat
        /\ DOMAIN log' = 1..(Len(log) + 1) /\ DOMAIN log = 1..Len(log)
        /\ \A i \in 1..Len(log) : log'[i] = log[i]
        /\ log'[Len(log) + 1] = e
    BY DEF TiposPedidos
  <1>2. \A i \in 1..(Len(log) + 1) : i \in 1..Len(log) \/ i = Len(log) + 1
    BY <1>1
  <1>3. \A i \in 1..Len(log) : i \in 1..(Len(log) + 1) /\ i < Len(log) + 1
    BY <1>1
  <1>4. Len(log) + 1 \in 1..(Len(log) + 1)
    BY <1>1
  <1>5. \A r : Made(r)' <=> Made(r) \/ r = e.sol
    BY <1>1, <1>2, <1>3, <1>4 DEF Made
  <1>6. \A r : Ended(r)' <=> Ended(r) \/ (r = e.sol /\ e.type \in Q!Decided)
    BY <1>1, <1>2, <1>3, <1>4 DEF Ended
  <1>7. Q!DecidedTwice => Q!DecidedTwice'
    BY <1>1, <1>3 DEF Q!DecidedTwice
  <1>8. e.type \in Q!Decided /\ Ended(e.sol) => Q!DecidedTwice'
    BY <1>1, <1>3, <1>4 DEF Q!DecidedTwice, Ended
  <1> QED
    BY <1>1, <1>5, <1>6, <1>7, <1>8

(* Failures that have happened stay.                                        *)
LEMMA StillFailed ==
    ASSUME TiposPedidos, Q!Works \/ (\E kind \in Q!Kinds : Q!Fails(kind))
    PROVE  failed \subseteq failed' /\ failed' \subseteq Q!Kinds
  BY DEF Q!Works, Q!Fails, TiposPedidos

-----------------------------------------------------------------------------
(* The handler of a POST.                                                   *)

(* What a step of it cannot disturb while it saves nothing.                 *)
LEMMA PostAside ==
    ASSUME IPedidos, NEW r \in Requests, NEW step \in Steps,
           creator' = [creator EXCEPT ![r] = step],
           UNCHANGED <<decider, log, projected, applied>>,
           Q!Works \/ (\E kind \in Q!Kinds : Q!Fails(kind)),
           docs' \subseteq Requests, docs \subseteq docs',
           step \in {"new", "check", "upload", "save"} =>
               creator[r] \in {"new", "check", "upload", "save"},
           step = "save" => r \in docs'
    PROVE  /\ creator' \in [Requests -> Steps] /\ creator'[r] = step
           /\ \A q \in Requests \ {r} : creator'[q] = creator[q]
           /\ failed \subseteq failed' /\ failed' \subseteq Q!Kinds
           /\ Seen' /\ NoneYet' /\ Applied' /\ Q!DecidedOnce' /\ Documents'
  <1>1. /\ creator' \in [Requests -> Steps] /\ creator'[r] = step
        /\ \A q \in Requests \ {r} : creator'[q] = creator[q]
    BY DEF IPedidos, TiposPedidos
  <1>2. failed \subseteq failed' /\ failed' \subseteq Q!Kinds
    BY StillFailed DEF IPedidos
  <1>3. Seen' /\ Applied' /\ Q!DecidedOnce'
    BY DEF IPedidos, Seen, Made, Applied, Q!DecidedOnce
  <1>4. NoneYet'
    BY <1>1 DEF IPedidos, NoneYet, Made
  <1>5. Documents'
    BY <1>1, <1>2 DEF IPedidos, Documents, Made, Ended
  <1> QED
    BY <1>1, <1>2, <1>3, <1>4, <1>5

(* No other row is active when one is reserved; those that are expired had  *)
(* been left by a handler that saved nothing.                               *)
LEMMA PedidoReserveInv ==
    ASSUME IPedidos, NEW r \in Requests, Q!Reserve(r) PROVE IPedidos'
  <1> PICK expired \in SUBSET Q!Expirable : Q!TryReserve(r, expired)
    BY DEF Q!Reserve
  <1> DEFINE taken == \E q \in Requests \ expired : guard[q] \in Q!Active
  <1> DEFINE step == IF taken THEN "over" ELSE "check"
  <1>0. /\ creator[r] = "new" /\ UNCHANGED <<decider, log, projected, applied, docs, failed>>
        /\ creator' = [creator EXCEPT ![r] = step]
    BY DEF Q!Reserve, Q!TryReserve
  <1>1. step \in Steps /\ step \notin {"save", "new", "upload", "consume", "release"}
    BY DEF Steps
  <1> HIDE DEF step
  <1>2. /\ creator' \in [Requests -> Steps] /\ creator'[r] = step
        /\ \A q \in Requests \ {r} : creator'[q] = creator[q]
        /\ Seen' /\ NoneYet' /\ Applied' /\ Q!DecidedOnce' /\ Documents'
    BY <1>0, <1>1, PostAside DEF Q!Works, IPedidos, TiposPedidos
  <1>3. ~Made(r)
    BY <1>0 DEF IPedidos, NoneYet
  <1>4. CASE taken
    <2>1. step = "over" /\ guard' = guard
      BY <1>4 DEF step, Q!TryReserve
    <2>2. TiposPedidos'
      BY <1>0, <1>2, <2>1 DEF IPedidos, TiposPedidos
    <2>3. KeyFreed'
      BY <1>0, <2>1 DEF IPedidos, KeyFreed, Ended
    <2>4. OneRow'
      BY <1>0, <1>2, <1>3, <2>1 DEF IPedidos, OneRow, Calm, Held, Made, Ended, Q!DecidedTwice
    <2> QED
      BY <1>2, <2>2, <2>3, <2>4 DEF IPedidos
  <1>5. CASE ~taken
    <2>1. /\ step = "check"
          /\ guard' = [q \in Requests |-> IF q = r THEN "reserved"
                                          ELSE IF q \in expired THEN "expired" ELSE guard[q]]
      BY <1>5 DEF step, Q!TryReserve
    <2>2. /\ guard'[r] = "reserved"
          /\ \A q \in Requests \ {r} : guard'[q] \notin Q!Active
      BY <1>5, <2>1 DEF Q!Active
    <2>3. TiposPedidos'
      BY <1>0, <1>2, <2>1 DEF IPedidos, TiposPedidos
    <2>4. ~Ended(r)' /\ ~Made(r)'
      BY <1>0, <1>3 DEF Made, Ended
    <2>5. KeyFreed'
      BY <2>2, <2>4 DEF KeyFreed
    <2>6. \A q \in Requests \ {r} : guard[q] \in Q!Active => q \in expired
      BY <1>5
    <2>7. \A q \in expired : creator[q] = "over" /\ guard[q] = "reserved"
      BY DEF Q!Expirable
    <2>8. \A q \in Requests : Held(q) => q = r
      BY <2>6, <2>7 DEF Held, Q!Active
    <2>9. OneRow'
      <3>1. \A q : (Made(q)' <=> Made(q)) /\ (Ended(q)' <=> Ended(q))
        BY <1>0 DEF Made, Ended
      <3>2. Calm' <=> Calm
        BY <1>0 DEF Calm, Q!DecidedTwice
      <3>3. \A d \in Deciders : decider[d].pc = "releaseKey" =>
               decider[d].sol \in Requests /\ Made(decider[d].sol)
        BY DEF IPedidos, Seen, TiposPedidos, Q!Idle, Busy
      <3>4. \A q \in Requests \ {r} : creator[q] \in {"check", "upload", "save"} =>
               guard[q] # "reserved"
        BY <2>6, <2>7 DEF Q!Active
      <3> QED
        BY <1>0, <1>2, <1>3, <2>1, <2>2, <2>8, <3>1, <3>2, <3>3, <3>4 DEF IPedidos, OneRow
    <2> QED
      BY <1>2, <2>3, <2>5, <2>9 DEF IPedidos
  <1> QED
    BY <1>4, <1>5

(* Steps of a handler that has its row and has not saved.                   *)
LEMMA UnsavedInv ==
    ASSUME IPedidos, NEW r \in Requests, Q!ExistePendente(r) \/ Q!Upload(r) PROVE IPedidos'
  <1>1. PICK step \in {"release", "upload", "save"} : creator' = [creator EXCEPT ![r] = step]
    BY DEF Q!ExistePendente, Q!Upload
  <1>2. /\ creator[r] \in {"check", "upload"}
        /\ UNCHANGED <<guard, decider, log, projected, applied>>
        /\ Q!Works \/ (\E kind \in Q!Kinds : Q!Fails(kind))
        /\ docs' \in {docs, docs \cup {r}}
        /\ creator'[r] = "save" => r \in docs'
    BY DEF Q!ExistePendente, Q!Upload, Q!Works, Q!Kinds, IPedidos, TiposPedidos
  <1>3. /\ creator' \in [Requests -> Steps] /\ creator'[r] = step
        /\ \A q \in Requests \ {r} : creator'[q] = creator[q]
        /\ failed \subseteq failed' /\ failed' \subseteq Q!Kinds
        /\ Seen' /\ NoneYet' /\ Applied' /\ Q!DecidedOnce' /\ Documents'
    <2>1. step \in Steps /\ creator'[r] = step
      BY <1>1 DEF Steps, IPedidos, TiposPedidos
    <2>2. docs' \subseteq Requests /\ docs \subseteq docs'
      BY <1>2 DEF IPedidos, TiposPedidos
    <2> QED
      BY <1>1, <1>2, <2>1, <2>2, PostAside
  <1>4. TiposPedidos'
    BY <1>2, <1>3 DEF IPedidos, TiposPedidos
  <1>5. KeyFreed'
    BY <1>2, <1>3 DEF IPedidos, KeyFreed, Ended
  <1>6. ~Made(r)
    BY <1>2 DEF IPedidos, NoneYet
  <1>7. OneRow'
    <2>1. \A q : (Made(q)' <=> Made(q)) /\ (Ended(q)' <=> Ended(q))
      BY <1>2 DEF Made, Ended
    <2>2. Calm' => Calm
      BY <1>2, <1>3 DEF Calm, Q!DecidedTwice
    <2>3. \A q \in Requests : Held(q) => Held(q)'
      BY <1>2, <1>3 DEF Held
    <2>4. \A d \in Deciders : decider[d].pc = "releaseKey" => decider[d].sol \in Requests
      BY DEF IPedidos, TiposPedidos, Q!Idle, Busy
    <2> QED
      BY <1>2, <1>3, <1>6, <2>1, <2>2, <2>3, <2>4 DEF IPedidos, OneRow
  <1> QED
    BY <1>3, <1>4, <1>5, <1>7 DEF IPedidos

(* The request is in the ledger, its row is still reserved.                 *)
LEMMA SaveRequestInv ==
    ASSUME IPedidos, NEW r \in Requests, Q!SaveRequest(r) PROVE IPedidos'
  <1>0. /\ creator[r] = "save" /\ UNCHANGED <<guard, decider, projected, applied>>
        /\ r \in docs /\ ~Made(r) /\ ~Ended(r)
    BY DEF Q!SaveRequest, IPedidos, Documents, NoneYet, Made, Ended
  <1>1. ASSUME NEW step \in {"consume", "release"}, creator' = [creator EXCEPT ![r] = step]
        PROVE  /\ creator' \in [Requests -> Steps] /\ creator'[r] = step
               /\ \A q \in Requests \ {r} : creator'[q] = creator[q]
    BY <1>1 DEF IPedidos, TiposPedidos, Steps
  <1>2. CASE Q!Fails("save") /\ docs' = docs \ {r} /\ UNCHANGED log
             /\ creator' = [creator EXCEPT ![r] = "release"]
    <2>1. failed \subseteq failed' /\ failed' \subseteq Q!Kinds
      BY <1>2, StillFailed DEF IPedidos, Q!Kinds
    <2>2. TiposPedidos' /\ Seen' /\ Applied' /\ Q!DecidedOnce'
      BY <1>0, <1>1, <1>2, <2>1 DEF IPedidos, TiposPedidos, Seen, Made, Applied, Q!DecidedOnce
    <2>3. NoneYet'
      BY <1>0, <1>1, <1>2 DEF IPedidos, NoneYet, Made
    <2>4. Documents'
      BY <1>0, <1>1, <1>2, <2>1 DEF IPedidos, Documents, Made, Ended
    <2>5. KeyFreed'
      BY <1>0, <1>2, <2>1 DEF IPedidos, KeyFreed, Ended
    <2>6. OneRow'
      BY <1>0, <1>1, <1>2, <2>1 DEF IPedidos, OneRow, Calm, Held, Made, Ended, Q!DecidedTwice
    <2> QED
      BY <2>2, <2>3, <2>4, <2>5, <2>6 DEF IPedidos
  <1>3. ASSUME NEW step \in {"consume", "release"}, creator' = [creator EXCEPT ![r] = step],
               log' = Append(log, Q!Event("Criada", r, 0)),
               Q!Works \/ (\E kind \in Q!Kinds : Q!Fails(kind)),
               step = "release" => "reply" \in failed',
               docs' = docs \/ (docs' = docs \ {r} /\ "reply" \in failed')
        PROVE  IPedidos'
    <2> DEFINE e == Q!Event("Criada", r, 0)
    <2>1. e \in Registo /\ e.sol = r /\ e.type = "Criada" /\ e.type \notin Q!Decided
      BY DEF Q!Event, Registo, Q!Decided
    <2> HIDE DEF e
    <2>2. /\ log' \in Seq(Registo) /\ Len(log') = Len(log) + 1 /\ Len(log) \in Nat
          /\ DOMAIN log' = 1..(Len(log) + 1) /\ DOMAIN log = 1..Len(log)
          /\ \A i \in 1..Len(log) : log'[i] = log[i]
          /\ log'[Len(log) + 1] = e
          /\ \A q : Made(q)' <=> Made(q) \/ q = r
          /\ \A q : Ended(q)' <=> Ended(q)
          /\ Q!DecidedTwice => Q!DecidedTwice'
      BY <1>3, <2>1, OneMore DEF IPedidos, e
    <2>3. failed \subseteq failed' /\ failed' \subseteq Q!Kinds
      BY <1>3, StillFailed DEF IPedidos
    <2>4. /\ creator' \in [Requests -> Steps] /\ creator'[r] = step
          /\ \A q \in Requests \ {r} : creator'[q] = creator[q]
      BY <1>1, <1>3
    <2>5. TiposPedidos'
      BY <1>0, <1>3, <2>2, <2>3, <2>4 DEF IPedidos, TiposPedidos
    <2>6. Seen'
      <3>1. \A d \in Deciders : decider[d].pc # "idle" => decider[d].loaded \in Nat
        BY DEF IPedidos, TiposPedidos, Q!Idle, Busy
      <3> QED
        BY <1>0, <2>2, <3>1 DEF IPedidos, Seen
    <2>7. NoneYet'
      BY <1>3, <2>2, <2>4 DEF IPedidos, NoneYet
    <2>8. Applied'
      BY <1>0, <2>1, <2>2 DEF IPedidos, Applied
    <2>9. Q!DecidedOnce'
      BY <2>1, <2>2 DEF IPedidos, Q!DecidedOnce
    <2>10. Documents'
      BY <1>0, <1>3, <2>2, <2>3, <2>4 DEF IPedidos, Documents
    <2>11. KeyFreed'
      BY <1>0, <2>2, <2>3 DEF IPedidos, KeyFreed
    <2>12. OneRow'
      BY <1>0, <1>3, <2>2, <2>3, <2>4 DEF IPedidos, OneRow, Calm, Held
    <2> QED
      BY <2>5, <2>6, <2>7, <2>8, <2>9, <2>10, <2>11, <2>12 DEF IPedidos
  <1>4. Q!Fails("reply") => "reply" \in failed' /\ "reply" \in Q!Kinds
    BY DEF Q!Fails, Q!Kinds
  <1> QED
    BY <1>2, <1>3, <1>4 DEF Q!SaveRequest

(* The row of the request is consumed, or its guard is given back; then     *)
(* either there is no request or something has failed.                      *)
LEMMA EndPostInv ==
    ASSUME IPedidos, NEW r \in Requests, Q!Consume(r) \/ Q!Release(r) PROVE IPedidos'
  <1>1. PICK step \in {"over", "release"} : creator' = [creator EXCEPT ![r] = step]
    BY DEF Q!Consume, Q!Release
  <1>2. /\ creator[r] \in {"consume", "release"}
        /\ UNCHANGED <<decider, log, projected, applied, docs>>
        /\ Q!Works \/ (\E kind \in Q!Kinds : Q!Fails(kind))
    BY DEF Q!Consume, Q!Release, Q!Kinds
  <1>3. /\ creator' \in [Requests -> Steps] /\ creator'[r] = step
        /\ \A q \in Requests \ {r} : creator'[q] = creator[q]
        /\ failed \subseteq failed' /\ failed' \subseteq Q!Kinds
        /\ Seen' /\ NoneYet' /\ Applied' /\ Q!DecidedOnce' /\ Documents'
    <2>1. step \in Steps /\ step \notin {"new", "check", "upload", "save"}
      BY DEF Steps
    <2>2. docs' \subseteq Requests /\ docs \subseteq docs'
      BY <1>2 DEF IPedidos, TiposPedidos
    <2> QED
      BY <1>1, <1>2, <2>1, <2>2, PostAside
  <1>4. /\ guard' \in [Requests -> {"none", "reserved", "consumed", "released", "expired"}]
        /\ \A q \in Requests \ {r} : guard'[q] = guard[q]
        /\ guard'[r] \in Q!Active => guard[r] \in Q!Active
        /\ Q!Consume(r) => \/ step = "over" /\ (Held(r) => guard'[r] = "consumed")
                           \/ "consume" \in failed'
    <2>0. guard \in [Requests -> {"none", "reserved", "consumed", "released", "expired"}]
      BY DEF IPedidos, TiposPedidos
    <2>1. CASE guard' = [guard EXCEPT ![r] = IF @ = "reserved" THEN "consumed" ELSE @]
                /\ step = "over"
      BY <2>0, <2>1 DEF Q!Active, Held
    <2>2. CASE guard' = [guard EXCEPT ![r] = IF @ \in Q!Active THEN "released" ELSE @]
                /\ ~Q!Consume(r)
      BY <2>0, <2>2 DEF Q!Active
    <2>3. CASE guard' = guard /\ (Q!Consume(r) => "consume" \in failed')
      BY <2>0, <2>3
    <2>4. Q!Consume(r) => \/ guard' = [guard EXCEPT ![r] = IF @ = "reserved" THEN "consumed" ELSE @]
                              /\ step = "over"
                          \/ guard' = guard /\ "consume" \in failed'
      <3>2. ASSUME Q!Consume(r), creator' = [creator EXCEPT ![r] = "over"] PROVE step = "over"
        BY <1>3, <3>2 DEF IPedidos, TiposPedidos
      <3> QED
        BY <3>2 DEF Q!Consume, Q!Fails
    <2>5. Q!Release(r) => ~Q!Consume(r)
      BY DEF Q!Release, Q!Consume
    <2>6. Q!Release(r) => \/ guard' = [guard EXCEPT ![r] = IF @ \in Q!Active THEN "released" ELSE @]
                          \/ guard' = guard
      BY DEF Q!Release
    <2> QED
      BY <2>1, <2>2, <2>3, <2>4, <2>5, <2>6
  <1>5. TiposPedidos'
    BY <1>2, <1>3, <1>4 DEF IPedidos, TiposPedidos
  <1>6. KeyFreed'
    BY <1>2, <1>3, <1>4 DEF IPedidos, KeyFreed, Ended
  <1>7. \A q : /\ (Made(q)' <=> Made(q)) /\ (Ended(q)' <=> Ended(q))
    BY <1>2 DEF Made, Ended
  <1>8. Q!DecidedTwice' <=> Q!DecidedTwice
    BY <1>2 DEF Q!DecidedTwice
  <1>9. Calm' => Calm
    BY <1>3, <1>8 DEF Calm
  <1>10. ASSUME Calm'
         PROVE  \/ creator[r] = "release" /\ ~Made(r)
                \/ creator[r] = "consume" /\ step = "over" /\ (Held(r) => guard'[r] = "consumed")
    <2>1. CASE Q!Consume(r)
      BY <1>4, <1>10, <2>1 DEF Calm, Q!Consume
    <2>2. CASE Q!Release(r)
      BY <1>9, <1>10, <2>2 DEF IPedidos, OneRow, Q!Release
    <2> QED
      BY <2>1, <2>2
  <1>11. ASSUME Calm', NEW q \in Requests, Held(q), Made(q) PROVE Held(q)'
    BY <1>3, <1>4, <1>10, <1>11 DEF Held
  <1>12. \A d \in Deciders : decider[d].pc = "releaseKey" =>
             decider[d].sol \in Requests /\ Made(decider[d].sol)
    BY DEF IPedidos, Seen, TiposPedidos, Q!Idle, Busy
  <1>13. OneRow'
    BY <1>2, <1>3, <1>4, <1>7, <1>9, <1>10, <1>11, <1>12 DEF IPedidos, OneRow
  <1> QED
    BY <1>3, <1>5, <1>6, <1>13 DEF IPedidos

-----------------------------------------------------------------------------
(* The decision.                                                            *)

(* A handler that has nothing in hand, and one that goes on.                *)
LEMMA DeciderTypes ==
    ASSUME TiposPedidos, NEW d \in Deciders
    PROVE  /\ decider[d].pc # "idle" => decider[d] \in Busy
           /\ \A new \in {Q!Idle} \cup Busy : decider' = [decider EXCEPT ![d] = new] =>
                /\ decider' \in [Deciders -> {Q!Idle} \cup Busy] /\ decider'[d] = new
                /\ \A e \in Deciders \ {d} : decider'[e] = decider[e]
           /\ \A pc \in {"load", "apply", "decide", "releaseKey", "delete"} :
                decider[d] \in Busy /\ decider' = [decider EXCEPT ![d].pc = pc] =>
                /\ decider' \in [Deciders -> {Q!Idle} \cup Busy]
                /\ decider'[d].pc = pc /\ decider'[d].sol = decider[d].sol
                /\ decider'[d].aprovar = decider[d].aprovar
                /\ decider'[d].loaded = decider[d].loaded
                /\ \A e \in Deciders \ {d} : decider'[e] = decider[e]
  <1>1. decider[d].pc # "idle" => decider[d] \in Busy
    BY DEF TiposPedidos, Q!Idle
  <1>2. ASSUME NEW new \in {Q!Idle} \cup Busy, decider' = [decider EXCEPT ![d] = new]
        PROVE  /\ decider' \in [Deciders -> {Q!Idle} \cup Busy] /\ decider'[d] = new
               /\ \A e \in Deciders \ {d} : decider'[e] = decider[e]
    BY <1>2 DEF TiposPedidos
  <1>3. ASSUME NEW pc \in {"load", "apply", "decide", "releaseKey", "delete"},
               decider[d] \in Busy, decider' = [decider EXCEPT ![d].pc = pc]
        PROVE  /\ decider' \in [Deciders -> {Q!Idle} \cup Busy]
               /\ decider'[d].pc = pc /\ decider'[d].sol = decider[d].sol
               /\ decider'[d].aprovar = decider[d].aprovar
               /\ decider'[d].loaded = decider[d].loaded
               /\ \A e \in Deciders \ {d} : decider'[e] = decider[e]
    <2>1. [decider[d] EXCEPT !.pc = pc] \in Busy
      BY <1>3 DEF Busy
    <2>2. decider' = [decider EXCEPT ![d] = [decider[d] EXCEPT !.pc = pc]]
      BY <1>3 DEF TiposPedidos
    <2>3. /\ decider' \in [Deciders -> {Q!Idle} \cup Busy]
          /\ decider'[d] = [decider[d] EXCEPT !.pc = pc]
          /\ \A e \in Deciders \ {d} : decider'[e] = decider[e]
      BY <2>1, <2>2 DEF TiposPedidos
    <2> QED
      BY <1>3, <2>3 DEF Busy
  <1> QED
    BY <1>1, <1>2, <1>3

(* A step of a decision before it saves, or after it has freed the key.     *)
LEMMA DecisionAside ==
    ASSUME IPedidos, NEW d \in Deciders, decider' \in [Deciders -> {Q!Idle} \cup Busy],
           \A e \in Deciders \ {d} : decider'[e] = decider[e],
           decider[d].pc # "releaseKey", decider'[d].pc # "releaseKey",
           UNCHANGED <<Q!requests, log, projected>>,
           Q!Works \/ (\E kind \in Q!Kinds : Q!Fails(kind)),
           applied' \subseteq Requests, applied \subseteq applied',
           docs' \subseteq docs,
           decider'[d].pc # "idle" =>
               /\ Made(decider'[d].sol) /\ decider'[d].loaded <= Len(log)
               /\ decider'[d].pc = "decide" /\ decider'[d].aprovar => decider'[d].sol \in applied'
               /\ decider'[d].pc # "delete",
           \A r \in docs \ docs' : Ended(r)
    PROVE  IPedidos'
  <1>0. UNCHANGED <<guard, creator, log, projected>>
    BY DEF Q!requests
  <1>1. failed \subseteq failed' /\ failed' \subseteq Q!Kinds
    BY StillFailed DEF IPedidos
  <1>2. \A r : (Made(r)' <=> Made(r)) /\ (Ended(r)' <=> Ended(r))
    BY <1>0 DEF Made, Ended
  <1>3. TiposPedidos'
    BY <1>0, <1>1 DEF IPedidos, TiposPedidos
  <1>4. Seen'
    BY <1>0, <1>2 DEF IPedidos, Seen
  <1>5. NoneYet'
    BY <1>0, <1>2 DEF IPedidos, NoneYet
  <1>6. Applied'
    BY <1>0 DEF IPedidos, Applied
  <1>7. Q!DecidedOnce'
    BY <1>0 DEF IPedidos, Q!DecidedOnce
  <1>8. Documents'
    <2>1. ASSUME NEW r \in Requests, creator[r] = "save" PROVE r \in docs'
      BY <2>1 DEF IPedidos, Documents, NoneYet, Made, Ended
    <2> QED
      BY <1>0, <1>1, <1>2, <2>1 DEF IPedidos, Documents
  <1>9. KeyFreed'
    BY <1>0, <1>1, <1>2 DEF IPedidos, KeyFreed
  <1>10. OneRow'
    <2>1. Calm' => Calm
      BY <1>0, <1>1 DEF Calm, Q!DecidedTwice
    <2>2. \A r : Held(r)' <=> Held(r)
      BY <1>0 DEF Held
    <2>3. \A e \in Deciders : decider'[e].pc = "releaseKey" => decider'[e] = decider[e]
      OBVIOUS
    <2> QED
      BY <1>0, <1>2, <2>1, <2>2, <2>3 DEF IPedidos, OneRow
  <1> QED
    BY <1>3, <1>4, <1>5, <1>6, <1>7, <1>8, <1>9, <1>10 DEF IPedidos

(* The read model shows a request that waits: the ledger has it.            *)
LEMMA GetByCodigoInv ==
    ASSUME IPedidos, NEW d \in Deciders, Q!GetByCodigo(d) PROVE IPedidos'
  <1> PICK r \in Requests, aprovar \in BOOLEAN :
        /\ Q!Status(projected, r) = "pendente"
        /\ decider' = [decider EXCEPT ![d] =
              [pc |-> "load", sol |-> r, aprovar |-> aprovar, loaded |-> 0]]
    BY DEF Q!GetByCodigo
  <1> DEFINE new == [pc |-> "load", sol |-> r, aprovar |-> aprovar, loaded |-> 0]
  <1>1. new \in Busy /\ new.pc = "load" /\ new.sol = r /\ new.loaded = 0
    BY DEF Busy
  <1>2. decider' = [decider EXCEPT ![d] = new]
    OBVIOUS
  <1> HIDE DEF new
  <1>3. /\ decider' \in [Deciders -> {Q!Idle} \cup Busy] /\ decider'[d] = new
        /\ \A e \in Deciders \ {d} : decider'[e] = decider[e]
    BY <1>1, <1>2, DeciderTypes DEF IPedidos
  <1>4. Made(r) /\ 0 <= Len(log)
    <2>1. projected \in Nat /\ projected <= Len(log) /\ DOMAIN log = 1..Len(log)
          /\ Len(log) \in Nat
      BY DEF IPedidos, TiposPedidos
    <2>2. \E i \in 1..projected : log[i].sol = r
      BY <2>1, PrefixStatus DEF IPedidos
    <2> QED
      BY <2>1, <2>2 DEF Made
  <1>5. /\ UNCHANGED <<Q!requests, log, projected, applied, docs, failed>>
        /\ decider[d].pc = "idle"
    BY DEF Q!GetByCodigo
  <1>6. applied' \subseteq Requests /\ docs' \subseteq docs
    BY <1>5 DEF IPedidos, TiposPedidos
  <1> QED
    BY <1>1, <1>3, <1>4, <1>5, <1>6, DecisionAside DEF Q!Works

(* It reads all there is in the ledger.                                     *)
LEMMA LoadInv ==
    ASSUME IPedidos, NEW d \in Deciders, Q!Load(d) PROVE IPedidos'
  <1>1. /\ UNCHANGED <<Q!requests, log, projected, applied, docs, failed>>
        /\ decider[d].pc = "load"
    BY DEF Q!Load
  <1>2. decider[d] \in Busy /\ Made(decider[d].sol)
    BY <1>1, DeciderTypes DEF IPedidos, Seen
  <1> DEFINE new == [pc |-> IF decider[d].aprovar THEN "apply" ELSE "decide",
                     sol |-> decider[d].sol, aprovar |-> decider[d].aprovar,
                     loaded |-> Len(log)]
  <1>3. Len(log) \in Nat
    BY DEF IPedidos, TiposPedidos
  <1>4. new \in Busy
    BY <1>2, <1>3 DEF Busy
  <1>5. decider' = [decider EXCEPT ![d] = new]
    <2>1. decider' = [decider EXCEPT ![d] = [[decider[d] EXCEPT !.loaded = Len(log)]
                EXCEPT !.pc = IF decider[d].aprovar THEN "apply" ELSE "decide"]]
      BY DEF Q!Load, IPedidos, TiposPedidos
    <2> DEFINE read == [decider[d] EXCEPT !.loaded = Len(log)]
    <2> DEFINE step == IF decider[d].aprovar THEN "apply" ELSE "decide"
    <2>a. read = [pc |-> decider[d].pc, sol |-> decider[d].sol,
                  aprovar |-> decider[d].aprovar, loaded |-> Len(log)]
      BY <1>2 DEF Busy
    <2>b. [read EXCEPT !.pc = step] = [pc |-> step, sol |-> decider[d].sol,
                  aprovar |-> decider[d].aprovar, loaded |-> Len(log)]
      <3> HIDE DEF step, read
      <3> QED
        BY <2>a
    <2>2. [[decider[d] EXCEPT !.loaded = Len(log)]
                EXCEPT !.pc = IF decider[d].aprovar THEN "apply" ELSE "decide"] = new
      BY <2>b
    <2> QED
      BY <2>1, <2>2
  <1>6. /\ new.pc \in {"apply", "decide"} /\ new.sol = decider[d].sol /\ new.loaded = Len(log)
        /\ new.pc = "decide" => ~new.aprovar
    BY <1>2 DEF Busy
  <1> HIDE DEF new
  <1>7. /\ decider' \in [Deciders -> {Q!Idle} \cup Busy] /\ decider'[d] = new
        /\ \A e \in Deciders \ {d} : decider'[e] = decider[e]
    BY <1>4, <1>5, DeciderTypes DEF IPedidos
  <1>8. applied' \subseteq Requests /\ docs' \subseteq docs /\ Len(log) <= Len(log)
    BY <1>1, <1>3 DEF IPedidos, TiposPedidos
  <1> QED
    BY <1>1, <1>2, <1>6, <1>7, <1>8, DecisionAside DEF Q!Works

(* The datum is changed, or the handler answers.                            *)
LEMMA AplicarInv ==
    ASSUME IPedidos, NEW d \in Deciders, Q!Aplicar(d) PROVE IPedidos'
  <1>1. UNCHANGED <<Q!requests, log, projected, docs>> /\ decider[d].pc = "apply"
    BY DEF Q!Aplicar
  <1>2. decider[d] \in Busy /\ Made(decider[d].sol) /\ decider[d].loaded <= Len(log)
        /\ decider[d].sol \in Requests
    BY <1>1, DeciderTypes DEF IPedidos, Seen, Busy
  <1>3. CASE Q!Works /\ applied' = applied \cup {decider[d].sol}
             /\ decider' = [decider EXCEPT ![d].pc = "decide"]
    <2>1. /\ decider' \in [Deciders -> {Q!Idle} \cup Busy]
          /\ decider'[d].pc = "decide" /\ decider'[d].sol = decider[d].sol
          /\ decider'[d].loaded = decider[d].loaded
          /\ \A e \in Deciders \ {d} : decider'[e] = decider[e]
      BY <1>2, <1>3, DeciderTypes DEF IPedidos
    <2>2. applied' \subseteq Requests /\ applied \subseteq applied' /\ docs' \subseteq docs
          /\ decider[d].sol \in applied'
      BY <1>1, <1>2, <1>3 DEF IPedidos, TiposPedidos
    <2> QED
      BY <1>1, <1>2, <1>3, <2>1, <2>2, DecisionAside
  <1>4. CASE Q!Fails("apply") /\ UNCHANGED applied /\ decider' = [decider EXCEPT ![d] = Q!Idle]
    <2>1. /\ decider' \in [Deciders -> {Q!Idle} \cup Busy] /\ decider'[d] = Q!Idle
          /\ \A e \in Deciders \ {d} : decider'[e] = decider[e]
      BY <1>4, DeciderTypes DEF IPedidos
    <2>2. applied' \subseteq Requests /\ docs' \subseteq docs /\ Q!Idle.pc = "idle"
          /\ "apply" \in Q!Kinds
      BY <1>1, <1>4 DEF IPedidos, TiposPedidos, Q!Idle, Q!Kinds
    <2> QED
      BY <1>1, <1>4, <2>1, <2>2, DecisionAside
  <1> QED
    BY <1>3, <1>4 DEF Q!Aplicar, Q!AplicarOuFalhar

(* The document of a decided request goes.                                  *)
LEMMA DeleteDocumentInv ==
    ASSUME IPedidos, NEW d \in Deciders, Q!DeleteDocument(d) PROVE IPedidos'
  <1>1. /\ UNCHANGED <<Q!requests, log, projected, applied>> /\ decider[d].pc = "delete"
        /\ decider' = [decider EXCEPT ![d] = Q!Idle] /\ docs' \subseteq docs
        /\ docs \ docs' \subseteq {decider[d].sol}
        /\ Q!Works \/ (\E kind \in Q!Kinds : Q!Fails(kind))
    BY DEF Q!DeleteDocument, Q!Kinds
  <1>2. /\ decider' \in [Deciders -> {Q!Idle} \cup Busy] /\ decider'[d] = Q!Idle
        /\ \A e \in Deciders \ {d} : decider'[e] = decider[e]
    BY <1>1, DeciderTypes DEF IPedidos
  <1>3. Ended(decider[d].sol) /\ Q!Idle.pc = "idle" /\ applied' \subseteq Requests
    BY <1>1 DEF IPedidos, Documents, Q!Idle, TiposPedidos
  <1> QED
    BY <1>1, <1>2, <1>3, DecisionAside

(* The verdict is in the ledger.  It is the second of its request only if   *)
(* the first came after the request was read.                               *)
LEMMA VerdictInv ==
    ASSUME IPedidos, NEW d \in Deciders, decider[d].pc = "decide", Q!PodeDecidir(d),
           Q!AppendVerdict(d), Q!Works \/ Q!Fails("reply"),
           UNCHANGED <<Q!requests, projected, applied, docs>>,
           \/ decider' = [decider EXCEPT ![d].pc = "releaseKey"]
           \/ Q!Fails("reply") /\ decider' = [decider EXCEPT ![d] = Q!Idle]
    PROVE  IPedidos'
  <1> DEFINE s == decider[d].sol
  <1> DEFINE e == Q!Event(Q!Verdict(d), s, decider[d].loaded)
  <1>0. decider[d] \in Busy /\ s \in Requests /\ decider[d].loaded \in Nat /\ Made(s)
        /\ decider[d].loaded <= Len(log)
    BY DeciderTypes DEF IPedidos, Seen, Busy
  <1>1. /\ e \in Registo /\ e.sol = s /\ e.type = Q!Verdict(d) /\ e.basis = decider[d].loaded
        /\ e.type \in Q!Decided /\ log' = Append(log, e) /\ e.type # "Criada"
        /\ e.type = "Aprovada" => decider[d].aprovar
    BY <1>0 DEF Q!Event, Registo, Q!Decided, Q!Verdict, Q!AppendVerdict
  <1> HIDE DEF e
  <1>2. /\ log' \in Seq(Registo) /\ Len(log') = Len(log) + 1 /\ Len(log) \in Nat
        /\ DOMAIN log' = 1..(Len(log) + 1) /\ DOMAIN log = 1..Len(log)
        /\ \A i \in 1..Len(log) : log'[i] = log[i]
        /\ log'[Len(log) + 1] = e
        /\ \A q : Made(q)' <=> Made(q) \/ q = s
        /\ \A q : Ended(q)' <=> Ended(q) \/ q = s
        /\ Q!DecidedTwice => Q!DecidedTwice'
        /\ Ended(s) => Q!DecidedTwice'
    BY <1>1, OneMore DEF IPedidos
  <1>3. failed \subseteq failed' /\ failed' \subseteq Q!Kinds
    BY StillFailed DEF IPedidos, Q!Kinds
  <1>4. /\ decider' \in [Deciders -> {Q!Idle} \cup Busy]
        /\ \A f \in Deciders \ {d} : decider'[f] = decider[f]
        /\ \/ decider'[d].pc = "idle" /\ "reply" \in failed'
           \/ decider'[d].pc = "releaseKey" /\ decider'[d].sol = s
              /\ decider'[d].loaded = decider[d].loaded
    BY <1>0, DeciderTypes DEF IPedidos, Q!Idle, Q!Fails
  <1>5. UNCHANGED <<guard, creator, projected, applied, docs>>
    BY DEF Q!requests
  <1> HIDE DEF s
  <1>6. TiposPedidos'
    BY <1>2, <1>3, <1>4, <1>5 DEF IPedidos, TiposPedidos
  <1>7. Seen'
    <2>1. \A f \in Deciders : decider[f].pc # "idle" => decider[f].loaded \in Nat
      BY DEF IPedidos, TiposPedidos, Q!Idle, Busy
    <2> QED
      BY <1>0, <1>2, <1>4, <2>1 DEF IPedidos, Seen
  <1>8. NoneYet'
    BY <1>0, <1>2, <1>5 DEF IPedidos, NoneYet
  <1>9. Applied'
    <2>1. e.type = "Aprovada" => e.sol \in applied
      BY <1>1 DEF IPedidos, Applied, s
    <2> QED
      BY <1>2, <1>4, <1>5, <2>1 DEF IPedidos, Applied
  <1>10. Q!DecidedOnce'
    <2>1. \A i \in 1..decider[d].loaded : ~(log[i].sol = s /\ log[i].type \in Q!Decided)
      BY <1>0, PrefixStatus DEF Q!PodeDecidir, IPedidos, s
    <2>2. ASSUME NEW i \in 1..Len(log), log[i].type \in Q!Decided, log[i].sol = s
          PROVE  e.basis < i
      BY <1>0, <1>1, <2>1, <2>2
    <2> QED
      BY <1>1, <1>2, <2>2 DEF IPedidos, Q!DecidedOnce
  <1>11. Documents'
    BY <1>2, <1>3, <1>4, <1>5 DEF IPedidos, Documents
  <1>12. KeyFreed'
    BY <1>2, <1>3, <1>4, <1>5 DEF IPedidos, KeyFreed
  <1>13. OneRow'
    <2>1. Calm' => Calm /\ ~Ended(s) /\ decider'[d].pc = "releaseKey"
      BY <1>2, <1>3, <1>4 DEF Calm
    <2>2. \A q : Held(q)' <=> Held(q)
      BY <1>5 DEF Held
    <2>3. \A f \in Deciders : decider[f].pc = "releaseKey" => Ended(decider[f].sol)
      BY DEF IPedidos, Documents
    <2> QED
      BY <1>0, <1>2, <1>4, <1>5, <2>1, <2>2, <2>3 DEF IPedidos, OneRow
  <1> QED
    BY <1>6, <1>7, <1>8, <1>9, <1>10, <1>11, <1>12, <1>13 DEF IPedidos

(* The decision is saved, or the handler answers.                           *)
LEMMA PedidoDecideInv ==
    ASSUME IPedidos, NEW d \in Deciders, Q!Decide(d) PROVE IPedidos'
  <1>1. UNCHANGED <<Q!requests, projected, applied, docs>> /\ decider[d].pc = "decide"
    BY DEF Q!Decide
  <1>2. CASE UNCHANGED log /\ decider' = [decider EXCEPT ![d] = Q!Idle]
             /\ (Q!Works \/ Q!Fails("save"))
    <2>1. /\ decider' \in [Deciders -> {Q!Idle} \cup Busy] /\ decider'[d] = Q!Idle
          /\ \A e \in Deciders \ {d} : decider'[e] = decider[e]
      BY <1>2, DeciderTypes DEF IPedidos
    <2>2. applied' \subseteq Requests /\ docs' \subseteq docs /\ Q!Idle.pc = "idle"
          /\ "save" \in Q!Kinds
      BY <1>1 DEF IPedidos, TiposPedidos, Q!Idle, Q!Kinds
    <2> QED
      BY <1>1, <1>2, <2>1, <2>2, DecisionAside
  <1> QED
    BY <1>1, <1>2, VerdictInv DEF Q!Decide, Q!Answer

(* The key is freed: the only active row was that of the decided request.   *)
LEMMA ReleaseKeyInv ==
    ASSUME IPedidos, NEW d \in Deciders, Q!ReleaseKey(d) PROVE IPedidos'
  <1>1. /\ UNCHANGED <<creator, log, projected, applied, docs>>
        /\ decider[d].pc = "releaseKey"
        /\ \/ guard' = [r \in Requests |-> Q!Released(guard[r])]
           \/ guard' = guard /\ "release" \in failed'
        /\ Q!Works \/ (\E kind \in Q!Kinds : Q!Fails(kind))
    BY DEF Q!ReleaseKey, Q!Kinds, Q!Fails
  <1>2. decider[d] \in Busy /\ decider[d].sol \in Requests /\ Made(decider[d].sol)
        /\ Ended(decider[d].sol)
    BY <1>1, DeciderTypes DEF IPedidos, Seen, Busy, Documents
  <1>3. /\ decider' \in [Deciders -> {Q!Idle} \cup Busy]
        /\ decider'[d].pc = "delete" /\ decider'[d].sol = decider[d].sol
        /\ decider'[d].loaded = decider[d].loaded
        /\ \A e \in Deciders \ {d} : decider'[e] = decider[e]
    BY <1>1, <1>2, DeciderTypes DEF Q!ReleaseKey, IPedidos
  <1>4. failed \subseteq failed' /\ failed' \subseteq Q!Kinds
    BY <1>1, StillFailed DEF IPedidos
  <1>5. /\ guard' \in [Requests -> {"none", "reserved", "consumed", "released", "expired"}]
        /\ \A r \in Requests : guard'[r] \in Q!Active => guard'[r] = guard[r]
        /\ \A r \in Requests : guard[r] \notin Q!Active => guard'[r] = guard[r]
        /\ guard' = guard \/ (\A r \in Requests : guard'[r] \notin Q!Active)
    BY <1>1 DEF IPedidos, TiposPedidos, Q!Released, Q!Active
  <1>6. \A r : (Made(r)' <=> Made(r)) /\ (Ended(r)' <=> Ended(r))
    BY <1>1 DEF Made, Ended
  <1>7. TiposPedidos'
    BY <1>1, <1>3, <1>4, <1>5 DEF IPedidos, TiposPedidos
  <1>8. Seen' /\ NoneYet' /\ Applied' /\ Q!DecidedOnce'
    BY <1>1, <1>2, <1>3, <1>6 DEF IPedidos, Seen, NoneYet, Applied, Q!DecidedOnce
  <1>9. Documents'
    BY <1>1, <1>2, <1>3, <1>4, <1>6 DEF IPedidos, Documents
  <1>10. KeyFreed'
    <2>1. "release" \in failed' \/ \A r \in Requests : guard'[r] \notin Q!Active
      BY <1>1 DEF Q!Released, Q!Active
    <2> QED
      BY <2>1 DEF KeyFreed
  <1>11. OneRow'
    <2> SUFFICES ASSUME Calm' PROVE OneRow'
      BY DEF OneRow
    <2>1. Calm
      BY <1>1, <1>4 DEF Calm, Q!DecidedTwice
    <2>2. \A r \in Requests : guard[r] \in Q!Active => r = decider[d].sol
      BY <1>1, <1>2, <2>1 DEF IPedidos, OneRow, Held, Q!Active
    <2>3. \A r \in Requests : Held(r) => r = decider[d].sol
      BY <2>2 DEF Held, Q!Active
    <2>4. \A e \in Deciders \ {d} : decider'[e].pc # "releaseKey"
      <3> SUFFICES ASSUME NEW e \in Deciders \ {d}, decider[e].pc = "releaseKey" PROVE FALSE
        BY <1>3
      <3>1. decider[e].sol \in Requests /\ Held(decider[e].sol)
        BY <2>1 DEF IPedidos, OneRow, TiposPedidos, Q!Idle, Busy
      <3> QED
        BY <1>1, <2>1, <2>3, <3>1 DEF IPedidos, OneRow
    <2>5. \A r \in Requests : ~(Made(r) /\ ~Ended(r))
      BY <1>2, <2>1, <2>3 DEF IPedidos, OneRow
    <2>6. \A r \in Requests : creator[r] \in {"check", "upload", "save"} => FALSE
      <3> SUFFICES ASSUME NEW r \in Requests, creator[r] \in {"check", "upload", "save"}
                   PROVE  FALSE
        OBVIOUS
      <3>1. guard[r] \in Q!Active /\ ~Made(r)
        BY <2>1 DEF IPedidos, OneRow, NoneYet, Q!Active
      <3> QED
        BY <1>2, <2>2, <3>1
    <2>7. \A r \in Requests : creator[r] = "release" => ~Made(r)
      BY <2>1 DEF IPedidos, OneRow
    <2>8. \A q, r \in Requests : guard'[q] \in Q!Active /\ guard'[r] \in Q!Active => q = r
      BY <1>5, <2>2
    <2> QED
      BY <1>1, <1>3, <1>6, <2>4, <2>5, <2>6, <2>7, <2>8 DEF OneRow
  <1> QED
    BY <1>7, <1>8, <1>9, <1>10, <1>11 DEF IPedidos

-----------------------------------------------------------------------------
(* The whole.                                                               *)

(* The read model absorbs an event; nothing in the invariant reads it.      *)
LEMMA ProjectInv == ASSUME IPedidos, Q!Project PROVE IPedidos'
  <1>1. UNCHANGED <<guard, creator, decider, log, applied, docs, failed>>
        /\ projected' = projected + 1 /\ projected < Len(log)
    BY DEF Q!Project, Q!Projectable, Q!requests
  <1>2. TiposPedidos'
    BY <1>1 DEF IPedidos, TiposPedidos
  <1>3. Seen' /\ NoneYet' /\ Applied' /\ Q!DecidedOnce' /\ Documents' /\ KeyFreed'
    BY <1>1 DEF IPedidos, Seen, NoneYet, Applied, Q!DecidedOnce, Documents, KeyFreed, Made, Ended
  <1>4. OneRow'
    BY <1>1 DEF IPedidos, OneRow, Calm, Q!DecidedTwice, Held, Made, Ended
  <1> QED
    BY <1>2, <1>3, <1>4 DEF IPedidos

(* A crash ends every handler; the tables stay.                             *)
LEMMA CrashInv == ASSUME IPedidos, Q!Crash PROVE IPedidos'
  <1>1. /\ UNCHANGED <<guard, log, projected, applied, docs>>
        /\ creator' = [r \in Requests |-> IF creator[r] = "new" THEN "new" ELSE "over"]
        /\ decider' = [d \in Deciders |-> Q!Idle]
        /\ "crash" \in failed' /\ failed \subseteq failed'
        /\ failed' \subseteq Q!Kinds
    BY DEF Q!Crash, Q!Fails, Q!Kinds, IPedidos, TiposPedidos
  <1>2. \A d \in Deciders : decider'[d].pc = "idle"
    BY <1>1 DEF Q!Idle
  <1>3. TiposPedidos'
    BY <1>1 DEF IPedidos, TiposPedidos, Steps
  <1>4. KeyFreed' /\ OneRow'
    BY <1>1 DEF KeyFreed, OneRow, Calm
  <1>5. Seen' /\ Applied' /\ Q!DecidedOnce'
    BY <1>1, <1>2 DEF IPedidos, Seen, Applied, Q!DecidedOnce
  <1>6. NoneYet'
    BY <1>1 DEF IPedidos, NoneYet, Made
  <1>7. Documents'
    BY <1>1, <1>2 DEF IPedidos, Documents, Made, Ended
  <1> QED
    BY <1>3, <1>4, <1>5, <1>6, <1>7 DEF IPedidos

(* It holds at the beginning.                                               *)
LEMMA PedidosInit == ASSUME Q!Init PROVE IPedidos
  <1>1. /\ \A r \in Requests : guard[r] = "none" /\ creator[r] = "new"
        /\ \A d \in Deciders : decider[d].pc = "idle"
        /\ log = <<>> /\ Len(log) = 0 /\ DOMAIN log = {}
    BY DEF Q!Init, Q!Idle
  <1>2. TiposPedidos
    BY <1>1 DEF Q!Init, TiposPedidos, Steps
  <1>3. Seen /\ NoneYet /\ Applied /\ Q!DecidedOnce /\ Documents /\ KeyFreed
    BY <1>1 DEF Seen, NoneYet, Applied, Q!DecidedOnce, Documents, KeyFreed, Made, Ended
  <1>4. OneRow
    BY <1>1 DEF OneRow, Held, Made, Q!Active
  <1> QED
    BY <1>2, <1>3, <1>4 DEF IPedidos

(* Every step preserves it.                                                 *)
LEMMA PedidosNext == ASSUME IPedidos, [Q!Next]_Q!vars PROVE IPedidos'
  <1>1. ASSUME NEW r \in Requests, Q!Post(r) PROVE IPedidos'
    BY <1>1, PedidoReserveInv, UnsavedInv, SaveRequestInv, EndPostInv DEF Q!Post
  <1>2. ASSUME NEW d \in Deciders, Q!Decision(d) PROVE IPedidos'
    BY <1>2, GetByCodigoInv, LoadInv, AplicarInv, PedidoDecideInv, ReleaseKeyInv, DeleteDocumentInv
    DEF Q!Decision
  <1>3. CASE UNCHANGED Q!vars
    <2>1. UNCHANGED <<guard, creator, decider, log, projected, applied, docs, failed>>
      BY <1>3 DEF Q!vars, Q!requests
    <2>2. TiposPedidos' /\ Seen' /\ NoneYet' /\ Applied' /\ Q!DecidedOnce' /\ Documents' /\ KeyFreed'
      BY <2>1 DEF IPedidos, TiposPedidos, Seen, NoneYet, Applied, Q!DecidedOnce, Documents, KeyFreed,
                  Made, Ended
    <2>3. OneRow'
      BY <2>1 DEF IPedidos, OneRow, Calm, Q!DecidedTwice, Held, Made, Ended
    <2> QED
      BY <2>2, <2>3 DEF IPedidos
  <1> QED
    BY <1>1, <1>2, <1>3, ProjectInv, CrashInv DEF Q!Next

(* The cardinality that Solicitacoes speaks of is that of FiniteSets.       *)
LEMMA PedidosCardinality ==
    ASSUME NEW Z
    PROVE  Q!Cardinality(Z) = Cardinality(Z)
  BY DEF Q!Cardinality, Cardinality

(* What the invariant says of the properties that are checked.              *)
LEMMA PedidosImplies ==
    ASSUME IPedidos
    PROVE  Q!TypeOK /\ Q!AtMostOnePending /\ Q!PendingHasDocument /\ Q!DecidedFreesTheKey
           /\ Q!DecidedOnce /\ Q!ApprovedIsApplied
  <1>1. Q!TypeOK
    <2>1. \A d \in Deciders : decider[d].pc \in
             {"idle", "load", "apply", "decide", "releaseKey", "delete"}
      BY DEF IPedidos, TiposPedidos, Q!Idle, Busy
    <2> QED
      BY <2>1 DEF IPedidos, TiposPedidos, Q!TypeOK, Registo, Steps
  <1>2. Q!AtMostOnePending
    <2> SUFFICES ASSUME Calm PROVE Q!Cardinality(Q!Pending) <= 1
      BY DEF Q!AtMostOnePending, Calm
    <2>1. \A r \in Q!Pending : r \in Requests /\ guard[r] \in Q!Active
      BY LedgerStatus DEF IPedidos, Q!Pending, OneRow, Held, Q!Active
    <2>2. \A q, r \in Q!Pending : q = r
      BY <2>1 DEF IPedidos, OneRow
    <2>3. CASE Q!Pending = {}
      BY <2>3, FS_EmptySet, PedidosCardinality
    <2>4. CASE Q!Pending # {}
      <3>1. PICK r \in Q!Pending : TRUE
        BY <2>4
      <3>2. Q!Pending = {r}
        BY <2>2, <3>1
      <3>3. Cardinality({r}) = 1 /\ Q!Cardinality({r}) = Cardinality({r})
        BY FS_Singleton, PedidosCardinality
      <3> QED
        BY <3>2, <3>3
    <2> QED
      BY <2>3, <2>4
  <1>3. Q!PendingHasDocument
    BY LedgerStatus DEF IPedidos, Documents, Q!Pending, Q!PendingHasDocument
  <1>4. Q!DecidedFreesTheKey
    BY LedgerStatus DEF IPedidos, KeyFreed, Q!DecidedFreesTheKey, Q!Active
  <1>5. Q!ApprovedIsApplied
    <2>1. \A e \in Q!ToSet(log) : e.type = "Aprovada" => e.sol \in applied
      BY DEF IPedidos, Applied, Q!ToSet
    <2> QED
      BY <2>1 DEF Q!ApprovedIsApplied, Q!Happened
  <1> QED
    BY <1>1, <1>2, <1>3, <1>4, <1>5 DEF IPedidos

(* The invariant of the module.                                             *)
THEOREM InvariantHolds == Q!Spec => []IPedidos
  <1>1. Q!Init => IPedidos
    BY PedidosInit
  <1>2. IPedidos /\ [Q!Next]_Q!vars => IPedidos'
    BY PedidosNext
  <1> QED
    BY <1>1, <1>2, PTL DEF Q!Spec

-----------------------------------------------------------------------------
(* Extra services.  Once as many requests wait as may, whoever could reserve *)
(* the guard would find one, and nobody who has it is yet to save.          *)

S == INSTANCE ServicoExtra

ServicoHipoteses ==
    Operadores \cap {"livre", "consumida", S!Sobra} = {} /\ "nenhuma" \notin Inscricoes

Passos == {"livre", "reservar", "gravar", "consumir", "cancelar"}
EventosInscricao == {"Criada", "AprovadaPendentePagamento", "Vinculada", "Reprovada",
                     "CanceladaAntesDaVinculacao", "Cancelada"}
EventosServico == {S!Criado(TRUE), S!Criado(FALSE), S!Taxa(TRUE), S!Taxa(FALSE), S!Desativado,
                   S!Reativado, S!Deletado}

TiposServico ==
    /\ servico \in Seq(EventosServico) /\ servicoLido \in Nat
    /\ 1 <= servicoLido /\ servicoLido <= Len(servico)
    /\ inscricao \in [Inscricoes -> Seq(EventosInscricao)]
    /\ inscricaoLida \in [Inscricoes -> Nat]
    /\ \A s \in Inscricoes : inscricaoLida[s] <= Len(inscricao[s])
    /\ vaga \in Operadores \cup {"livre", "consumida", S!Sobra}
    /\ inscritas \in [Inscricoes -> {"nenhuma", "aberta", "cancelada", "paga"}]
    /\ operador \in [Operadores -> [passo : Passos, s : Inscricoes \cup {"nenhuma"},
                                    evento : EventosInscricao \cup {"nenhum"}]]

\* A request begins with its creation, and is created once.
Pendente(s) == inscricao[s] # <<>> /\ inscricao[s][Len(inscricao[s])] = "Criada"
Cria(h) == operador[h].evento = "Criada"
CriadaUmaVez ==
    /\ \A s \in Inscricoes : \A i \in DOMAIN inscricao[s] : inscricao[s][i] = "Criada" <=> i = 1
    /\ \A h \in Operadores :
          /\ operador[h].passo = "livre" => operador[h].evento = "nenhum"
          /\ operador[h].passo # "livre" => operador[h].s \in Inscricoes
          /\ operador[h].passo # "livre" /\ ~Cria(h) =>
                /\ inscricao[operador[h].s] # <<>> /\ operador[h].evento # "nenhum"
                /\ operador[h].passo \in {"gravar", "cancelar"}
          /\ Cria(h) => operador[h].passo \in {"reservar", "gravar", "consumir"}
          /\ Cria(h) /\ operador[h].passo # "consumir" =>
                /\ inscricao[operador[h].s] = <<>>
                /\ \A g \in Operadores : operador[g].s = operador[h].s => g = h

\* The guard and its holder say the same.
VagaOK == \A h \in Operadores :
    vaga = h <=> Cria(h) /\ operador[h].passo \in {"gravar", "consumir"}

\* The requests that wait: one, and one more for each time the guard was freed too early.
Pendentes == {s \in Inscricoes : Pendente(s)}
ContagemOK ==
    /\ expostas \in Nat /\ IsFiniteSet(Pendentes) /\ Cardinality(Pendentes) \in Nat
    /\ Cardinality(Pendentes) <= 1 + expostas
Lotada == Cardinality(Pendentes) = 1 + expostas

Vista == \E s \in Pendentes : inscricaoLida[s] > 0
EsperaOK == Lotada =>
    /\ vaga = "livre" => Vista
    /\ \A h \in Operadores : vaga = "livre" => operador[h].passo # "reservar"
    /\ \A h \in Operadores : ~(operador[h].passo = "gravar" /\ Cria(h))

IServico == TiposServico /\ CriadaUmaVez /\ VagaOK /\ ContagemOK /\ EsperaOK

Ops == [passo : Passos, s : Inscricoes \cup {"nenhuma"}, evento : EventosInscricao \cup {"nenhum"}]

(* What a request waits for, by its events.                                 *)
LEMMA PendenteStatus ==
    ASSUME TiposServico, NEW s \in Inscricoes
    PROVE  Pendente(s) <=> S!Status(s) = "pendente"
  BY DEF TiposServico, Pendente, S!Status, S!Estado, S!Last

(* What the status tells of the events.                                     *)
LEMMA StatusFacts ==
    ASSUME TiposServico, CriadaUmaVez, NEW s \in Inscricoes
    PROVE  /\ S!Status(s) \in {"pendente", "aprovada_pendente_pagamento", "vinculada"}
                => inscricao[s] # <<>>
           /\ Pendente(s) => Len(inscricao[s]) = 1 /\ inscricao[s][1] = "Criada"
  <1>1. inscricao[s] = <<>> => S!Status(s) = "nenhum"
    BY DEF S!Status, S!Estado
  <1>2. ASSUME Pendente(s) PROVE Len(inscricao[s]) = 1 /\ inscricao[s][1] = "Criada"
    <2>1. Len(inscricao[s]) \in DOMAIN inscricao[s]
      BY <1>2 DEF TiposServico, Pendente
    <2> QED
      BY <1>2, <2>1 DEF CriadaUmaVez, Pendente
  <1> QED
    BY <1>1, <1>2

(* A request that waits and is in the read model is found there.            *)
LEMMA PendenteAtiva ==
    ASSUME TiposServico, CriadaUmaVez, Vista PROVE S!ExisteAtiva
  <1>0. PICK s \in Inscricoes : Pendente(s) /\ inscricaoLida[s] > 0
    BY DEF Vista, Pendentes
  <1>1. Len(inscricao[s]) = 1 /\ inscricao[s][1] = "Criada" /\ inscricaoLida[s] = 1
    <2>1. Len(inscricao[s]) = 1 /\ inscricao[s][1] = "Criada"
      BY <1>0, StatusFacts
    <2>2. inscricaoLida[s] \in Nat /\ inscricaoLida[s] <= Len(inscricao[s])
      BY DEF TiposServico
    <2> QED
      BY <1>0, <2>1, <2>2
  <1>2. SubSeq(inscricao[s], 1, 1) # <<>> /\ Len(SubSeq(inscricao[s], 1, 1)) = 1
        /\ SubSeq(inscricao[s], 1, 1)[1] = "Criada"
    BY <1>1 DEF TiposServico
  <1>3. S!LinhaInscricao(s) = "pendente"
    BY <1>1, <1>2 DEF S!LinhaInscricao, S!Estado, S!Last
  <1> QED
    BY <1>3 DEF S!ExisteAtiva, S!Ativos

(* While no request gets an event, as many wait.                            *)
LEMMA MesmasPendentes ==
    ASSUME ContagemOK, UNCHANGED <<inscricao, expostas>>
    PROVE  ContagemOK' /\ (Lotada' <=> Lotada) /\ Pendentes' = Pendentes
  <1>1. Pendentes' = Pendentes
    BY DEF Pendentes, Pendente
  <1> QED
    BY <1>1 DEF ContagemOK, Lotada

(* The guard is free: a request that waits is in sight and nobody has       *)
(* looked before, or one more may wait.                                     *)
LEMMA SoltaFacts ==
    ASSUME S!Solta, TiposServico', expostas \in Nat, IsFiniteSet(Pendentes'), Cardinality(Pendentes') \in Nat,
           Cardinality(Pendentes') <= 1 + expostas
    PROVE  /\ ContagemOK' /\ vaga' = "livre"
           /\ Lotada' => Vista' /\ \A g \in Operadores : operador'[g].passo # "reservar"
  <1>1. vaga' = "livre" /\ expostas' = expostas + (IF S!Exposta' THEN 1 ELSE 0)
    BY DEF S!Solta
  <1>2. CASE S!Exposta'
    <2>1. expostas' = expostas + 1
      BY <1>1, <1>2
    <2>2. ContagemOK' /\ ~Lotada'
      BY <2>1 DEF ContagemOK, Lotada
    <2> QED
      BY <1>1, <2>2
  <1>3. CASE ~S!Exposta'
    <2>1. expostas' = expostas
      BY <1>1, <1>3
    <2>2. ContagemOK'
      BY <2>1 DEF ContagemOK
    <2>3. Lotada' => Pendentes' # {}
      <3>1. Cardinality({}) = 0 /\ 1 + expostas # 0
        BY FS_EmptySet
      <3> QED
        BY <2>1, <3>1 DEF Lotada
    <2>4. ASSUME NEW s \in Pendentes' PROVE inscricaoLida'[s] > 0
      <3>1. inscricaoLida'[s] # 0 /\ s \in Inscricoes
        BY <1>3 DEF S!Exposta, Pendentes, Pendente
      <3> QED
        BY <3>1 DEF TiposServico
    <2> QED
      BY <1>1, <1>3, <2>2, <2>3, <2>4 DEF S!Exposta, Vista
  <1> QED
    BY <1>2, <1>3

(* It holds at the beginning.                                               *)
LEMMA ServicoInit == ASSUME ServicoHipoteses PROVE S!Init => IServico
  <1> SUFFICES ASSUME S!Init PROVE IServico
    OBVIOUS
  <1> USE DEF S!Init, S!Livre
  <1>1. TiposServico
    <2>1. S!Livre \in Ops
      BY DEF Ops, Passos
    <2>2. servico \in Seq(EventosServico) /\ Len(servico) = 1
      <3>1. PICK e \in {S!Criado(TRUE), S!Criado(FALSE)} : servico = <<e>>
        OBVIOUS
      <3>2. e \in EventosServico
        BY DEF EventosServico
      <3> HIDE DEF S!Init
      <3> QED
        BY <3>1, <3>2
    <2> QED
      BY <2>1, <2>2 DEF TiposServico, Ops
  <1>2. \A h \in Operadores : operador[h].passo = "livre" /\ operador[h].evento = "nenhum"
    OBVIOUS
  <1>3. CriadaUmaVez
    BY <1>2 DEF CriadaUmaVez, Cria
  <1>4. VagaOK
    BY <1>2 DEF VagaOK, Cria, ServicoHipoteses
  <1>5. ContagemOK /\ ~Lotada
    <2>1. Pendentes = {} /\ expostas = 0
      BY DEF Pendentes, Pendente
    <2>2. IsFiniteSet({}) /\ Cardinality({}) = 0
      BY FS_EmptySet
    <2> QED
      BY <2>1, <2>2 DEF ContagemOK, Lotada
  <1> QED
    BY <1>1, <1>3, <1>4, <1>5 DEF IServico, EsperaOK

(* Steps that leave the requests, the guard and the handlers alone.         *)
LEMMA ServicoAparte ==
    ASSUME IServico, UNCHANGED <<inscricao, vaga, operador, expostas>>,
           servico' \in Seq(EventosServico), servicoLido' \in Nat, 1 <= servicoLido',
           servicoLido' <= Len(servico'),
           inscricaoLida' \in [Inscricoes -> Nat],
           \A s \in Inscricoes : inscricaoLida[s] <= inscricaoLida'[s]
                                 /\ inscricaoLida'[s] <= Len(inscricao[s]),
           inscritas' \in [Inscricoes -> {"nenhuma", "aberta", "cancelada", "paga"}]
    PROVE  IServico'
  <1>1. TiposServico'
    BY DEF IServico, TiposServico
  <1>2. CriadaUmaVez' /\ VagaOK'
    BY DEF IServico, CriadaUmaVez, VagaOK, Cria
  <1>3. ContagemOK' /\ (Lotada' <=> Lotada) /\ Pendentes' = Pendentes
    BY MesmasPendentes DEF IServico
  <1>4. Vista => Vista'
    BY <1>3 DEF Vista, Pendentes, IServico, TiposServico
  <1>5. EsperaOK'
    BY <1>3, <1>4 DEF IServico, EsperaOK, Cria
  <1> QED
    BY <1>1, <1>2, <1>3, <1>5 DEF IServico

(* The service's own events, its read model, payments and obligations.      *)
LEMMA ServicoOutros ==
    ASSUME IServico,
           \/ S!AtualizarServicoExtra \/ S!DesativarServicoExtra \/ S!ReativarServicoExtra
           \/ S!DeletarServicoExtra \/ S!ProjetaServico
           \/ \E s \in Inscricoes :
                \/ S!IniciarPagamentoTaxaInscricaoServicoExtra(s) \/ S!Paga(s)
                \/ S!ProjetaInscricao(s)
                \/ \E evento \in {"anulada", "reativada"} : S!alterarObrigacaoServicoExtra(s, evento)
    PROVE  IServico'
  <1> USE DEF IServico, TiposServico
  <1>1. ASSUME NEW e \in EventosServico, S!Altera(e) PROVE IServico'
    <2>1. servico' \in Seq(EventosServico) /\ Len(servico') = Len(servico) + 1
      BY <1>1 DEF S!Altera
    <2> QED
      BY <1>1, <2>1, ServicoAparte DEF S!Altera
  <1>2. CASE \/ S!AtualizarServicoExtra \/ S!DesativarServicoExtra \/ S!ReativarServicoExtra
             \/ S!DeletarServicoExtra
    <2>1. \E e \in EventosServico : S!Altera(e)
      BY <1>2 DEF S!AtualizarServicoExtra, S!DesativarServicoExtra, S!ReativarServicoExtra,
                  S!DeletarServicoExtra, EventosServico
    <2> QED
      BY <1>1, <2>1
  <1>3. CASE S!ProjetaServico
    BY <1>3, ServicoAparte DEF S!ProjetaServico
  <1>4. ASSUME NEW s \in Inscricoes, S!ProjetaInscricao(s) PROVE IServico'
    BY <1>4, ServicoAparte DEF S!ProjetaInscricao
  <1>5. ASSUME NEW s \in Inscricoes, NEW v \in {"nenhuma", "aberta", "cancelada", "paga"},
               inscritas' = [inscritas EXCEPT ![s] = v],
               UNCHANGED <<servico, servicoLido, inscricao, inscricaoLida, vaga, operador, expostas>>
        PROVE  IServico'
    BY <1>5, ServicoAparte
  <1>6. ASSUME NEW s \in Inscricoes,
               S!IniciarPagamentoTaxaInscricaoServicoExtra(s) \/ S!Paga(s) PROVE IServico'
    BY <1>5, <1>6 DEF S!IniciarPagamentoTaxaInscricaoServicoExtra, S!Paga
  <1>7. ASSUME NEW s \in Inscricoes, NEW evento \in {"anulada", "reativada"},
               S!alterarObrigacaoServicoExtra(s, evento) PROVE IServico'
    BY <1>7, ServicoAparte DEF S!alterarObrigacaoServicoExtra
  <1> QED
    BY <1>2, <1>3, <1>4, <1>6, <1>7

(* What a step does to the handlers.                                        *)
LEMMA OperadorFacts ==
    ASSUME TiposServico, NEW h \in Operadores
    PROVE  /\ \A p \in Passos : S!Segue(h, p) =>
                /\ operador' \in [Operadores -> Ops]
                /\ operador'[h].passo = p /\ operador'[h].s = operador[h].s
                /\ operador'[h].evento = operador[h].evento
           /\ S!Acaba(h) =>
                /\ operador' \in [Operadores -> Ops]
                /\ operador'[h].passo = "livre" /\ operador'[h].s = "nenhuma"
                /\ operador'[h].evento = "nenhum"
           /\ \A p \in Passos, s \in Inscricoes, e \in EventosInscricao : S!Comeca(h, p, s, e) =>
                /\ operador' \in [Operadores -> Ops] /\ operador[h].passo = "livre"
                /\ operador'[h].passo = p /\ operador'[h].s = s /\ operador'[h].evento = e
           /\ S!Acaba(h) \/ (\E p : S!Segue(h, p)) \/ (\E p, s, e : S!Comeca(h, p, s, e)) =>
                \A g \in Operadores \ {h} : operador'[g] = operador[g]
  <1>0. operador \in [Operadores -> Ops]
    BY DEF TiposServico, Ops
  <1>1. ASSUME NEW p \in Passos, S!Segue(h, p)
        PROVE  /\ operador' \in [Operadores -> Ops]
               /\ operador'[h].passo = p /\ operador'[h].s = operador[h].s
               /\ operador'[h].evento = operador[h].evento
    BY <1>0, <1>1 DEF S!Segue, Ops
  <1>2. ASSUME S!Acaba(h)
        PROVE  /\ operador' \in [Operadores -> Ops]
               /\ operador'[h].passo = "livre" /\ operador'[h].s = "nenhuma"
               /\ operador'[h].evento = "nenhum"
    <2>1. S!Livre \in Ops
      BY DEF S!Livre, Ops, Passos
    <2>2. operador' \in [Operadores -> Ops] /\ operador'[h] = S!Livre
      BY <1>0, <1>2, <2>1 DEF S!Acaba
    <2> QED
      BY <2>2 DEF S!Livre
  <1>3. ASSUME NEW p \in Passos, NEW s \in Inscricoes, NEW e \in EventosInscricao,
               S!Comeca(h, p, s, e)
        PROVE  /\ operador' \in [Operadores -> Ops] /\ operador[h].passo = "livre"
               /\ operador'[h].passo = p /\ operador'[h].s = s /\ operador'[h].evento = e
    BY <1>0, <1>3 DEF S!Comeca, S!Livre, Ops
  <1>4. S!Acaba(h) \/ (\E p : S!Segue(h, p)) \/ (\E p, s, e : S!Comeca(h, p, s, e)) =>
                \A g \in Operadores \ {h} : operador'[g] = operador[g]
    BY <1>0 DEF S!Acaba, S!Segue, S!Comeca
  <1> QED
    BY <1>1, <1>2, <1>3, <1>4

(* A new request, of which no handler has anything yet.                     *)
LEMMA SolicitarInv ==
    ASSUME ServicoHipoteses, IServico, NEW h \in Operadores, NEW s \in Inscricoes,
           S!SolicitarServicoExtra(h, s)
    PROVE  IServico'
  <1>0. UNCHANGED <<servico, servicoLido, inscricao, inscricaoLida, vaga, inscritas>>
        /\ expostas' = expostas /\ inscricao[s] = <<>> /\ ~S!ExisteAtiva /\ S!Comeca(h, "reservar", s, "Criada")
        /\ \A g \in Operadores : operador[g].s # s
    BY DEF S!SolicitarServicoExtra
  <1>1. /\ operador' \in [Operadores -> Ops] /\ operador[h].passo = "livre"
        /\ operador'[h].passo = "reservar" /\ operador'[h].s = s /\ operador'[h].evento = "Criada"
        /\ \A g \in Operadores \ {h} : operador'[g] = operador[g]
    BY <1>0, OperadorFacts DEF IServico, Passos, EventosInscricao
  <1>2. TiposServico'
    BY <1>0, <1>1 DEF IServico, TiposServico, Ops
  <1>3. CriadaUmaVez'
    BY <1>0, <1>1 DEF IServico, CriadaUmaVez, Cria
  <1>4. VagaOK'
    BY <1>0, <1>1 DEF IServico, VagaOK, Cria, CriadaUmaVez
  <1>5. ContagemOK' /\ (Lotada' <=> Lotada) /\ (Vista' <=> Vista)
    BY <1>0, MesmasPendentes DEF IServico, Vista
  <1>6. ~Vista
    BY <1>0, PendenteAtiva DEF IServico
  <1>7. EsperaOK'
    BY <1>0, <1>1, <1>5, <1>6 DEF IServico, EsperaOK, Cria
  <1> QED
    BY <1>2, <1>3, <1>4, <1>5, <1>7 DEF IServico

(* A decision on a request that has been made.                              *)
LEMMA DecideInv ==
    ASSUME ServicoHipoteses, IServico, NEW h \in Operadores, NEW s \in Inscricoes,
           NEW de \in {"pendente", "aprovada_pendente_pagamento", "vinculada"},
           NEW passo \in {"gravar", "cancelar"}, NEW evento \in EventosInscricao \ {"Criada"},
           S!Decide(h, s, de, passo, evento)
    PROVE  IServico'
  <1>0. UNCHANGED <<servico, servicoLido, inscricao, inscricaoLida, vaga, inscritas>>
        /\ expostas' = expostas /\ inscricao[s] # <<>> /\ S!Comeca(h, passo, s, evento)
    BY StatusFacts DEF S!Decide, IServico
  <1>1. /\ operador' \in [Operadores -> Ops] /\ operador[h].passo = "livre"
        /\ operador'[h].passo = passo /\ operador'[h].s = s /\ operador'[h].evento = evento
        /\ \A g \in Operadores \ {h} : operador'[g] = operador[g]
    BY <1>0, OperadorFacts DEF IServico, Passos
  <1>2. TiposServico'
    BY <1>0, <1>1 DEF IServico, TiposServico, Ops
  <1>3. CriadaUmaVez'
    BY <1>0, <1>1 DEF IServico, CriadaUmaVez, Cria, EventosInscricao
  <1>4. VagaOK'
    BY <1>0, <1>1 DEF IServico, VagaOK, Cria, CriadaUmaVez
  <1>5. ContagemOK' /\ (Lotada' <=> Lotada) /\ (Vista' <=> Vista)
    BY <1>0, MesmasPendentes DEF IServico, Vista
  <1>6. EsperaOK'
    BY <1>0, <1>1, <1>5 DEF IServico, EsperaOK, Cria
  <1> QED
    BY <1>2, <1>3, <1>4, <1>5, <1>6 DEF IServico

(* The guard goes to a handler that looked while no request could be made.  *)
LEMMA ReserveInv ==
    ASSUME ServicoHipoteses, IServico, NEW h \in Operadores, S!Reserve(h)
    PROVE  IServico'
  <1>0. UNCHANGED <<servico, servicoLido, inscricao, inscricaoLida, inscritas, expostas>>
        /\ operador[h].passo = "reservar"
        /\ \/ vaga = "livre" /\ vaga' = h /\ S!Segue(h, "gravar")
           \/ vaga # "livre" /\ S!Acaba(h) /\ UNCHANGED vaga
    BY DEF S!Reserve
  <1>a. Cria(h)
    BY <1>0 DEF IServico, CriadaUmaVez
  <1>1. /\ operador' \in [Operadores -> Ops]
        /\ \A g \in Operadores \ {h} : operador'[g] = operador[g]
        /\ vaga = "livre" => /\ operador'[h].passo = "gravar" /\ operador'[h].s = operador[h].s
                             /\ operador'[h].evento = "Criada" /\ vaga' = h
        /\ vaga # "livre" => /\ operador'[h].passo = "livre" /\ operador'[h].s = "nenhuma"
                             /\ operador'[h].evento = "nenhum" /\ vaga' = vaga
    BY <1>0, <1>a, OperadorFacts DEF IServico, Passos, Cria
  <1>2. TiposServico'
    BY <1>0, <1>1 DEF IServico, TiposServico, Ops
  <1>3. CriadaUmaVez'
    BY <1>0, <1>a, <1>1 DEF IServico, CriadaUmaVez, Cria, ServicoHipoteses
  <1>4. VagaOK'
    BY <1>0, <1>a, <1>1 DEF IServico, VagaOK, Cria, ServicoHipoteses
  <1>5. ContagemOK' /\ (Lotada' <=> Lotada) /\ (Vista' <=> Vista)
    BY <1>0, MesmasPendentes DEF IServico, Vista
  <1>6. EsperaOK'
    BY <1>0, <1>1, <1>5 DEF IServico, EsperaOK, Cria, ServicoHipoteses
  <1> QED
    BY <1>2, <1>3, <1>4, <1>5, <1>6 DEF IServico

(* Nothing was saved by the handler that gives the guard back.              *)
LEMMA ReleaseInv ==
    ASSUME ServicoHipoteses, IServico, NEW h \in Operadores, S!Release(h)
    PROVE  IServico'
  <1>0. UNCHANGED <<servico, servicoLido, inscricao, inscricaoLida, inscritas, expostas>>
        /\ operador[h].passo = "gravar" /\ vaga = h /\ vaga' = "livre" /\ S!Acaba(h)
    BY DEF S!Release
  <1>1. /\ operador' \in [Operadores -> Ops]
        /\ \A g \in Operadores \ {h} : operador'[g] = operador[g]
        /\ operador'[h].passo = "livre" /\ operador'[h].s = "nenhuma"
        /\ operador'[h].evento = "nenhum"
    BY <1>0, OperadorFacts DEF IServico
  <1>a. Cria(h)
    BY <1>0 DEF IServico, VagaOK
  <1>2. TiposServico'
    BY <1>0, <1>1 DEF IServico, TiposServico, Ops
  <1>3. CriadaUmaVez'
    BY <1>0, <1>1 DEF IServico, CriadaUmaVez, Cria, ServicoHipoteses
  <1>4. VagaOK'
    BY <1>0, <1>1 DEF IServico, VagaOK, Cria, ServicoHipoteses
  <1>5. ContagemOK' /\ (Lotada' <=> Lotada) /\ (Vista' <=> Vista)
    BY <1>0, MesmasPendentes DEF IServico, Vista
  <1>6. EsperaOK'
    BY <1>0, <1>a, <1>5 DEF IServico, EsperaOK
  <1> QED
    BY <1>2, <1>3, <1>4, <1>5, <1>6 DEF IServico

(* The request is made while one more may wait; a decision ends one.        *)
LEMMA SaveInv ==
    ASSUME ServicoHipoteses, IServico, NEW h \in Operadores, S!SaveWithAudit(h)
    PROVE  IServico'
  <1> DEFINE s == operador[h].s
  <1> DEFINE e == operador[h].evento
  <1>0. UNCHANGED <<servico, servicoLido, inscricaoLida, inscritas>>
        /\ operador[h].passo = "gravar"
        /\ inscricao' = [inscricao EXCEPT ![s] = Append(@, e)]
        /\ \/ /\ IF e = "Criada" THEN S!Segue(h, "consumir") ELSE S!Acaba(h)
              /\ UNCHANGED <<vaga, expostas>>
           \/ e = "Criada" /\ S!Devolve(h)
    BY DEF S!SaveWithAudit
  <1>1. s \in Inscricoes /\ e \in EventosInscricao
    BY <1>0 DEF IServico, TiposServico, CriadaUmaVez, Cria
  <1>2. /\ operador' \in [Operadores -> Ops]
        /\ \A g \in Operadores \ {h} : operador'[g] = operador[g]
        /\ \/ /\ Cria(h) /\ operador'[h].passo = "consumir" /\ operador'[h].s = s
              /\ operador'[h].evento = "Criada" /\ UNCHANGED <<vaga, expostas>>
           \/ /\ operador'[h].passo = "livre" /\ operador'[h].s = "nenhuma"
              /\ operador'[h].evento = "nenhum"
              /\ ~Cria(h) => UNCHANGED <<vaga, expostas>>
              /\ Cria(h) => S!Solta \/ (vaga' = S!Sobra /\ UNCHANGED expostas)
    BY <1>0, OperadorFacts DEF IServico, Cria, Passos, S!Devolve
  <1>3. /\ inscricao' \in [Inscricoes -> Seq(EventosInscricao)]
        /\ inscricao'[s] = Append(inscricao[s], e)
        /\ \A t \in Inscricoes \ {s} : inscricao'[t] = inscricao[t]
    BY <1>0, <1>1 DEF IServico, TiposServico
  <1> HIDE DEF s, e
  <1>4. /\ Len(inscricao'[s]) = Len(inscricao[s]) + 1 /\ inscricao'[s] # <<>>
        /\ inscricao'[s][Len(inscricao'[s])] = e
        /\ \A i \in DOMAIN inscricao[s] : inscricao'[s][i] = inscricao[s][i]
        /\ \A i \in DOMAIN inscricao'[s] : i \in DOMAIN inscricao[s] \/ i = Len(inscricao[s]) + 1
    BY <1>1, <1>3 DEF IServico, TiposServico
  <1>13. Cria(h) <=> e = "Criada"
    BY DEF Cria, e
  <1>5. TiposServico'
    BY <1>0, <1>1, <1>2, <1>3, <1>4 DEF IServico, TiposServico, Ops, S!Solta
  <1>6. e = "Criada" => inscricao[s] = <<>>
    BY <1>0 DEF IServico, CriadaUmaVez, Cria, s, e
  <1>7. e # "Criada" => inscricao[s] # <<>>
    BY <1>0 DEF IServico, CriadaUmaVez, Cria, s, e
  <1>8. CriadaUmaVez'
    <2>1. \A t \in Inscricoes : \A i \in DOMAIN inscricao'[t] :
             inscricao'[t][i] = "Criada" <=> i = 1
      <3>1. \A i \in DOMAIN inscricao'[s] : inscricao'[s][i] = "Criada" <=> i = 1
        <4>1. CASE e = "Criada"
          BY <1>1, <1>3, <1>6, <4>1 DEF IServico, TiposServico
        <4>2. CASE e # "Criada"
          <5>1. Len(inscricao[s]) \in Nat \ {0}
            BY <1>1, <1>7, <4>2 DEF IServico, TiposServico
          <5> QED
            BY <1>1, <1>4, <4>2, <5>1 DEF IServico, CriadaUmaVez
        <4> QED
          BY <4>1, <4>2
      <3>2. ASSUME NEW t \in Inscricoes, t # s
            PROVE  \A i \in DOMAIN inscricao'[t] : inscricao'[t][i] = "Criada" <=> i = 1
        <4>1. inscricao'[t] = inscricao[t]
          BY <1>3, <3>2
        <4> QED
          BY <4>1 DEF IServico, CriadaUmaVez
      <3> QED
        BY <3>1, <3>2
    <2>2. \A t \in Inscricoes : inscricao[t] # <<>> => inscricao'[t] # <<>>
      BY <1>3, <1>4
    <2>3. \A g \in Operadores \ {h} : Cria(g) /\ operador[g].passo # "consumir" =>
             operador[g].s # s
      BY <1>0 DEF IServico, CriadaUmaVez, s
    <2>4. \A g \in Operadores :
             /\ operador'[g].passo = "livre" => operador'[g].evento = "nenhum"
             /\ operador'[g].passo # "livre" => operador'[g].s \in Inscricoes
             /\ Cria(g)' => operador'[g].passo \in {"reservar", "gravar", "consumir"}
      BY <1>1, <1>2 DEF IServico, CriadaUmaVez, Cria
    <2>5. \A g \in Operadores : operador'[g].passo # "livre" /\ ~Cria(g)' =>
             /\ inscricao'[operador'[g].s] # <<>> /\ operador'[g].evento # "nenhum"
             /\ operador'[g].passo \in {"gravar", "cancelar"}
      BY <1>2, <2>2 DEF IServico, CriadaUmaVez, Cria
    <2>6. ASSUME NEW g \in Operadores, Cria(g)', operador'[g].passo # "consumir"
          PROVE  /\ inscricao'[operador'[g].s] = <<>>
                 /\ \A f \in Operadores : operador'[f].s = operador'[g].s => f = g
      <3>1. g # h /\ operador'[g] = operador[g] /\ Cria(g) /\ operador[g].passo # "consumir"
        BY <1>2, <2>6 DEF Cria
      <3>2. operador[g].s \in Inscricoes /\ operador[g].s # s /\ inscricao[operador[g].s] = <<>>
            /\ \A f \in Operadores : operador[f].s = operador[g].s => f = g
        BY <2>3, <3>1 DEF IServico, CriadaUmaVez, Cria
      <3>3. operador'[h].s = s \/ operador'[h].s = "nenhuma"
        BY <1>2
      <3> QED
        BY <1>2, <1>3, <3>1, <3>2, <3>3 DEF ServicoHipoteses
    <2> QED
      BY <2>1, <2>4, <2>5, <2>6 DEF CriadaUmaVez
  <1>14. Cria(h) => vaga = h
    BY <1>0 DEF IServico, VagaOK
  <1>9. VagaOK'
    <2>1. \A g \in Operadores \ {h} : vaga' = g <=> vaga = g
      BY <1>2, <1>14 DEF ServicoHipoteses, S!Solta
    <2>2. vaga' = h <=> Cria(h)' /\ operador'[h].passo \in {"gravar", "consumir"}
      BY <1>0, <1>2, <1>14 DEF IServico, VagaOK, Cria, ServicoHipoteses, S!Solta
    <2> QED
      BY <1>2, <2>1, <2>2 DEF IServico, VagaOK, Cria
  <1>10. Pendentes' = IF e = "Criada" THEN Pendentes \cup {s} ELSE Pendentes \ {s}
    BY <1>1, <1>3, <1>4 DEF Pendentes, Pendente
  <1>11. /\ expostas \in Nat /\ IsFiniteSet(Pendentes) /\ Cardinality(Pendentes) \in Nat
         /\ Cardinality(Pendentes) <= 1 + expostas
    BY DEF IServico, ContagemOK
  <1>12. ContagemOK' /\ EsperaOK'
    <2>1. CASE e = "Criada"
      <3>1. vaga = h /\ ~Lotada /\ s \notin Pendentes
        BY <1>0, <1>6, <1>13, <1>14, <2>1 DEF IServico, EsperaOK, Pendentes, Pendente
      <3>2. \A g \in Operadores : ~(operador'[g].passo = "gravar" /\ Cria(g)')
        BY <1>2, <3>1 DEF IServico, VagaOK, Cria
      <3>3. IsFiniteSet(Pendentes') /\ Cardinality(Pendentes') = Cardinality(Pendentes) + 1
        BY <1>10, <1>11, <2>1, <3>1, FS_AddElement
      <3>4. Cardinality(Pendentes') \in Nat /\ Cardinality(Pendentes') <= 1 + expostas
        BY <1>11, <3>1, <3>3 DEF Lotada
      <3>5. CASE S!Solta
        BY <1>5, <1>11, <3>2, <3>3, <3>4, <3>5, SoltaFacts DEF EsperaOK
      <3>6. CASE vaga' # "livre" /\ UNCHANGED expostas
        BY <1>11, <3>2, <3>3, <3>4, <3>6 DEF EsperaOK, ContagemOK
      <3> QED
        BY <1>2, <1>13, <2>1, <3>1, <3>5, <3>6 DEF ServicoHipoteses, S!Sobra
    <2>2. CASE e # "Criada"
      <3>1. vaga' = vaga /\ expostas' = expostas
        BY <1>2, <1>13, <2>2
      <3>2. CASE s \in Pendentes
        <4>1. IsFiniteSet(Pendentes') /\ Cardinality(Pendentes') = Cardinality(Pendentes) - 1
          BY <1>10, <1>11, <2>2, <3>2, FS_RemoveElement
        <4>2. Cardinality(Pendentes') \in Nat
          BY <4>1, FS_CardinalityType
        <4> QED
          BY <1>11, <3>1, <4>1, <4>2 DEF EsperaOK, ContagemOK, Lotada
      <3>3. CASE s \notin Pendentes
        <4>1. Pendentes' = Pendentes
          BY <1>10, <2>2, <3>3
        <4>2. ContagemOK' /\ (Lotada' <=> Lotada) /\ (Vista' <=> Vista)
          BY <1>0, <1>11, <3>1, <4>1 DEF ContagemOK, Lotada, Vista
        <4> QED
          BY <1>2, <1>13, <2>2, <3>1, <4>2 DEF IServico, EsperaOK, Cria
      <3> QED
        BY <3>2, <3>3
    <2> QED
      BY <2>1, <2>2
  <1> QED
    BY <1>5, <1>8, <1>9, <1>12 DEF IServico

(* A handler that ends without a step of the requests: the guard, if it had *)
(* it, is not free.                                                         *)
LEMMA AcabaInv ==
    ASSUME ServicoHipoteses, IServico, NEW h \in Operadores, S!Acaba(h),
           UNCHANGED <<servico, servicoLido, inscricao, inscricaoLida, expostas>>,
           inscritas' \in [Inscricoes -> {"nenhuma", "aberta", "cancelada", "paga"}],
           vaga = h => vaga' \in {"consumida", S!Sobra}, vaga # h => vaga' = vaga
    PROVE  IServico'
  <1>1. /\ operador' \in [Operadores -> Ops]
        /\ \A g \in Operadores \ {h} : operador'[g] = operador[g]
        /\ operador'[h].passo = "livre" /\ operador'[h].s = "nenhuma"
        /\ operador'[h].evento = "nenhum"
    BY OperadorFacts DEF IServico
  <1>2. vaga' \in Operadores \cup {"livre", "consumida", S!Sobra}
        /\ (vaga' = "livre" => vaga = "livre")
        /\ \A g \in Operadores : vaga' = g => vaga = g
    BY DEF IServico, TiposServico, ServicoHipoteses, S!Sobra
  <1>3. TiposServico'
    BY <1>1, <1>2 DEF IServico, TiposServico, Ops
  <1>4. CriadaUmaVez'
    BY <1>1 DEF IServico, CriadaUmaVez, Cria, ServicoHipoteses
  <1>5. ContagemOK' /\ (Lotada' <=> Lotada) /\ (Vista' <=> Vista)
    BY MesmasPendentes DEF IServico, Vista
  <1>6. EsperaOK'
    BY <1>1, <1>2, <1>5 DEF IServico, EsperaOK, Cria
  <1>7. VagaOK'
    <2>1. \A g \in Operadores \ {h} : vaga' = g <=> vaga = g
      BY DEF ServicoHipoteses
    <2>2. vaga' # h
      BY DEF ServicoHipoteses
    <2> QED
      BY <1>1, <2>1, <2>2 DEF IServico, VagaOK, Cria
  <1> QED
    BY <1>3, <1>4, <1>5, <1>6, <1>7 DEF IServico

(* The guard is consumed or given back,                                     *)
LEMMA ConsumeInv ==
    ASSUME ServicoHipoteses, IServico, NEW h \in Operadores, S!Consume(h)
    PROVE  IServico'
  <1>0. UNCHANGED <<servico, servicoLido, inscricao, inscricaoLida, inscritas>> /\ S!Acaba(h)
    BY DEF S!Consume, S!Devolve
  <1>1. vaga = h
    BY DEF S!Consume, IServico, VagaOK, CriadaUmaVez
  <1>2. inscritas' \in [Inscricoes -> {"nenhuma", "aberta", "cancelada", "paga"}]
    BY <1>0 DEF IServico, TiposServico
  <1>3. CASE vaga' \in {"consumida", S!Sobra} /\ UNCHANGED expostas
    BY <1>0, <1>1, <1>2, <1>3, AcabaInv
  <1>4. CASE S!Solta
    <2>1. /\ operador' \in [Operadores -> Ops]
          /\ \A g \in Operadores \ {h} : operador'[g] = operador[g]
          /\ operador'[h].passo = "livre" /\ operador'[h].s = "nenhuma"
          /\ operador'[h].evento = "nenhum"
      BY <1>0, OperadorFacts DEF IServico
    <2>2. vaga' = "livre"
      BY <1>4 DEF S!Solta
    <2>3. TiposServico'
      BY <1>0, <2>1, <2>2 DEF IServico, TiposServico, Ops
    <2>4. CriadaUmaVez'
      BY <1>0, <2>1 DEF IServico, CriadaUmaVez, Cria, ServicoHipoteses
    <2>5. VagaOK'
      BY <1>1, <2>1, <2>2 DEF IServico, VagaOK, Cria, ServicoHipoteses
    <2>6. /\ expostas \in Nat /\ IsFiniteSet(Pendentes') /\ Cardinality(Pendentes') \in Nat
          /\ Cardinality(Pendentes') <= 1 + expostas
      <3>1. Pendentes' = Pendentes
        BY <1>0 DEF Pendentes, Pendente
      <3> QED
        BY <3>1 DEF IServico, ContagemOK
    <2>7. ContagemOK' /\ (Lotada' => Vista' /\ \A g \in Operadores : operador'[g].passo # "reservar")
      BY <1>4, <2>3, <2>6, SoltaFacts
    <2>8. \A g \in Operadores : ~(operador'[g].passo = "gravar" /\ Cria(g)')
      BY <1>1, <2>1 DEF IServico, VagaOK, Cria
    <2>9. EsperaOK'
      BY <2>7, <2>8 DEF EsperaOK
    <2> QED
      BY <2>3, <2>4, <2>5, <2>7, <2>9 DEF IServico
  <1> QED
    BY <1>3, <1>4 DEF S!Consume, S!Devolve

(* or left by a handler that dies.                                          *)
LEMMA InterrompeInv ==
    ASSUME ServicoHipoteses, IServico, NEW h \in Operadores, S!Interrompe(h)
    PROVE  IServico'
  <1>1. inscritas' \in [Inscricoes -> {"nenhuma", "aberta", "cancelada", "paga"}]
    BY DEF S!Interrompe, IServico, TiposServico
  <1>2. /\ vaga = h => vaga' \in {"consumida", S!Sobra}
        /\ vaga # h => vaga' = vaga
    BY DEF S!Interrompe
  <1> QED
    BY <1>1, <1>2, AcabaInv DEF S!Interrompe

(* The charge is cancelled before the request is, or has been paid.         *)
LEMMA CobrancaInv ==
    ASSUME ServicoHipoteses, IServico, NEW h \in Operadores,
           S!CancelarCobrancaTaxaInscricaoServicoAberta(h)
    PROVE  IServico'
  <1>0. UNCHANGED <<servico, servicoLido, inscricao, inscricaoLida, vaga, expostas>>
        /\ operador[h].passo = "cancelar"
    BY DEF S!CancelarCobrancaTaxaInscricaoServicoAberta
  <1>1. ~Cria(h) /\ vaga # h
    BY <1>0 DEF IServico, CriadaUmaVez, VagaOK
  <1>2. inscritas' \in [Inscricoes -> {"nenhuma", "aberta", "cancelada", "paga"}]
    BY DEF S!CancelarCobrancaTaxaInscricaoServicoAberta, IServico, TiposServico
  <1>3. CASE S!Acaba(h)
    BY <1>0, <1>1, <1>2, <1>3, AcabaInv
  <1>4. CASE S!Segue(h, "gravar")
    <2>1. /\ operador' \in [Operadores -> Ops]
          /\ \A g \in Operadores \ {h} : operador'[g] = operador[g]
          /\ operador'[h].passo = "gravar" /\ operador'[h].s = operador[h].s
          /\ operador'[h].evento = operador[h].evento
      BY <1>4, OperadorFacts DEF IServico, Passos
    <2>2. TiposServico'
      BY <1>0, <1>2, <2>1 DEF IServico, TiposServico, Ops
    <2>3. CriadaUmaVez' /\ VagaOK'
      BY <1>0, <1>1, <2>1 DEF IServico, CriadaUmaVez, Cria, VagaOK
    <2>4. ContagemOK' /\ (Lotada' <=> Lotada) /\ (Vista' <=> Vista)
      BY <1>0, MesmasPendentes DEF IServico, Vista
    <2>5. EsperaOK'
      BY <1>0, <1>1, <2>1, <2>4 DEF IServico, EsperaOK, Cria
    <2> QED
      BY <2>2, <2>3, <2>4, <2>5 DEF IServico
  <1> QED
    BY <1>3, <1>4 DEF S!CancelarCobrancaTaxaInscricaoServicoAberta

(* What a handler that is gone left is freed in its time.                   *)
LEMMA ExpiraInv ==
    ASSUME ServicoHipoteses, IServico, S!ExpiraVaga PROVE IServico'
  <1>0. /\ UNCHANGED <<servico, servicoLido, inscricao, inscricaoLida, inscritas, operador>>
        /\ vaga = S!Sobra /\ S!Solta /\ vaga' = "livre"
    BY DEF S!ExpiraVaga, S!Solta
  <1>1. TiposServico' /\ CriadaUmaVez'
    BY <1>0 DEF IServico, TiposServico, CriadaUmaVez, Cria
  <1>2. VagaOK'
    BY <1>0 DEF IServico, VagaOK, Cria, ServicoHipoteses
  <1>3. /\ expostas \in Nat /\ IsFiniteSet(Pendentes') /\ Cardinality(Pendentes') \in Nat
        /\ Cardinality(Pendentes') <= 1 + expostas
    <2>1. Pendentes' = Pendentes
      BY <1>0 DEF Pendentes, Pendente
    <2> QED
      BY <2>1 DEF IServico, ContagemOK
  <1>4. ContagemOK' /\ (Lotada' => Vista' /\ \A g \in Operadores : operador'[g].passo # "reservar")
    BY <1>0, <1>1, <1>3, SoltaFacts
  <1>5. \A h \in Operadores : ~(operador'[h].passo = "gravar" /\ Cria(h)')
    BY <1>0 DEF IServico, VagaOK, Cria, ServicoHipoteses
  <1>6. EsperaOK'
    BY <1>4, <1>5 DEF EsperaOK
  <1> QED
    BY <1>1, <1>2, <1>4, <1>6 DEF IServico

(* Every step keeps it.                                                     *)
LEMMA ServicoNext ==
    ASSUME ServicoHipoteses, IServico, [S!Next]_S!vars PROVE IServico'
  <1>1. ASSUME NEW h \in Operadores, NEW s \in Inscricoes,
               \/ S!AprovarSolicitacaoServicoExtra(h, s) \/ S!ReprovarSolicitacaoServicoExtra(h, s)
               \/ S!cancelarSolicitacaoServicoExtra(h, s) \/ S!efetivarVinculoServicoExtraPago(h, s)
        PROVE  IServico'
    BY <1>1, DecideInv
    DEF S!AprovarSolicitacaoServicoExtra, S!ReprovarSolicitacaoServicoExtra,
        S!cancelarSolicitacaoServicoExtra, S!efetivarVinculoServicoExtraPago, EventosInscricao
  <1>2. ASSUME NEW h \in Operadores, S!Handler(h) PROVE IServico'
    BY <1>1, <1>2, SolicitarInv, ReserveInv, ReleaseInv, SaveInv, ConsumeInv, CobrancaInv
    DEF S!Handler
  <1>3. ASSUME NEW h \in Operadores, S!Interrompe(h) PROVE IServico'
    BY <1>3, InterrompeInv
  <1>4. CASE S!ExpiraVaga
    BY <1>4, ExpiraInv
  <1>5. CASE UNCHANGED S!vars
    <2>1. ContagemOK' /\ (Lotada' <=> Lotada) /\ (Vista' <=> Vista)
      BY <1>5, MesmasPendentes DEF S!vars, IServico, Vista
    <2> QED
      BY <1>5, <2>1 DEF S!vars, IServico, TiposServico, CriadaUmaVez, Cria, VagaOK, EsperaOK
  <1> QED
    BY <1>2, <1>3, <1>4, <1>5, ServicoOutros DEF S!Next

(* The cardinality that ServicoExtra speaks of is that of FiniteSets.       *)
LEMMA ServicoCardinality ==
    ASSUME NEW Z
    PROVE  S!Cardinality(Z) = Cardinality(Z)
  BY DEF S!Cardinality, Cardinality

(* The requests that wait are those the property counts.                    *)
LEMMA ServicoOne == ASSUME IServico PROVE S!OnePendingInscription
  <1>1. {s \in Inscricoes : S!Status(s) = "pendente"} = Pendentes
    BY PendenteStatus DEF IServico, Pendentes
  <1>2. S!Cardinality(Pendentes) = Cardinality(Pendentes)
    BY ServicoCardinality
  <1>3. Cardinality(Pendentes) <= 1 + expostas
    BY DEF IServico, ContagemOK
  <1> QED
    BY <1>1, <1>2, <1>3 DEF S!OnePendingInscription

(* The types of extra services are part of their invariant.                 *)
LEMMA ServicoTypeOK == ASSUME IServico PROVE S!TypeOK
  BY DEF IServico, TiposServico, S!TypeOK

-----------------------------------------------------------------------------
(* Final assessment.  Until the year has a normal assessment, or a late     *)
(* correction, the level in the student's row and in every grade of the     *)
(* year is the one the year began with; from then on the aggregate refuses  *)
(* another normal assessment to whoever loads it.                           *)

V == INSTANCE AvaliacaoFinal

AvaliacaoHipoteses ==
    UltimoAno \in Nat \ {0} /\ UltimoNivel \in Nat /\ MaxNotas \in Nat

(* The least element is what Min chooses.                                   *)
LEMMA MinIsLeast ==
    ASSUME NEW Z \in SUBSET Nat, Z # {}
    PROVE  V!Min(Z) \in Z /\ \A y \in Z : V!Min(Z) <= y
  BY Primeiro DEF V!Min

Anos == 1 .. UltimoAno
Lancadas == [tipo : {"Nota", "Correcao"}, em : Anos, ano : Anos, nivel : Nat,
             materia : Materias, categoria : V!Categorias, valor : Valores]
Avaliacoes == [tipo : {"Avaliacao"}, em : Anos, ano : Anos, nivel : Nat, type : V!Categorias,
               aprovado : BOOLEAN, proximo : Nat, reprovadas : SUBSET Materias]
EventosAvaliacao == Lancadas \cup Avaliacoes
Pedidos == [passo : {"carregar", "avaliar"}, tipo : {"Nota", "Correcao"}, em : Anos,
            ano : Anos, nivel : Nat, atual : Nat, materia : Materias,
            categoria : V!Categorias, valor : Valores, versao : Nat]
Prontos == [passo : {"gravar"}, eventos : Seq(EventosAvaliacao)]

DominiosAvaliacao ==
    /\ anoLetivo \in Anos /\ notas \in Nat /\ notas <= MaxNotas /\ ensino \in Escolas
    /\ percurso \in Seq(EventosAvaliacao)
    /\ percursoLido \in [V!Leitores -> Nat]
    /\ \A p \in V!Leitores : percursoLido[p] <= Len(percurso)
    /\ estudante \in [nivel : Nat, status : {"em_andamento", "finalizado"}]
    /\ docente \in [Docentes -> {V!Ocioso} \cup Pedidos \cup Prontos]

Normal(e, ano) == e.tipo = "Avaliacao" /\ e.type = "normal" /\ e.ano = ano
Promove(e) == e.tipo = "Avaliacao" /\ e.aprovado

\* The year has a normal assessment; a correction in this year promoted for an earlier one.
Visto(ano) == \E i \in DOMAIN percurso : Normal(percurso[i], ano)
Tardia(ano) == \E i \in DOMAIN percurso :
    Promove(percurso[i]) /\ percurso[i].ano < ano /\ percurso[i].em = ano

\* Events are of the current year or about an earlier one.
DoAno(e) == e.ano <= e.em /\ e.em <= anoLetivo
AnosOK ==
    /\ \A i \in DOMAIN percurso : DoAno(percurso[i])
    /\ \A h \in Docentes : docente[h].passo \in {"carregar", "avaliar"} =>
          docente[h].em = anoLetivo /\ docente[h].ano <= anoLetivo
            /\ docente[h].versao <= Len(percurso)
    /\ \A h \in Docentes : docente[h].passo = "gravar" => \A i \in DOMAIN docente[h].eventos :
          docente[h].eventos[i].em = anoLetivo /\ docente[h].eventos[i].ano <= anoLetivo

\* A second chance is given at the level of a normal assessment of the year.
TemNormal(e) ==
    e.tipo = "Avaliacao" /\ e.type # "normal" =>
        \E j \in DOMAIN percurso : Normal(percurso[j], e.ano) /\ percurso[j].nivel = e.nivel
RecursoOK ==
    /\ \A i \in DOMAIN percurso : TemNormal(percurso[i])
    /\ \A h \in Docentes : docente[h].passo = "gravar" =>
          \A i \in DOMAIN docente[h].eventos : TemNormal(docente[h].eventos[i])

\* The row has had every promotion until the year has one.
LinhaOK ==
    ~Visto(anoLetivo) /\ ~Tardia(anoLetivo) =>
        \A i \in DOMAIN percurso : Promove(percurso[i]) => i <= percursoLido["estudantes"]

\* Whoever may still decide the year, or has decided it, does so at this level.
NoNivel(ano, nivel) ==
    /\ \A i \in DOMAIN percurso : Normal(percurso[i], ano) => percurso[i].nivel = nivel
    /\ \A h \in Docentes : docente[h].passo = "gravar" => \A i \in DOMAIN docente[h].eventos :
          Normal(docente[h].eventos[i], ano) => docente[h].eventos[i].nivel = nivel
    /\ \A h \in Docentes :
          docente[h].passo = "avaliar" /\ docente[h].ano = ano
            /\ (\A i \in 1 .. docente[h].versao : ~Normal(percurso[i], ano))
          => docente[h].nivel = nivel
    /\ ~Visto(ano) =>
          /\ anoLetivo = ano => estudante.nivel = nivel
          /\ \A h \in Docentes :
                docente[h].passo = "carregar" /\ docente[h].ano = ano => docente[h].nivel = nivel
          /\ \A i \in DOMAIN percurso :
                percurso[i].tipo # "Avaliacao" /\ percurso[i].ano = ano => percurso[i].nivel = nivel
          /\ \A h \in Docentes : docente[h].passo = "gravar" => \A i \in DOMAIN docente[h].eventos :
                docente[h].eventos[i].tipo # "Avaliacao" /\ docente[h].eventos[i].ano = ano
                => docente[h].eventos[i].nivel = nivel
NivelOK == \A ano \in Anos : ~Tardia(ano) => \E nivel \in Nat : NoNivel(ano, nivel)

IAvaliacao == DominiosAvaliacao /\ AnosOK /\ RecursoOK /\ LinhaOK /\ NivelOK

(* What a handler's step says of its record.                                *)
LEMMA DocenteTipo ==
    ASSUME docente \in [Docentes -> {V!Ocioso} \cup Pedidos \cup Prontos], NEW h \in Docentes
    PROVE  /\ docente[h].passo \in {"carregar", "avaliar"} => docente[h] \in Pedidos
           /\ docente[h].passo = "gravar" => docente[h] \in Prontos
           /\ docente[h] = V!Ocioso => docente[h].passo = "ocioso"
  BY DEF V!Ocioso, Pedidos, Prontos

(* The assessment a handler decides: of its year and level, normal only if  *)
(* the aggregate it loaded had none, a second chance only after a normal    *)
(* one of the level.                                                        *)
LEMMA Decide ==
    ASSUME DominiosAvaliacao, NEW d \in Pedidos, V!tentarAvaliacoesFinaisAutomaticas(d) # <<>>,
           UltimoNivel \in Nat
    PROVE  \E a \in Avaliacoes :
             /\ V!tentarAvaliacoesFinaisAutomaticas(d) = <<a>>
             /\ a.em = d.em /\ a.ano = d.ano /\ a.nivel = d.nivel
             /\ a.type = "normal" => \A i \in 1 .. d.versao : ~Normal(percurso[i], d.ano)
             /\ TemNormal(a)
  <1> DEFINE r == V!calcularResultadoMaterias(d)
  <1> DEFINE a == [tipo |-> "Avaliacao", em |-> d.em, ano |-> d.ano, nivel |-> d.nivel,
                   type |-> d.categoria, aprovado |-> r.aprovado,
                   proximo |-> V!calcularProximoAno(d.nivel, r.aprovado),
                   reprovadas |-> r.reprovadas]
  <1>1. V!regraPodeExecutar(d) /\ ~V!chaveAnoLetivo(d) /\ V!tentarAvaliacoesFinaisAutomaticas(d) = <<a>>
    BY DEF V!tentarAvaliacoesFinaisAutomaticas, V!RegistrarAvaliacaoFinal
  <1>2. ASSUME d.categoria # "normal"
        PROVE  \E j \in DOMAIN percurso :
                 /\ j = V!Min(V!ResultadosByType(d.ano, d.nivel, "normal"))
                 /\ V!MesmaAvaliacao(percurso[j], d.ano, d.nivel, "normal")
    <2>1. d.categoria = "recurso"
      BY <1>2 DEF Pedidos, V!Categorias
    <2> DEFINE Z == V!ResultadosByType(d.ano, d.nivel, "normal")
    <2>2. Z # {}
      BY <1>1, <2>1 DEF V!regraPodeExecutar
    <2>3. Z \subseteq 1 .. Len(percurso) /\ Z \in SUBSET Nat
      BY DEF V!ResultadosByType, V!Lidos, V!Leitores, DominiosAvaliacao
    <2>4. V!Min(Z) \in Z
      BY <2>2, <2>3, MinIsLeast
    <2>5. V!Min(Z) \in DOMAIN percurso
      BY <2>3, <2>4 DEF DominiosAvaliacao
    <2>6. \A j \in Z : V!MesmaAvaliacao(percurso[j], d.ano, d.nivel, "normal")
      BY DEF V!ResultadosByType
    <2> QED
      BY <2>4, <2>5, <2>6
  <1>3. V!materiasAplicaveis(d) \subseteq Materias
    <2>1. CASE d.categoria = "normal"
      BY <2>1 DEF V!materiasAplicaveis
    <2>2. CASE d.categoria # "normal"
      <3>1. PICK j \in DOMAIN percurso :
                 /\ j = V!Min(V!ResultadosByType(d.ano, d.nivel, "normal"))
                 /\ V!MesmaAvaliacao(percurso[j], d.ano, d.nivel, "normal")
        BY <2>2, <1>2
      <3>2. percurso[j] \in Avaliacoes
        BY <3>1 DEF DominiosAvaliacao, EventosAvaliacao, Lancadas, V!MesmaAvaliacao
      <3> QED
        BY <2>2, <3>1, <3>2 DEF V!materiasAplicaveis, V!GetResultadoByType, Avaliacoes
    <2> QED
      BY <2>1, <2>2
  <1>4. r.reprovadas \subseteq Materias /\ r.aprovado \in BOOLEAN
    BY <1>3 DEF V!calcularResultadoMaterias
  <1>5. V!calcularProximoAno(d.nivel, r.aprovado) \in Nat
    BY DEF V!calcularProximoAno, V!Nenhum, Pedidos
  <1>6. a \in Avaliacoes
    BY <1>4, <1>5 DEF Avaliacoes, Pedidos
  <1>7. a.type = "normal" => \A i \in 1 .. d.versao : ~Normal(percurso[i], d.ano)
    BY <1>1 DEF V!chaveAnoLetivo, Normal
  <1>8. TemNormal(a)
    BY <1>2 DEF TemNormal, Normal, V!MesmaAvaliacao
  <1> QED
    BY <1>1, <1>6, <1>7, <1>8

(* The sequence of one element.                                             *)
LEMMA Um ==
    ASSUME NEW Z, NEW x \in Z
    PROVE  <<x>> \in Seq(Z) /\ DOMAIN <<x>> = {1} /\ <<x>>[1] = x
  OBVIOUS

(* The sequence of two elements.                                            *)
LEMMA Dois ==
    ASSUME NEW Z, NEW x \in Z, NEW y \in Z
    PROVE  /\ <<x>> \o <<y>> \in Seq(Z) /\ DOMAIN (<<x>> \o <<y>>) = {1, 2}
           /\ (<<x>> \o <<y>>)[1] = x /\ (<<x>> \o <<y>>)[2] = y
  OBVIOUS

(* What a handler is about to save: its grade, then perhaps an assessment.  *)
LEMMA Prepara ==
    ASSUME DominiosAvaliacao, NEW d \in Pedidos, UltimoNivel \in Nat, NEW es,
           es = <<V!Registo(d)>> \o V!tentarAvaliacoesFinaisAutomaticas(d)
    PROVE  /\ es \in Seq(EventosAvaliacao)
           /\ \A i \in DOMAIN es :
                /\ es[i].em = d.em /\ es[i].ano = d.ano /\ es[i].nivel = d.nivel
                /\ Normal(es[i], d.ano) => \A k \in 1 .. d.versao : ~Normal(percurso[k], d.ano)
                /\ TemNormal(es[i])
  <1>1. V!Registo(d) \in Lancadas /\ V!Registo(d).tipo # "Avaliacao"
        /\ V!Registo(d).em = d.em /\ V!Registo(d).ano = d.ano /\ V!Registo(d).nivel = d.nivel
    BY DEF V!Registo, Lancadas, Pedidos
  <1>0. V!Registo(d) \in EventosAvaliacao
    BY <1>1 DEF EventosAvaliacao
  <1>2. CASE V!tentarAvaliacoesFinaisAutomaticas(d) = <<>>
    <2>1. es = <<V!Registo(d)>>
      BY <1>2
    <2>2. es \in Seq(EventosAvaliacao) /\ DOMAIN es = {1} /\ es[1] = V!Registo(d)
      BY <1>0, <2>1, Um
    <2> QED
      BY <1>1, <2>2 DEF Normal, TemNormal
  <1>3. CASE V!tentarAvaliacoesFinaisAutomaticas(d) # <<>>
    <2>1. PICK a \in Avaliacoes :
             /\ V!tentarAvaliacoesFinaisAutomaticas(d) = <<a>>
             /\ a.em = d.em /\ a.ano = d.ano /\ a.nivel = d.nivel
             /\ a.type = "normal" => \A i \in 1 .. d.versao : ~Normal(percurso[i], d.ano)
             /\ TemNormal(a)
      BY <1>3, Decide
    <2>2. es = <<V!Registo(d)>> \o <<a>>
      BY <2>1
    <2>3. es \in Seq(EventosAvaliacao) /\ DOMAIN es = {1, 2} /\ es[1] = V!Registo(d) /\ es[2] = a
      <3>1. a \in EventosAvaliacao
        BY DEF EventosAvaliacao
      <3> QED
        <4>1. es = <<V!Registo(d)>> \o <<a>>
          BY <2>2
        <4>2. (<<V!Registo(d)>> \o <<a>>) \in Seq(EventosAvaliacao)
          BY <1>0, <3>1
        <4>3. DOMAIN (<<V!Registo(d)>> \o <<a>>) = {1, 2}
          BY <1>0, <3>1, Dois
        <4>4. (<<V!Registo(d)>> \o <<a>>)[1] = V!Registo(d) /\ (<<V!Registo(d)>> \o <<a>>)[2] = a
          BY <1>0, <3>1, Dois
        <4> QED
          BY <4>1, <4>2, <4>3, <4>4
    <2>4. TemNormal(V!Registo(d)) /\ ~Normal(V!Registo(d), d.ano)
      BY <1>1 DEF TemNormal, Normal
    <2> QED
      BY <1>1, <2>1, <2>3, <2>4 DEF Normal
  <1> QED
    BY <1>2, <1>3

-----------------------------------------------------------------------------
(* The invariant holds when nothing has been recorded.                      *)
LEMMA AvaliacaoInit == ASSUME AvaliacaoHipoteses PROVE V!Init => IAvaliacao
  <1> SUFFICES ASSUME V!Init PROVE IAvaliacao
    OBVIOUS
  <1>1. DominiosAvaliacao
    BY DEF AvaliacaoHipoteses, V!Init, DominiosAvaliacao, Anos
  <1>2. percurso = <<>> /\ \A h \in Docentes : docente[h] = V!Ocioso
    BY DEF V!Init
  <1>3. \A h \in Docentes : docente[h].passo = "ocioso"
    BY <1>2 DEF V!Ocioso
  <1>4. AnosOK /\ RecursoOK /\ LinhaOK
    BY <1>2, <1>3 DEF AnosOK, RecursoOK, LinhaOK
  <1>5. \A ano \in Anos : NoNivel(ano, 1)
    BY <1>2, <1>3 DEF NoNivel, V!Init
  <1> QED
    BY <1>1, <1>4, <1>5 DEF IAvaliacao, NivelOK

(* A request begins with the level of the row, or of a grade of its year.   *)
LEMMA ComecaInv ==
    ASSUME AvaliacaoHipoteses, IAvaliacao, NEW h \in Docentes, NEW d \in Pedidos, V!Comeca(h,
           d),
           d.passo = "carregar", d.em = anoLetivo, d.ano <= anoLetivo, d.versao = 0,
           \/ d.ano = anoLetivo /\ d.nivel = estudante.nivel
           \/ \E i \in DOMAIN percurso : /\ percurso[i].tipo # "Avaliacao" /\ percurso[i].ano = d.ano
                                         /\ percurso[i].nivel = d.nivel
    PROVE  IAvaliacao'
  <1> USE DEF V!Comeca
  <1>1. docente' \in [Docentes -> {V!Ocioso} \cup Pedidos \cup Prontos]
        /\ docente'[h] = d /\ \A g \in Docentes \ {h} : docente'[g] = docente[g]
    BY DEF IAvaliacao, DominiosAvaliacao
  <1>2. DominiosAvaliacao'
    BY <1>1 DEF IAvaliacao, DominiosAvaliacao, AvaliacaoHipoteses
  <1>3. AnosOK'
    BY <1>1 DEF IAvaliacao, AnosOK, DoAno, DominiosAvaliacao
  <1>4. RecursoOK'
    BY <1>1 DEF IAvaliacao, RecursoOK, TemNormal
  <1>5. LinhaOK'
    BY DEF IAvaliacao, LinhaOK, Visto, Tardia
  <1>6. ASSUME NEW ano \in Anos, ~Tardia(ano)' PROVE \E nivel \in Nat : NoNivel(ano, nivel)'
    <2>1. PICK nivel \in Nat : NoNivel(ano, nivel)
      BY <1>6 DEF Tardia, IAvaliacao, NivelOK
    <2>2. ~Visto(ano) /\ d.ano = ano => d.nivel = nivel
      BY <2>1 DEF NoNivel
    <2>3. NoNivel(ano, nivel)'
      BY <1>1, <2>1, <2>2 DEF NoNivel, Visto
    <2> QED
      BY <2>3
  <1> QED
    BY <1>2, <1>3, <1>4, <1>5, <1>6 DEF IAvaliacao, NivelOK

(* A handler begins to record a mark.                                       *)
LEMMA RegistrarNotaInv ==
    ASSUME AvaliacaoHipoteses, IAvaliacao, NEW h \in Docentes, NEW m \in Materias,
           NEW cat \in V!Categorias,
           NEW v \in Valores, V!RegistrarNota(h, m, cat, v)
    PROVE  IAvaliacao'
  <1> DEFINE d == [passo |-> "carregar", tipo |-> "Nota", em |-> anoLetivo, ano |-> anoLetivo,
                   nivel |-> estudante.nivel, atual |-> estudante.nivel,
                   materia |-> m, categoria |-> cat, valor |-> v, versao |-> 0]
  <1>1. d \in Pedidos
    BY DEF IAvaliacao, DominiosAvaliacao, Pedidos
  <1>2. V!Comeca(h, d)
    BY DEF V!RegistrarNota
  <1>3. d.ano <= anoLetivo
    BY DEF IAvaliacao, DominiosAvaliacao, Anos, AvaliacaoHipoteses
  <1> HIDE DEF d
  <1>4. d.passo = "carregar" /\ d.em = anoLetivo /\ d.ano = anoLetivo /\ d.versao = 0
        /\ d.nivel = estudante.nivel
    BY DEF d
  <1> QED
    BY <1>1, <1>2, <1>3, <1>4, ComecaInv

(* A handler begins to correct a mark.                                      *)
LEMMA CorrigirNotaInv ==
    ASSUME AvaliacaoHipoteses, IAvaliacao, NEW h \in Docentes, NEW ano \in 1 .. UltimoAno,
           NEW m \in Materias,
           NEW cat \in V!Categorias, NEW v \in Valores, V!CorrigirNota(h, ano, m, cat, v)
    PROVE  IAvaliacao'
  <1>1. PICK i \in V!NotasLidas(ano, m, cat) :
            V!Comeca(h, [passo |-> "carregar", tipo |-> "Correcao", em |-> anoLetivo,
                       ano |-> ano, nivel |-> percurso[i].nivel, atual |-> estudante.nivel,
                       materia |-> m, categoria |-> cat, valor |-> v, versao |-> 0])
    BY DEF V!CorrigirNota
  <1> DEFINE d == [passo |-> "carregar", tipo |-> "Correcao", em |-> anoLetivo,
                   ano |-> ano, nivel |-> percurso[i].nivel, atual |-> estudante.nivel,
                   materia |-> m, categoria |-> cat, valor |-> v, versao |-> 0]
  <1>2. i \in DOMAIN percurso /\ V!MesmaNota(percurso[i], ano, m, cat)
    BY DEF V!NotasLidas, V!Lidos, V!Leitores, IAvaliacao, DominiosAvaliacao
  <1>3. percurso[i] \in Lancadas /\ percurso[i].tipo # "Avaliacao" /\ percurso[i].ano = ano
    BY <1>2 DEF V!MesmaNota, IAvaliacao, DominiosAvaliacao, EventosAvaliacao, Avaliacoes
  <1>4. d \in Pedidos
    BY <1>3 DEF IAvaliacao, DominiosAvaliacao, Pedidos, Lancadas, Anos
  <1>5. ano <= anoLetivo
    <2>1. DoAno(percurso[i])
      BY <1>2 DEF IAvaliacao, AnosOK
    <2> QED
      BY <1>3, <2>1 DEF DoAno, Lancadas, Anos, IAvaliacao, DominiosAvaliacao, AvaliacaoHipoteses
  <1>6. V!Comeca(h, d)
    BY <1>1
  <1> HIDE DEF d
  <1>7. d.passo = "carregar" /\ d.em = anoLetivo /\ d.ano = ano /\ d.versao = 0
        /\ d.nivel = percurso[i].nivel
    BY DEF d
  <1> QED
    BY <1>2, <1>3, <1>4, <1>5, <1>6, <1>7, ComecaInv

(* Every event of the ledger is there when the aggregate is loaded.         *)
LEMMA CarregarInv ==
    ASSUME AvaliacaoHipoteses, IAvaliacao, NEW h \in Docentes, V!Load(h)
    PROVE  IAvaliacao'
  <1> DEFINE d == docente[h]
  <1>0. UNCHANGED <<ensino, anoLetivo, percurso, percursoLido, estudante, notas>>
    BY DEF V!Load
  <1>1. d \in Pedidos /\ d.passo = "carregar"
    BY DocenteTipo DEF V!Load, IAvaliacao, DominiosAvaliacao
  <1>2. docente' \in [Docentes -> {V!Ocioso} \cup Pedidos \cup Prontos]
        /\ \A g \in Docentes \ {h} : docente'[g] = docente[g]
    BY <1>1 DEF V!Load, V!Termina, IAvaliacao, DominiosAvaliacao, Pedidos
  <1>3. \/ docente'[h] = V!Ocioso
        \/ /\ docente'[h].passo = "avaliar" /\ docente'[h].versao = Len(percurso)
           /\ docente'[h].em = d.em /\ docente'[h].ano = d.ano /\ docente'[h].nivel = d.nivel
    BY <1>1 DEF V!Load, V!Termina, IAvaliacao, DominiosAvaliacao, Pedidos
  <1>4. DominiosAvaliacao'
    BY <1>0, <1>2 DEF IAvaliacao, DominiosAvaliacao
  <1>5. \/ docente'[h].passo = "ocioso"
        \/ /\ docente'[h].passo = "avaliar" /\ docente'[h].versao = Len(percurso)
           /\ docente'[h].em = d.em /\ docente'[h].ano = d.ano /\ docente'[h].nivel = d.nivel
    BY <1>3 DEF V!Ocioso
  <1>6. AnosOK'
    BY <1>0, <1>1, <1>2, <1>3, <1>5 DEF IAvaliacao, AnosOK, DoAno, DominiosAvaliacao
  <1>7. RecursoOK' /\ LinhaOK'
    BY <1>0, <1>2, <1>5 DEF IAvaliacao, RecursoOK, TemNormal, LinhaOK, Visto, Tardia
  <1>8. ASSUME NEW ano \in Anos, ~Tardia(ano)' PROVE \E nivel \in Nat : NoNivel(ano, nivel)'
    <2>1. PICK nivel \in Nat : NoNivel(ano, nivel)
      BY <1>0, <1>8 DEF Tardia, IAvaliacao, NivelOK
    <2>2. ASSUME docente'[h].passo = "avaliar", docente'[h].ano = ano,
                 \A i \in 1 .. docente'[h].versao : ~Normal(percurso[i], ano)
          PROVE  docente'[h].nivel = nivel
      <3>1. docente'[h].versao = Len(percurso) /\ d.ano = ano /\ docente'[h].nivel = d.nivel
        BY <1>3, <2>2 DEF V!Ocioso
      <3>2. ~Visto(ano)
        BY <2>2, <3>1 DEF Visto, IAvaliacao, DominiosAvaliacao
      <3> QED
        BY <1>1, <2>1, <3>1, <3>2 DEF NoNivel
    <2>3. NoNivel(ano, nivel)'
      BY <1>0, <1>2, <1>5, <2>1, <2>2 DEF NoNivel, Visto
    <2> QED
      BY <2>3
  <1> QED
    BY <1>4, <1>6, <1>7, <1>8 DEF IAvaliacao, NivelOK

(* A normal assessment is decided only if the loaded aggregate had none, so *)
(* at the level that the year's grades have.                                *)
LEMMA AvaliarInv ==
    ASSUME AvaliacaoHipoteses, IAvaliacao, NEW h \in Docentes, V!Avaliar(h)
    PROVE  IAvaliacao'
  <1> DEFINE d == docente[h]
  <1> DEFINE es == <<V!Registo(d)>> \o V!tentarAvaliacoesFinaisAutomaticas(d)
  <1>0. UNCHANGED <<ensino, anoLetivo, percurso, percursoLido, estudante, notas>>
    BY DEF V!Avaliar
  <1>1. d \in Pedidos /\ d.passo = "avaliar"
    BY DocenteTipo DEF V!Avaliar, IAvaliacao, DominiosAvaliacao
  <1>2. /\ es \in Seq(EventosAvaliacao)
        /\ \A i \in DOMAIN es :
             /\ es[i].em = d.em /\ es[i].ano = d.ano /\ es[i].nivel = d.nivel
             /\ Normal(es[i], d.ano) => \A k \in 1 .. d.versao : ~Normal(percurso[k], d.ano)
             /\ TemNormal(es[i])
    BY <1>1, Prepara DEF IAvaliacao, AvaliacaoHipoteses
  <1>3. docente'[h] = V!Ocioso \/ docente'[h] = [passo |-> "gravar", eventos |-> es]
    BY DEF V!Avaliar, V!Termina, IAvaliacao, DominiosAvaliacao
  <1> HIDE DEF es
  <1>4. docente' \in [Docentes -> {V!Ocioso} \cup Pedidos \cup Prontos]
        /\ \A g \in Docentes \ {h} : docente'[g] = docente[g]
    <2>1. [passo |-> "gravar", eventos |-> es] \in Prontos
      BY <1>2 DEF Prontos
    <2>2. \E v \in {V!Ocioso} \cup Prontos : docente' = [docente EXCEPT ![h] = v]
      BY <2>1 DEF V!Avaliar, V!Termina, es
    <2> QED
      BY <2>2 DEF IAvaliacao, DominiosAvaliacao
  <1>5. \/ docente'[h].passo = "ocioso"
        \/ docente'[h].passo = "gravar" /\ docente'[h].eventos = es
    BY <1>3 DEF V!Ocioso
  <1>6. DominiosAvaliacao'
    BY <1>0, <1>4 DEF IAvaliacao, DominiosAvaliacao
  <1>7. AnosOK'
    BY <1>0, <1>1, <1>2, <1>4, <1>5 DEF IAvaliacao, AnosOK, DoAno, DominiosAvaliacao
  <1>8. RecursoOK' /\ LinhaOK'
    BY <1>0, <1>2, <1>4, <1>5 DEF IAvaliacao, RecursoOK, TemNormal, LinhaOK, Visto, Tardia
  <1>9. ASSUME NEW ano \in Anos, ~Tardia(ano)' PROVE \E nivel \in Nat : NoNivel(ano, nivel)'
    <2>1. PICK nivel \in Nat : NoNivel(ano, nivel)
      BY <1>0, <1>9 DEF Tardia, IAvaliacao, NivelOK
    <2>2. ASSUME d.ano = ano, \A k \in 1 .. d.versao : ~Normal(percurso[k], ano)
          PROVE  d.nivel = nivel
      BY <1>1, <2>1, <2>2 DEF NoNivel
    <2>3. ~Visto(ano) /\ d.ano = ano => d.nivel = nivel
      <3>1. d.versao \in Nat /\ d.versao <= Len(percurso)
        BY <1>1 DEF Pedidos, IAvaliacao, AnosOK
      <3> QED
        BY <2>2, <3>1 DEF Visto, IAvaliacao, DominiosAvaliacao
    <2>4. \A i \in DOMAIN es : /\ Normal(es[i], ano) => es[i].nivel = nivel
                               /\ ~Visto(ano) /\ es[i].ano = ano => es[i].nivel = nivel
      BY <1>2, <2>2, <2>3 DEF Normal
    <2>5. NoNivel(ano, nivel)'
      BY <1>0, <1>4, <1>5, <2>1, <2>4 DEF NoNivel, Visto
    <2> QED
      BY <2>5
  <1> QED
    BY <1>6, <1>7, <1>8, <1>9 DEF IAvaliacao, NivelOK

(* The ledger only grows: what it has is there, and what is new comes from  *)
(* the handler that saves.                                                  *)
LEMMA Acrescenta ==
    ASSUME NEW Z, NEW p \in Seq(Z), NEW es \in Seq(Z)
    PROVE  /\ p \o es \in Seq(Z) /\ Len(p) <= Len(p \o es)
           /\ \A i \in DOMAIN p : i \in DOMAIN (p \o es) /\ (p \o es)[i] = p[i]
           /\ \A i \in DOMAIN (p \o es) :
                i \in DOMAIN p \/ \E k \in DOMAIN es : (p \o es)[i] = es[k]
           /\ \A k \in DOMAIN es : \E i \in DOMAIN (p \o es) : (p \o es)[i] = es[k]
  <1>1. \A i \in DOMAIN (p \o es) : i \in DOMAIN p \/ \E k \in DOMAIN es : (p \o es)[i] = es[k]
    <2> SUFFICES ASSUME NEW i \in DOMAIN (p \o es), i \notin DOMAIN p
                 PROVE  \E k \in DOMAIN es : (p \o es)[i] = es[k]
      OBVIOUS
    <2>1. i - Len(p) \in DOMAIN es /\ (p \o es)[i] = es[i - Len(p)]
      OBVIOUS
    <2> QED
      BY <2>1
  <1>2. ASSUME NEW k \in DOMAIN es PROVE \E i \in DOMAIN (p \o es) : (p \o es)[i] = es[k]
    <2>1. Len(p) + k \in DOMAIN (p \o es) /\ (p \o es)[Len(p) + k] = es[k]
      OBVIOUS
    <2> QED
      BY <2>1
  <1> QED
    BY <1>1, <1>2

(* The events are saved, unless the version has moved.                      *)
LEMMA GravarInv ==
    ASSUME AvaliacaoHipoteses, IAvaliacao, NEW h \in Docentes, V!SaveWithAudit(h)
    PROVE  IAvaliacao'
  <1> DEFINE es == docente[h].eventos
  <1>0. UNCHANGED <<ensino, anoLetivo, percursoLido, estudante, notas>>
    BY DEF V!SaveWithAudit
  <1>1. docente[h] \in Prontos /\ es \in Seq(EventosAvaliacao) /\ docente[h].passo = "gravar"
    <2>1. docente[h] \in Prontos /\ docente[h].passo = "gravar"
      BY DocenteTipo DEF V!SaveWithAudit, IAvaliacao, DominiosAvaliacao
    <2> QED
      BY <2>1 DEF Prontos
  <1>2. docente' \in [Docentes -> {V!Ocioso} \cup Pedidos \cup Prontos]
        /\ docente'[h].passo = "ocioso" /\ \A g \in Docentes \ {h} : docente'[g] = docente[g]
    BY DEF V!SaveWithAudit, V!Termina, IAvaliacao, DominiosAvaliacao, V!Ocioso
  <1>3. percurso \in Seq(EventosAvaliacao) /\ percurso' = percurso \o es
    BY DEF V!SaveWithAudit, IAvaliacao, DominiosAvaliacao
  <1>4. /\ percurso' \in Seq(EventosAvaliacao) /\ Len(percurso) <= Len(percurso')
        /\ \A i \in DOMAIN percurso : i \in DOMAIN percurso' /\ percurso'[i] = percurso[i]
        /\ \A i \in DOMAIN percurso' :
             i \in DOMAIN percurso \/ \E k \in DOMAIN es : percurso'[i] = es[k]
        /\ \A k \in DOMAIN es : \E i \in DOMAIN percurso' : percurso'[i] = es[k]
    <2>1. /\ percurso \o es \in Seq(EventosAvaliacao) /\ Len(percurso) <= Len(percurso \o es)
          /\ \A i \in DOMAIN percurso :
               i \in DOMAIN (percurso \o es) /\ (percurso \o es)[i] = percurso[i]
          /\ \A i \in DOMAIN (percurso \o es) :
               i \in DOMAIN percurso \/ \E k \in DOMAIN es : (percurso \o es)[i] = es[k]
          /\ \A k \in DOMAIN es : \E i \in DOMAIN (percurso \o es) : (percurso \o es)[i] = es[k]
      <3> HIDE DEF es
      <3> QED
        BY <1>1, <1>3, Acrescenta
    <2> QED
      BY <1>3, <2>1
  <1>5. \A k \in DOMAIN es : /\ es[k].em = anoLetivo /\ es[k].ano <= anoLetivo
                             /\ TemNormal(es[k])
    BY <1>1 DEF IAvaliacao, AnosOK, RecursoOK
  <1> HIDE DEF es
  <1>6. DominiosAvaliacao'
    <2>1. \A p \in V!Leitores : percursoLido[p] \in Nat /\ Len(percurso) \in Nat
                              /\ Len(percurso') \in Nat
      BY <1>3, <1>4 DEF IAvaliacao, DominiosAvaliacao
    <2>2. \A p \in V!Leitores : percursoLido[p] <= Len(percurso')
      BY <1>4, <2>1 DEF IAvaliacao, DominiosAvaliacao
    <2> QED
      BY <1>0, <1>2, <1>4, <2>2 DEF IAvaliacao, DominiosAvaliacao
  <1>7. AnosOK'
    <2>1. anoLetivo \in Nat /\ Len(percurso) \in Nat /\ Len(percurso') \in Nat
      BY <1>3, <1>4 DEF IAvaliacao, DominiosAvaliacao, Anos, AvaliacaoHipoteses
    <2>2. \A i \in DOMAIN percurso' : DoAno(percurso'[i])
      BY <1>4, <1>5, <2>1 DEF IAvaliacao, AnosOK, DoAno
    <2>3. \A g \in Docentes : docente[g].passo \in {"carregar", "avaliar"} =>
             docente[g].versao \in Nat
      BY DocenteTipo DEF IAvaliacao, DominiosAvaliacao, Pedidos
    <2>4. \A g \in Docentes : docente'[g].passo \in {"carregar", "avaliar"} =>
             docente'[g].em = anoLetivo /\ docente'[g].ano <= anoLetivo
               /\ docente'[g].versao <= Len(percurso')
      BY <1>2, <1>4, <2>1, <2>3 DEF IAvaliacao, AnosOK
    <2> QED
      BY <1>0, <1>2, <2>2, <2>4 DEF IAvaliacao, AnosOK, DoAno
  <1> DEFINE Tem(e) == e.tipo = "Avaliacao" /\ e.type # "normal" =>
        \E j \in DOMAIN percurso' : Normal(percurso'[j], e.ano) /\ percurso'[j].nivel = e.nivel
  <1>8. \A e : TemNormal(e) => Tem(e)
    BY <1>4 DEF TemNormal
  <1>9. RecursoOK'
    <2> HIDE DEF Tem
    <2>1. \A i \in DOMAIN percurso' : Tem(percurso'[i])
      BY <1>4, <1>5, <1>8 DEF IAvaliacao, RecursoOK
    <2>2. \A g \in Docentes : docente'[g].passo = "gravar" =>
             \A i \in DOMAIN docente'[g].eventos : Tem(docente'[g].eventos[i])
      BY <1>2, <1>8 DEF IAvaliacao, RecursoOK
    <2> QED
      BY <2>1, <2>2 DEF RecursoOK, TemNormal, Tem, Normal
  <1>10. \A ano : (Visto(ano) => Visto(ano)') /\ (Tardia(ano) => Tardia(ano)')
    BY <1>4 DEF Visto, Tardia
  <1>11. LinhaOK'
    <2> SUFFICES ASSUME ~Visto(anoLetivo)', ~Tardia(anoLetivo)',
                        NEW i \in DOMAIN percurso', Promove(percurso'[i])
                 PROVE  i <= percursoLido["estudantes"]
      BY <1>0 DEF LinhaOK, Promove
    <2>1. i \in DOMAIN percurso
      <3> SUFFICES ASSUME NEW k \in DOMAIN es, percurso'[i] = es[k] PROVE FALSE
        BY <1>4
      <3>1. es[k].ano = anoLetivo
        <4>1. ~(es[k].ano < anoLetivo)
          BY <1>0, <1>5 DEF Tardia, Promove
        <4>2. es[k].ano \in Nat /\ anoLetivo \in Nat
          BY <1>1 DEF IAvaliacao, DominiosAvaliacao, Anos, EventosAvaliacao, Lancadas,
             Avaliacoes, AvaliacaoHipoteses
        <4> QED
          BY <1>5, <4>1, <4>2
      <3>2. es[k].type # "normal"
        BY <1>0, <3>1 DEF Visto, Normal, Promove
      <3>3. \E j \in DOMAIN percurso : Normal(percurso[j], anoLetivo)
        BY <1>5, <3>1, <3>2 DEF TemNormal, Promove
      <3> QED
        BY <1>0, <1>10, <3>3 DEF Visto
    <2> QED
      BY <1>0, <1>4, <1>10, <2>1 DEF IAvaliacao, LinhaOK
  <1>12. ASSUME NEW ano \in Anos, ~Tardia(ano)' PROVE \E nivel \in Nat : NoNivel(ano, nivel)'
    <2>1. PICK nivel \in Nat : NoNivel(ano, nivel)
      BY <1>10, <1>12 DEF IAvaliacao, NivelOK
    <2>2. \A k \in DOMAIN es : /\ Normal(es[k], ano) => es[k].nivel = nivel
                               /\ ~Visto(ano) /\ es[k].tipo # "Avaliacao" /\ es[k].ano = ano
                                    => es[k].nivel = nivel
      BY <1>1, <2>1 DEF NoNivel, es
    <2>3. \A i \in DOMAIN percurso' : Normal(percurso'[i], ano) => percurso'[i].nivel = nivel
      BY <1>4, <2>1, <2>2 DEF NoNivel
    <2>4. \A g \in Docentes :
             docente'[g].passo = "avaliar" /\ docente'[g].ano = ano
               /\ (\A i \in 1 .. docente'[g].versao : ~Normal(percurso'[i], ano))
             => docente'[g].nivel = nivel
      <3> SUFFICES ASSUME NEW g \in Docentes, docente'[g].passo = "avaliar",
                          docente'[g].ano = ano,
                          \A i \in 1 .. docente'[g].versao : ~Normal(percurso'[i], ano)
                   PROVE  docente'[g].nivel = nivel
        OBVIOUS
      <3>1. docente'[g] = docente[g] /\ docente[g].versao \in Nat
            /\ docente[g].versao <= Len(percurso)
        BY <1>2, DocenteTipo DEF IAvaliacao, DominiosAvaliacao, Pedidos, AnosOK
      <3>2. \A i \in 1 .. docente[g].versao : percurso'[i] = percurso[i]
        BY <1>3, <1>4, <3>1
      <3> QED
        BY <2>1, <3>1, <3>2 DEF NoNivel
    <2>5. ASSUME ~Visto(ano)'
          PROVE  \A i \in DOMAIN percurso' :
                    percurso'[i].tipo # "Avaliacao" /\ percurso'[i].ano = ano
                    => percurso'[i].nivel = nivel
      BY <1>4, <1>10, <2>1, <2>2, <2>5 DEF NoNivel
    <2>6. NoNivel(ano, nivel)'
      BY <1>0, <1>2, <1>10, <2>1, <2>3, <2>4, <2>5 DEF NoNivel
    <2> QED
      BY <2>6
  <1> QED
    BY <1>6, <1>7, <1>9, <1>11, <1>12 DEF IAvaliacao, NivelOK

(* The row's level changes with a promotion only, so once the year has one. *)
LEMMA ProjetaInv ==
    ASSUME AvaliacaoHipoteses, IAvaliacao, NEW p \in V!Leitores, V!Projeta(p)
    PROVE  IAvaliacao'
  <1> DEFINE e == percurso[percursoLido[p] + 1]
  <1>0. UNCHANGED <<ensino, anoLetivo, percurso, docente, notas>>
    BY DEF V!Projeta
  <1>1. percursoLido[p] \in Nat /\ percursoLido[p] + 1 \in DOMAIN percurso /\ e \in EventosAvaliacao
    BY DEF V!Projeta, IAvaliacao, DominiosAvaliacao
  <1>2. /\ percursoLido' \in [V!Leitores -> Nat] /\ percursoLido'[p] = percursoLido[p] + 1
        /\ \A q \in V!Leitores \ {p} : percursoLido'[q] = percursoLido[q]
    BY <1>1 DEF V!Projeta, IAvaliacao, DominiosAvaliacao
  <1>3. estudante' \in [nivel : Nat, status : {"em_andamento", "finalizado"}]
    <2>1. CASE estudante' = estudante
      BY <2>1 DEF IAvaliacao, DominiosAvaliacao
    <2>2. CASE estudante' # estudante
      <3>1. e \in Avaliacoes /\ estudante' = V!handleAvaliacaoFinalAnoAcademico(e)
        BY <1>1, <2>2 DEF V!Projeta, V!handleAvaliacaoFinalAnoAcademico, EventosAvaliacao,
           Lancadas
      <3> QED
        BY <3>1 DEF V!handleAvaliacaoFinalAnoAcademico, Avaliacoes, IAvaliacao,
           DominiosAvaliacao
    <2> QED
      BY <2>1, <2>2
  <1>4. \A q \in V!Leitores : percursoLido'[q] <= Len(percurso)
    BY <1>1, <1>2 DEF IAvaliacao, DominiosAvaliacao, V!Projeta
  <1>5. DominiosAvaliacao'
    BY <1>0, <1>2, <1>3, <1>4 DEF IAvaliacao, DominiosAvaliacao
  <1>6. AnosOK' /\ RecursoOK'
    BY <1>0 DEF IAvaliacao, AnosOK, DoAno, RecursoOK, TemNormal
  <1>7. \A ano : (Visto(ano)' <=> Visto(ano)) /\ (Tardia(ano)' <=> Tardia(ano))
    BY <1>0 DEF Visto, Tardia
  <1>8. percursoLido["estudantes"] <= percursoLido'["estudantes"]
        /\ percursoLido["estudantes"] \in Nat /\ percursoLido'["estudantes"] \in Nat
    BY <1>1, <1>2 DEF V!Leitores, IAvaliacao, DominiosAvaliacao
  <1>9. LinhaOK'
    <2> SUFFICES ASSUME ~Visto(anoLetivo), ~Tardia(anoLetivo),
                        NEW i \in DOMAIN percurso, Promove(percurso[i])
                 PROVE  i <= percursoLido'["estudantes"]
      BY <1>0, <1>7 DEF LinhaOK, Promove
    <2>1. i <= percursoLido["estudantes"] /\ i \in Nat
      BY DEF IAvaliacao, LinhaOK, DominiosAvaliacao
    <2> QED
      BY <1>8, <2>1
  <1>10. ~Visto(anoLetivo) /\ ~Tardia(anoLetivo) => estudante'.nivel = estudante.nivel
    <2> SUFFICES ASSUME ~Visto(anoLetivo), ~Tardia(anoLetivo), p = "estudantes"
                 PROVE  estudante'.nivel = estudante.nivel
      BY DEF V!Projeta
    <2>1. ~Promove(e)
      BY <1>1 DEF IAvaliacao, LinhaOK
    <2> QED
      BY <2>1 DEF V!Projeta, Promove, V!handleAvaliacaoFinalAnoAcademico
  <1>11. ASSUME NEW ano \in Anos, ~Tardia(ano)' PROVE \E nivel \in Nat : NoNivel(ano, nivel)'
    <2>1. PICK nivel \in Nat : NoNivel(ano, nivel)
      BY <1>7, <1>11 DEF IAvaliacao, NivelOK
    <2>2. ~Visto(ano) /\ anoLetivo = ano => estudante'.nivel = nivel
      BY <1>7, <1>10, <1>11, <2>1 DEF NoNivel
    <2>3. NoNivel(ano, nivel)'
      BY <1>0, <1>7, <2>1, <2>2 DEF NoNivel
    <2> QED
      BY <2>3
  <1> QED
    BY <1>5, <1>6, <1>9, <1>11 DEF IAvaliacao, NivelOK

(* The next year begins at the level of the row, which has had every event. *)
LEMMA DefinirAnoInv ==
    ASSUME AvaliacaoHipoteses, IAvaliacao, V!DefinirAnoLetivoAcademia
    PROVE  IAvaliacao'
  <1>0. UNCHANGED <<ensino, percurso, percursoLido, estudante, docente, notas>>
        /\ anoLetivo' = anoLetivo + 1 /\ anoLetivo \in Nat
    BY DEF V!DefinirAnoLetivoAcademia, IAvaliacao, DominiosAvaliacao, Anos, AvaliacaoHipoteses
  <1>1. \A h \in Docentes : docente[h].passo = "ocioso"
    BY DEF V!DefinirAnoLetivoAcademia, V!Ocioso
  <1>2. DominiosAvaliacao'
    BY <1>0 DEF V!DefinirAnoLetivoAcademia, IAvaliacao, DominiosAvaliacao, Anos,
       AvaliacaoHipoteses
  <1>3. \A i \in DOMAIN percurso : percurso[i].em \in Nat /\ percurso[i].ano \in Nat
                                   /\ percurso[i].ano <= anoLetivo /\ percurso[i].em <= anoLetivo
    <2> SUFFICES ASSUME NEW i \in DOMAIN percurso
                 PROVE  /\ percurso[i].em \in Nat /\ percurso[i].ano \in Nat
                        /\ percurso[i].ano <= anoLetivo /\ percurso[i].em <= anoLetivo
      OBVIOUS
    <2>1. percurso[i] \in EventosAvaliacao /\ DoAno(percurso[i])
      BY DEF IAvaliacao, DominiosAvaliacao, AnosOK
    <2>2. percurso[i].em \in Nat /\ percurso[i].ano \in Nat
      BY <2>1 DEF EventosAvaliacao, Lancadas, Avaliacoes, Anos, AvaliacaoHipoteses
    <2> QED
      BY <1>0, <2>1, <2>2 DEF DoAno
  <1>4. AnosOK'
    <2>1. \A i \in DOMAIN percurso : percurso[i].ano <= percurso[i].em
                                     /\ percurso[i].em <= anoLetivo + 1
      BY <1>0, <1>3 DEF IAvaliacao, AnosOK, DoAno
    <2> QED
      BY <1>0, <1>1, <2>1 DEF AnosOK, DoAno
  <1>5. RecursoOK'
    BY <1>0, <1>1 DEF IAvaliacao, RecursoOK, TemNormal
  <1>6. LinhaOK'
    BY <1>0 DEF LinhaOK, V!DefinirAnoLetivoAcademia, IAvaliacao, DominiosAvaliacao, V!Leitores
  <1>7. ASSUME NEW ano \in Anos, ~Tardia(ano)' PROVE \E nivel \in Nat : NoNivel(ano, nivel)'
    <2>1. CASE ano = anoLetivo + 1
      <3>1. \A i \in DOMAIN percurso : percurso[i].ano # ano
        BY <1>0, <1>3, <2>1
      <3>2. estudante.nivel \in Nat
        BY DEF IAvaliacao, DominiosAvaliacao
      <3>3. NoNivel(ano, estudante.nivel)'
        BY <1>0, <1>1, <3>1 DEF NoNivel, Normal
      <3> QED
        BY <1>0, <3>2, <3>3
    <2>2. CASE ano # anoLetivo + 1
      <3>1. PICK nivel \in Nat : NoNivel(ano, nivel)
        BY <1>0, <1>7 DEF IAvaliacao, NivelOK, Tardia
      <3>2. NoNivel(ano, nivel)'
        BY <1>0, <1>1, <2>2, <3>1 DEF NoNivel, Visto
      <3> QED
        BY <3>2
    <2> QED
      BY <2>1, <2>2
  <1> QED
    BY <1>2, <1>4, <1>5, <1>6, <1>7 DEF IAvaliacao, NivelOK

(* Every step keeps the invariant.                                          *)
LEMMA AvaliacaoNext ==
    ASSUME AvaliacaoHipoteses, IAvaliacao, [V!Next]_V!vars
    PROVE  IAvaliacao'
  <1>1. ASSUME NEW h \in Docentes, NEW m \in Materias, NEW cat \in V!Categorias,
               NEW v \in Valores, V!RegistrarNota(h, m, cat, v) PROVE IAvaliacao'
    BY <1>1, RegistrarNotaInv
  <1>2. ASSUME NEW h \in Docentes, NEW m \in Materias, NEW cat \in V!Categorias,
               NEW v \in Valores, NEW ano \in 1 .. UltimoAno,
               V!CorrigirNota(h, ano, m, cat, v) PROVE IAvaliacao'
    BY <1>2, CorrigirNotaInv
  <1>3. ASSUME NEW h \in Docentes, V!Load(h) \/ V!Avaliar(h) \/ V!SaveWithAudit(h) PROVE IAvaliacao'
    BY <1>3, CarregarInv, AvaliarInv, GravarInv
  <1>4. ASSUME NEW p \in V!Leitores, V!Projeta(p) PROVE IAvaliacao'
    BY <1>4, ProjetaInv
  <1>5. CASE V!DefinirAnoLetivoAcademia
    BY <1>5, DefinirAnoInv
  <1>6. CASE UNCHANGED V!vars
    BY <1>6 DEF V!vars, IAvaliacao, DominiosAvaliacao, AnosOK, DoAno, RecursoOK, TemNormal,
       LinhaOK, Visto, Tardia,
                NivelOK, NoNivel
  <1> QED
    BY <1>1, <1>2, <1>3, <1>4, <1>5, <1>6 DEF V!Next

(* Two promotions of a year have normal assessments at their levels, and    *)
(* those are at one level.                                                  *)
LEMMA AvaliacaoOneLevel == ASSUME IAvaliacao PROVE V!OneLevelPerYear
  <1> SUFFICES ASSUME NEW e \in V!Promocoes, NEW f \in V!Promocoes, e.ano = f.ano,
                      ~\E g \in V!Promocoes : g.ano < e.ano /\ g.em = e.ano
               PROVE  e.nivel = f.nivel
    BY DEF V!OneLevelPerYear
  <1>1. \A i \in DOMAIN percurso : Promove(percurso[i]) => percurso[i] \in V!Promocoes
    BY DEF V!Promocoes, Promove, V!Range
  <1>2. ~Tardia(e.ano)
    BY <1>1 DEF Tardia
  <1>3. ASSUME NEW g \in V!Promocoes
        PROVE  g.ano \in Anos /\ \E j \in DOMAIN percurso : Normal(percurso[j], g.ano) /\ percurso[j].nivel = g.nivel
    <2>1. PICK i \in DOMAIN percurso : g = percurso[i] /\ Promove(percurso[i])
      BY DEF V!Promocoes, Promove, V!Range
    <2>2. g \in Avaliacoes /\ TemNormal(g)
      BY <2>1, SMTT(20) DEF IAvaliacao, DominiosAvaliacao, RecursoOK, EventosAvaliacao, Lancadas, Promove
    <2> QED
      BY <2>1, <2>2 DEF TemNormal, Normal, Promove, Avaliacoes
  <1>4. PICK nivel \in Nat : NoNivel(e.ano, nivel)
    BY <1>2, <1>3 DEF IAvaliacao, NivelOK
  <1> QED
    BY <1>3, <1>4 DEF NoNivel

(* The invariant contains the types of the variables.                       *)
LEMMA AvaliacaoTypeOK == ASSUME IAvaliacao PROVE V!TypeOK
  <1>1. \A i \in DOMAIN percurso : percurso[i].tipo \in {"Nota", "Correcao", "Avaliacao"}
    BY DEF IAvaliacao, DominiosAvaliacao, EventosAvaliacao, Lancadas, Avaliacoes
  <1> QED
    BY <1>1 DEF IAvaliacao, DominiosAvaliacao, V!TypeOK, Anos

-----------------------------------------------------------------------------
(* Rules of assessment.  While no deletion overlaps another request, what   *)
(* the handlers read about the active rules stays true until they write;    *)
(* and what is computed of them, step by step, is the least set of types    *)
(* that follows the rules.                                                  *)

R == INSTANCE RegrasAvaliacao

RegrasHipoteses ==
    IsFiniteSet(TiposRegra) /\ R!Nenhum \notin TiposRegra /\ MaxGestoes \in Nat

LinhasRegra == [type : TiposRegra, depende : TiposRegra \cup {R!Nenhum}, activa : BOOLEAN]
PassosCriar == {"unicidade", "raiz", "dependencia", "inserir"}
Criacoes == [passo : PassosCriar, op : {"criar"}, type : TiposRegra,
             depende : TiposRegra \cup {R!Nenhum}, atual : TiposRegra \cup {R!Nenhum},
             visitado : SUBSET TiposRegra]
Delecoes == [passo : {"cadeia", "inactivar"}, op : {"deletar"}, id : Nat, ids : SUBSET Nat]

TiposRegras ==
    /\ regras \in Seq(LinhasRegra) /\ \A i \in DOMAIN regras : regras[i].type # regras[i].depende
    /\ gestor \in [Gestores -> {R!Parado} \cup Criacoes \cup Delecoes]
    /\ \A g \in Gestores : gestor[g] \in Criacoes => gestor[g].type # gestor[g].depende
    /\ gestoes \in 0..MaxGestoes /\ sobrepostas \subseteq {"criar", "deletar"}

\* Two requests in progress have overlapped.
SobrepostasOK ==
    \A g, h \in Gestores : g # h /\ gestor[g] # R!Parado /\ gestor[h] # R!Parado =>
        gestor[g].op \in sobrepostas

\* A deletion has read the whole chain of an active rule.
CadeiaOK(p) ==
    /\ p.passo \in {"cadeia", "inactivar"} => p.id \in R!Activas
    /\ p.passo = "inactivar" => p.ids = R!idsCadeiaDependenteRegraAvaliacaoFinal(regras[p.id].type)

\* A creation knows that the rule it depends on is active.
DependenciaOK(p) ==
    /\ p.passo \in {"unicidade", "raiz"} => p.atual = p.depende
    /\ p.passo = "dependencia" =>
          /\ p.depende # R!Nenhum
          /\ p.atual = p.depende \/ p.depende \in R!TiposActivos
    /\ p.passo = "inserir" => p.depende \in R!TiposActivos \cup {R!Nenhum}

\* No deletion overlapped: the active rules depend on active ones, down to a root.
SemDelecoesOK ==
    "deletar" \notin sobrepostas =>
        /\ \A i \in R!Activas : regras[i].depende \in R!TiposActivos \cup {R!Nenhum}
        /\ R!TiposActivos \subseteq R!ChegamARaiz
        /\ \A g \in Gestores : CadeiaOK(gestor[g]) /\ DependenciaOK(gestor[g])

\* Nothing overlapped: there is one root at most.
UmaRaizOK ==
    sobrepostas = {} =>
        /\ \A i, k \in R!Raizes : i = k
        /\ \A g \in Gestores :
              /\ gestor[g].passo \in {"raiz", "dependencia", "inserir"} =>
                    gestor[g].type \notin R!TiposActivos
              /\ gestor[g].passo = "inserir" /\ gestor[g].depende = R!Nenhum => R!Raizes = {}

IRegras == TiposRegras /\ SobrepostasOK /\ SemDelecoesOK /\ UmaRaizOK

(* The steps of the closure of a set of types.                              *)
Alcance(f, A, m) ==
    f = [n \in 0..m |-> IF n = 0 THEN A ELSE f[n - 1] \cup R!Dependem(f[n - 1])]

(* There is such a sequence of steps.                                       *)
LEMMA AlcanceExiste ==
    ASSUME NEW A, NEW m \in Nat
    PROVE  \E f : Alcance(f, A, m)
  <1> DEFINE Sem == {k \in Nat : ~\E f : Alcance(f, A, k)}
  <1>1. SUFFICES ASSUME Sem # {} PROVE FALSE
    OBVIOUS
  <1>2. PICK k \in Sem : \A y \in Sem : k <= y
    <2>1. Sem \in SUBSET Nat
      OBVIOUS
    <2> HIDE DEF Sem
    <2> QED
      BY <1>1, <2>1, Primeiro
  <1>3. k # 0
    <2>1. Alcance([n \in 0..0 |-> A], A, 0)
      BY DEF Alcance
    <2> QED
      BY <2>1
  <1>4. k - 1 \in Nat /\ k - 1 \notin Sem
    BY <1>2, <1>3
  <1>5. PICK g : Alcance(g, A, k - 1)
    BY <1>4
  <1> DEFINE f == [n \in 0..k |-> IF n = k THEN g[k - 1] \cup R!Dependem(g[k - 1]) ELSE g[n]]
  <1>6. ASSUME NEW n \in 0..k
        PROVE  f[n] = IF n = 0 THEN A ELSE f[n - 1] \cup R!Dependem(f[n - 1])
    <2>1. CASE n = k
      BY <1>3, <2>1
    <2>2. CASE n # k /\ n = 0
      BY <1>5, <2>2 DEF Alcance
    <2>3. CASE n # k /\ n # 0
      <3>1. n \in 0..(k - 1) /\ n - 1 \in 0..k /\ n - 1 # k
        BY <2>3
      <3>2. g[n] = g[n - 1] \cup R!Dependem(g[n - 1])
        BY <1>5, <2>3, <3>1 DEF Alcance
      <3>3. f[n] = g[n] /\ f[n - 1] = g[n - 1]
        BY <2>3, <3>1
      <3> QED
        BY <2>3, <3>2, <3>3
    <2> QED
      BY <2>1, <2>2, <2>3
  <1>7. Alcance(f, A, k)
    BY <1>6 DEF Alcance
  <1> QED
    BY <1>2, <1>7

(* Rules are counted as other finite sets are.                              *)
LEMMA Conta ==
    ASSUME NEW Z
    PROVE  R!Cardinality(Z) = Cardinality(Z)
  BY DEF R!Cardinality, Cardinality

(* The closure is the last of them.                                         *)
LEMMA FechoPassos ==
    ASSUME NEW A, Cardinality(TiposRegra) \in Nat
    PROVE  \E f : /\ R!Fecho(A) = f[Cardinality(TiposRegra)]
                  /\ f[0] = A
                  /\ \A n \in 1..Cardinality(TiposRegra) : f[n] = f[n - 1] \cup R!Dependem(f[n - 1])
  <1> DEFINE N == Cardinality(TiposRegra)
  <1> DEFINE f == CHOOSE f : f = [n \in 0..N |-> IF n = 0 THEN A ELSE f[n - 1] \cup R!Dependem(f[n - 1])]
  <1>0. \E g : Alcance(g, A, N)
    BY AlcanceExiste
  <1>1. Alcance(f, A, N)
    BY <1>0, Zenon DEF Alcance
  <1>2. R!Fecho(A) = f[N]
    BY Conta DEF R!Fecho
  <1> HIDE DEF f
  <1>3. f[0] = A /\ \A n \in 1..N : f[n] = f[n - 1] \cup R!Dependem(f[n - 1])
    <2>1. ASSUME NEW n \in 0..N
          PROVE  f[n] = IF n = 0 THEN A ELSE f[n - 1] \cup R!Dependem(f[n - 1])
      BY <1>1, Zenon DEF Alcance
    <2>2. 0 \in 0..N /\ \A n \in 1..N : n \in 0..N /\ n # 0
      OBVIOUS
    <2>3. f[0] = A
      BY <2>1, <2>2
    <2>4. ASSUME NEW n \in 1..N PROVE f[n] = f[n - 1] \cup R!Dependem(f[n - 1])
      BY <2>1, <2>2
    <2> QED
      BY <2>3, <2>4
  <1> QED
    BY <1>2, <1>3

(* The closure has the types it starts from.                                *)
LEMMA FechoTem ==
    ASSUME NEW A, IsFiniteSet(TiposRegra)
    PROVE  A \subseteq R!Fecho(A)
  <1> DEFINE N == Cardinality(TiposRegra)
  <1>0. N \in Nat
    BY FS_CardinalityType
  <1>1. PICK f : /\ R!Fecho(A) = f[N] /\ f[0] = A
                 /\ \A n \in 1..N : f[n] = f[n - 1] \cup R!Dependem(f[n - 1])
    BY <1>0, FechoPassos
  <1> DEFINE Fora == {n \in 0..N : ~(A \subseteq f[n])}
  <1>2. SUFFICES ASSUME Fora # {} PROVE FALSE
    BY <1>0, <1>1
  <1>3. PICK n \in Fora : \A y \in Fora : n <= y
    <2>1. Fora \in SUBSET Nat
      BY <1>0
    <2> HIDE DEF Fora
    <2> QED
      BY <1>2, <2>1, Primeiro
  <1>4. n # 0
    BY <1>1
  <1>5. n \in 1..N /\ n - 1 \in 0..N /\ n - 1 < n
    BY <1>0, <1>4
  <1>6. A \subseteq f[n - 1]
    BY <1>3, <1>5
  <1> QED
    BY <1>1, <1>5, <1>6

(* It is in every set of types that has those and follows the rules.        *)
LEMMA FechoMenor ==
    ASSUME NEW A, NEW X, A \subseteq X, IsFiniteSet(TiposRegra),
           \A i \in R!Activas : regras[i].depende \in X => regras[i].type \in X
    PROVE  R!Fecho(A) \subseteq X
  <1> DEFINE N == Cardinality(TiposRegra)
  <1>0. N \in Nat
    BY FS_CardinalityType
  <1>1. PICK f : /\ R!Fecho(A) = f[N] /\ f[0] = A
                 /\ \A n \in 1..N : f[n] = f[n - 1] \cup R!Dependem(f[n - 1])
    BY <1>0, FechoPassos
  <1> DEFINE Fora == {n \in 0..N : ~(f[n] \subseteq X)}
  <1>2. SUFFICES ASSUME Fora # {} PROVE FALSE
    BY <1>0, <1>1
  <1>3. PICK n \in Fora : \A y \in Fora : n <= y
    <2>1. Fora \in SUBSET Nat
      BY <1>0
    <2> HIDE DEF Fora
    <2> QED
      BY <1>2, <2>1, Primeiro
  <1>4. n # 0
    BY <1>1
  <1>5. n \in 1..N /\ n - 1 \in 0..N /\ n - 1 < n
    BY <1>0, <1>4
  <1>6. f[n - 1] \subseteq X
    BY <1>3, <1>5
  <1>7. R!Dependem(f[n - 1]) \subseteq X
    BY <1>6 DEF R!Dependem
  <1> QED
    BY <1>1, <1>5, <1>6, <1>7

(* The closure is reached step by step.                                     *)
PassosFecho(f, A, n) ==
    f[0] = A /\ \A i \in 1..n : f[i] = f[i - 1] \cup R!Dependem(f[i - 1])
SaoTipos == \A i \in R!Activas : regras[i].type \in TiposRegra

(* It stays among the types there are.                                      *)
LEMMA PassosTipos ==
    ASSUME NEW n \in Nat, NEW A \in SUBSET TiposRegra, NEW f, PassosFecho(f, A, n), SaoTipos
    PROVE  \A i \in 0..n : f[i] \subseteq TiposRegra
  <1> DEFINE Fora == {i \in 0..n : ~(f[i] \subseteq TiposRegra)}
  <1>1. SUFFICES ASSUME Fora # {} PROVE FALSE
    OBVIOUS
  <1>2. PICK i \in Fora : \A y \in Fora : i <= y
    <2>1. Fora \in SUBSET Nat
      OBVIOUS
    <2> HIDE DEF Fora
    <2> QED
      BY <1>1, <2>1, Primeiro
  <1>3. i # 0
    BY DEF PassosFecho
  <1>4. i \in 1..n /\ i - 1 \in 0..n /\ i - 1 < i
    BY <1>3
  <1>5. f[i - 1] \subseteq TiposRegra
    BY <1>2, <1>4
  <1>6. R!Dependem(f[i - 1]) \subseteq TiposRegra
    BY DEF R!Dependem, SaoTipos
  <1>7. f[i] = f[i - 1] \cup R!Dependem(f[i - 1])
    BY <1>4 DEF PassosFecho
  <1> QED
    BY <1>5, <1>6, <1>7

(* A step that adds nothing is followed by no other.                        *)
LEMMA PassosParam ==
    ASSUME NEW n \in Nat, NEW A, NEW f, PassosFecho(f, A, n), NEW k \in 1..n, f[k] = f[k - 1]
    PROVE  f[n] = f[k] /\ R!Dependem(f[k]) \subseteq f[k]
  <1> DEFINE Fora == {i \in k..n : f[i] # f[k]}
  <1>0. f[k] = f[k - 1] \cup R!Dependem(f[k - 1])
    BY DEF PassosFecho
  <1>1. Fora = {}
    <2>1. SUFFICES ASSUME Fora # {} PROVE FALSE
      OBVIOUS
    <2>2. PICK i \in Fora : \A y \in Fora : i <= y
      <3>1. Fora \in SUBSET Nat
        OBVIOUS
      <3> HIDE DEF Fora
      <3> QED
        BY <2>1, <3>1, Primeiro
    <2>3. i \in 1..n /\ i - 1 \in k..n /\ i - 1 < i
      BY <2>2
    <2>4. f[i - 1] = f[k]
      BY <2>2, <2>3
    <2>5. f[i] = f[i - 1] \cup R!Dependem(f[i - 1])
      BY <2>3 DEF PassosFecho
    <2> QED
      BY <1>0, <2>2, <2>4, <2>5
  <1>2. n \in k..n
    OBVIOUS
  <1> QED
    BY <1>0, <1>1, <1>2

(* Until then each step adds a type.                                        *)
LEMMA PassosCrescem ==
    ASSUME NEW n \in Nat, NEW A \in SUBSET TiposRegra, NEW f, PassosFecho(f, A, n), SaoTipos,
           IsFiniteSet(TiposRegra), \A k \in 1..n : f[k] # f[k - 1]
    PROVE  Cardinality(f[n]) \in Nat /\ Cardinality(f[n]) >= n
  <1> DEFINE Fora == {i \in 0..n : ~(Cardinality(f[i]) >= i)}
  <1>0. ASSUME NEW i \in 0..n
        PROVE  f[i] \in SUBSET TiposRegra /\ IsFiniteSet(f[i]) /\ Cardinality(f[i]) \in Nat
    BY PassosTipos, FS_Subset, FS_CardinalityType
  <1>1. Fora = {}
    <2>1. SUFFICES ASSUME Fora # {} PROVE FALSE
      OBVIOUS
    <2>2. PICK i \in Fora : \A y \in Fora : i <= y
      <3>1. Fora \in SUBSET Nat
        OBVIOUS
      <3> HIDE DEF Fora
      <3> QED
        BY <2>1, <3>1, Primeiro
    <2>3. i \in 1..n /\ i - 1 \in 0..n /\ i - 1 < i
      BY <1>0, <2>2
    <2>4. Cardinality(f[i - 1]) >= i - 1
      BY <2>2, <2>3
    <2>5. f[i] = f[i - 1] \cup R!Dependem(f[i - 1]) /\ f[i] # f[i - 1]
      BY <2>3 DEF PassosFecho
    <2>6. f[i - 1] \in SUBSET f[i] /\ IsFiniteSet(f[i])
      BY <1>0, <2>3, <2>5
    <2>7. /\ Cardinality(f[i - 1]) <= Cardinality(f[i])
          /\ Cardinality(f[i]) = Cardinality(f[i - 1]) => f[i] = f[i - 1]
      BY <2>6, FS_Subset
    <2>8. Cardinality(f[i]) \in Nat /\ Cardinality(f[i - 1]) \in Nat
      BY <1>0, <2>3
    <2> QED
      BY <2>2, <2>3, <2>4, <2>5, <2>7, <2>8
  <1>2. n \in 0..n
    OBVIOUS
  <1> QED
    BY <1>0, <1>1, <1>2

(* Nothing is left to add after as many steps as there are types.           *)
LEMMA FechoFechado ==
    ASSUME NEW A \in SUBSET TiposRegra, IsFiniteSet(TiposRegra), SaoTipos
    PROVE  \A i \in R!Activas : regras[i].depende \in R!Fecho(A) => regras[i].type \in R!Fecho(A)
  <1>0. PICK n : n = Cardinality(TiposRegra) /\ n \in Nat
    BY FS_CardinalityType
  <1>1. PICK f : R!Fecho(A) = f[n] /\ PassosFecho(f, A, n)
    BY <1>0, FechoPassos DEF PassosFecho
  <1>2. R!Dependem(f[n]) \subseteq f[n]
    <2>1. CASE \A k \in 1..n : f[k] # f[k - 1]
      <3>1. f[n] \in SUBSET TiposRegra
        BY <1>0, <1>1, PassosTipos
      <3>2. Cardinality(f[n]) \in Nat /\ Cardinality(f[n]) >= n
        BY <1>0, <1>1, <2>1, PassosCrescem
      <3>3. Cardinality(f[n]) <= n /\ (n = Cardinality(f[n]) => TiposRegra = f[n])
        BY <1>0, <3>1, FS_Subset
      <3>4. f[n] = TiposRegra
        BY <1>0, <3>2, <3>3
      <3> QED
        BY <3>4 DEF R!Dependem, SaoTipos
    <2>2. CASE \E k \in 1..n : f[k] = f[k - 1]
      BY <1>0, <1>1, <2>2, PassosParam
    <2> QED
      BY <2>1, <2>2
  <1> QED
    BY <1>1, <1>2 DEF R!Dependem

(* Where a root is reached, in a state and in the one after it.             *)
TiposRaiz == {regras[i].type : i \in R!Raizes}
ChegamOK ==
    /\ TiposRaiz \subseteq R!ChegamARaiz
    /\ \A i \in R!Activas : regras[i].depende \in R!ChegamARaiz => regras[i].type \in R!ChegamARaiz
    /\ \A X : TiposRaiz \subseteq X
              /\ (\A i \in R!Activas : regras[i].depende \in X => regras[i].type \in X)
             => R!ChegamARaiz \subseteq X

(* They are the least set that has the roots and follows the rules.         *)
LEMMA Chegam == IsFiniteSet(TiposRegra) /\ SaoTipos => ChegamOK
  <1> SUFFICES ASSUME IsFiniteSet(TiposRegra), SaoTipos PROVE ChegamOK
    OBVIOUS
  <1>0. R!ChegamARaiz = R!Fecho(TiposRaiz)
    BY DEF R!ChegamARaiz, TiposRaiz
  <1>1. TiposRaiz \in SUBSET TiposRegra
    BY DEF TiposRaiz, R!Raizes, SaoTipos
  <1>2. TiposRaiz \subseteq R!ChegamARaiz
    BY <1>0, FechoTem
  <1>3. \A i \in R!Activas : regras[i].depende \in R!ChegamARaiz => regras[i].type \in R!ChegamARaiz
    BY <1>0, <1>1, FechoFechado
  <1>4. ASSUME NEW X, TiposRaiz \subseteq X,
               \A i \in R!Activas : regras[i].depende \in X => regras[i].type \in X
        PROVE  R!ChegamARaiz \subseteq X
    BY <1>0, <1>4, FechoMenor
  <1> QED
    BY <1>2, <1>3, <1>4 DEF ChegamOK

(* So they are after a step.                                                *)
LEMMA ChegamDepois == (IsFiniteSet(TiposRegra) /\ SaoTipos)' => ChegamOK'
  BY Chegam, PTL

(* What a record says of its step.                                          *)
LEMMA GestorTipo ==
    ASSUME NEW p \in {R!Parado} \cup Criacoes \cup Delecoes
    PROVE  /\ p = R!Parado => p.passo = "parado"
           /\ p.passo \in PassosCriar => p \in Criacoes
           /\ p.passo \in {"cadeia", "inactivar"} => p \in Delecoes
           /\ p \in Criacoes => p.passo \in PassosCriar /\ p # R!Parado /\ p.op = "criar"
           /\ p \in Delecoes =>
                p.passo \in {"cadeia", "inactivar"} /\ p # R!Parado /\ p.op = "deletar"
  BY DEF R!Parado, Criacoes, Delecoes, PassosCriar

(* There are no rules at first.                                             *)
LEMMA RegrasInit ==
    ASSUME RegrasHipoteses, R!Init
    PROVE  IRegras
  <1> USE DEF R!Init
  <1>1. TiposRegras
    BY GestorTipo DEF TiposRegras, RegrasHipoteses
  <1>2. R!Activas = {} /\ R!Raizes = {} /\ R!TiposActivos = {}
    BY DEF R!Activas, R!Raizes, R!TiposActivos
  <1>3. \A g \in Gestores : gestor[g] = R!Parado /\ gestor[g].passo = "parado"
    BY DEF R!Parado
  <1>4. SobrepostasOK /\ UmaRaizOK
    BY <1>2, <1>3 DEF SobrepostasOK, UmaRaizOK
  <1>5. SemDelecoesOK
    BY <1>2, <1>3 DEF SemDelecoesOK, CadeiaOK, DependenciaOK
  <1> QED
    BY <1>1, <1>4, <1>5 DEF IRegras

(* The rules are of known types.                                            *)
LEMMA RegrasSaoTipos == IRegras => SaoTipos
  <1> SUFFICES ASSUME IRegras PROVE SaoTipos
    OBVIOUS
  <1>1. \A i \in DOMAIN regras : regras[i] \in LinhasRegra
    BY DEF IRegras, TiposRegras
  <1> QED
    BY <1>1 DEF SaoTipos, R!Activas, LinhasRegra

(* The invariant says what the run checks.                                  *)
LEMMA RegrasImplies ==
    ASSUME RegrasHipoteses, IRegras
    PROVE  R!RulesReachARoot
  <1>1. SaoTipos
    BY RegrasSaoTipos
  <1>2. ChegamOK
    BY <1>1, Chegam DEF RegrasHipoteses
  <1>3. ASSUME sobrepostas = {}, R!Activas # {} PROVE R!validarCadeiaAvaliacaoFinalAplicavel
    <2>1. R!Raizes # {}
      <3>1. SUFFICES ASSUME R!Raizes = {} PROVE FALSE
        OBVIOUS
      <3>2. R!ChegamARaiz \subseteq {}
        BY <1>2, <3>1 DEF ChegamOK, TiposRaiz
      <3>3. R!TiposActivos \subseteq R!ChegamARaiz
        BY <1>3 DEF IRegras, SemDelecoesOK
      <3> QED
        BY <1>3, <3>2, <3>3 DEF R!TiposActivos
    <2>2. PICK i : R!Raizes = {i}
      BY <1>3, <2>1 DEF IRegras, UmaRaizOK
    <2>3. Cardinality(R!Raizes) = 1
      BY <2>2, FS_Singleton
    <2> QED
      BY <1>3, <2>3, Conta DEF R!validarCadeiaAvaliacaoFinalAplicavel, IRegras, SemDelecoesOK
  <1>4. "deletar" \notin sobrepostas => R!TiposActivos \subseteq R!ChegamARaiz
    BY DEF IRegras, SemDelecoesOK
  <1> QED
    BY <1>3, <1>4 DEF R!RulesReachARoot

(* The same rules, the same closure.                                        *)
LEMMA Mesmas ==
    ASSUME regras' = regras
    PROVE  /\ R!Activas' = R!Activas /\ R!TiposActivos' = R!TiposActivos /\ R!Raizes' = R!Raizes
           /\ R!ChegamARaiz' = R!ChegamARaiz
           /\ \A t : R!idsCadeiaDependenteRegraAvaliacaoFinal(t)'
                       = R!idsCadeiaDependenteRegraAvaliacaoFinal(t)
  <1>1. R!Activas' = R!Activas /\ R!TiposActivos' = R!TiposActivos /\ R!Raizes' = R!Raizes
    BY DEF R!Activas, R!TiposActivos, R!Raizes
  <1>2. ASSUME NEW A PROVE R!Fecho(A)' = R!Fecho(A)
    BY DEF R!Fecho, R!Dependem, R!Activas
  <1> QED
    BY <1>1, <1>2 DEF R!ChegamARaiz, R!idsCadeiaDependenteRegraAvaliacaoFinal

(* A step of one request that leaves the rules alone: what it must keep.    *)
Segue(g, p) ==
    /\ regras' = regras /\ gestoes' = gestoes /\ sobrepostas' = sobrepostas
    /\ gestor' = [gestor EXCEPT ![g] = p]

LEMMA SegueInv ==
    ASSUME IRegras, NEW g \in Gestores, NEW p \in {R!Parado} \cup Criacoes \cup Delecoes,
           Segue(g, p),
           p \in Criacoes => p.type # p.depende,
           p # R!Parado => gestor[g] # R!Parado /\ p.op = gestor[g].op,
           "deletar" \notin sobrepostas => CadeiaOK(p) /\ DependenciaOK(p),
           sobrepostas = {} /\ p.passo \in {"raiz", "dependencia", "inserir"} =>
               p.type \notin R!TiposActivos /\ (p.passo = "inserir" /\ p.depende = R!Nenhum => R!Raizes = {})
    PROVE  IRegras'
  <1>1. \A h \in Gestores : gestor'[h] = IF h = g THEN p ELSE gestor[h]
    BY DEF IRegras, TiposRegras, Segue
  <1>2. TiposRegras'
    <2>1. gestor' \in [Gestores -> {R!Parado} \cup Criacoes \cup Delecoes]
      BY DEF IRegras, TiposRegras, Segue
    <2> QED
      BY <1>1, <2>1 DEF IRegras, TiposRegras, Segue
  <1>3. SobrepostasOK'
    BY <1>1 DEF IRegras, SobrepostasOK, Segue
  <1>4. /\ R!Activas' = R!Activas /\ R!TiposActivos' = R!TiposActivos /\ R!Raizes' = R!Raizes
        /\ R!ChegamARaiz' = R!ChegamARaiz /\ regras' = regras
        /\ \A t : R!idsCadeiaDependenteRegraAvaliacaoFinal(t)'
                    = R!idsCadeiaDependenteRegraAvaliacaoFinal(t)
    BY Mesmas DEF Segue
  <1>5. SemDelecoesOK'
    <2>1. SUFFICES ASSUME "deletar" \notin sobrepostas PROVE SemDelecoesOK'
      BY DEF SemDelecoesOK, Segue
    <2>2. ASSUME NEW h \in Gestores PROVE CadeiaOK(gestor[h])' /\ DependenciaOK(gestor[h])'
      <3>1. CadeiaOK(gestor'[h]) /\ DependenciaOK(gestor'[h])
        BY <1>1, <2>1 DEF IRegras, SemDelecoesOK
      <3> QED
        BY <1>4, <3>1 DEF CadeiaOK, DependenciaOK
    <2> QED
      BY <1>4, <2>1, <2>2 DEF IRegras, SemDelecoesOK
  <1>6. UmaRaizOK'
    BY <1>1, <1>4 DEF IRegras, UmaRaizOK, Segue
  <1> QED
    BY <1>2, <1>3, <1>5, <1>6 DEF IRegras

(* A request comes in.                                                      *)
LEMMA RecebeInv ==
    ASSUME RegrasHipoteses, IRegras, NEW g \in Gestores, NEW p \in Criacoes \cup Delecoes,
           R!Recebe(g, p),
           p \in Criacoes => p.type # p.depende, p.passo \in {"unicidade", "cadeia"},
           CadeiaOK(p), DependenciaOK(p)
    PROVE  IRegras'
  <1>1. \A h \in Gestores : gestor'[h] = IF h = g THEN p ELSE gestor[h]
    BY DEF IRegras, TiposRegras, R!Recebe
  <1>2. ASSUME NEW h \in Gestores, gestor[h] # R!Parado PROVE gestor[h].op \in {"criar", "deletar"}
    BY <1>2, GestorTipo DEF IRegras, TiposRegras
  <1>3. p.op \in {"criar", "deletar"} /\ p # R!Parado
    BY GestorTipo
  <1> DEFINE novas == IF \A h \in Gestores : gestor[h] = R!Parado THEN {}
                      ELSE {p.op} \cup {gestor[h].op : h \in {k \in Gestores : gestor[k] # R!Parado}}
  <1>4. sobrepostas' = sobrepostas \cup novas
    BY DEF R!Recebe
  <1>5. novas \subseteq {"criar", "deletar"}
    BY <1>2, <1>3
  <1>6. \A h \in Gestores : gestor[h] # R!Parado => gestor[h].op \in novas /\ p.op \in novas
    OBVIOUS
  <1> HIDE DEF novas
  <1>7. TiposRegras'
    <2>1. gestor' \in [Gestores -> {R!Parado} \cup Criacoes \cup Delecoes]
      BY DEF IRegras, TiposRegras, R!Recebe
    <2>2. gestoes' \in 0..MaxGestoes
      BY DEF IRegras, TiposRegras, R!Recebe, RegrasHipoteses
    <2> QED
      BY <1>1, <1>4, <1>5, <2>1, <2>2 DEF IRegras, TiposRegras, R!Recebe
  <1>8. SobrepostasOK'
    BY <1>1, <1>3, <1>4, <1>6 DEF IRegras, SobrepostasOK
  <1>9. /\ R!Activas' = R!Activas /\ R!TiposActivos' = R!TiposActivos /\ R!Raizes' = R!Raizes
        /\ R!ChegamARaiz' = R!ChegamARaiz /\ regras' = regras
        /\ \A t : R!idsCadeiaDependenteRegraAvaliacaoFinal(t)'
                    = R!idsCadeiaDependenteRegraAvaliacaoFinal(t)
    BY Mesmas DEF R!Recebe
  <1>10. SemDelecoesOK'
    <2>1. SUFFICES ASSUME "deletar" \notin sobrepostas PROVE SemDelecoesOK'
      BY <1>4 DEF SemDelecoesOK
    <2>2. ASSUME NEW h \in Gestores PROVE CadeiaOK(gestor[h])' /\ DependenciaOK(gestor[h])'
      <3>1. CadeiaOK(gestor'[h]) /\ DependenciaOK(gestor'[h])
        BY <1>1, <2>1 DEF IRegras, SemDelecoesOK
      <3> QED
        BY <1>9, <3>1 DEF CadeiaOK, DependenciaOK
    <2> QED
      BY <1>9, <2>1, <2>2 DEF IRegras, SemDelecoesOK
  <1>11. UmaRaizOK'
    BY <1>1, <1>4, <1>9 DEF IRegras, UmaRaizOK
  <1> QED
    BY <1>7, <1>8, <1>10, <1>11 DEF IRegras

(* The newest rule of an active type is one.                                *)
LEMMA MaisRecenteActiva ==
    ASSUME regras \in Seq(LinhasRegra), NEW type \in R!TiposActivos
    PROVE  R!MaisRecente(type) \in R!Activas
  <1>1. PICK n : n = Len(regras) /\ n \in Nat /\ DOMAIN regras = 1..n
    OBVIOUS
  <1>2. PICK D : D = {i \in R!Activas : regras[i].type = type}
    OBVIOUS
  <1>3. D \in SUBSET (1..n) /\ D # {}
    BY <1>1, <1>2 DEF R!TiposActivos, R!Activas
  <1>4. PICK k \in D : \A i \in D : i <= k
    BY <1>1, <1>3, HaUltimo
  <1>5. \E i \in R!Activas : regras[i].type = type /\ \A j \in R!Activas : regras[j].type = type => j <= i
    BY <1>2, <1>4
  <1> QED
    BY <1>5 DEF R!MaisRecente

(* A request that creates a rule goes on to another step.                   *)
LEMMA PassaInv ==
    ASSUME IRegras, NEW g \in Gestores, gestor[g] \in Criacoes, NEW passo \in PassosCriar,
           R!Passa(g, passo), regras' = regras, gestoes' = gestoes, sobrepostas' = sobrepostas,
           NEW p, p = [gestor[g] EXCEPT !.passo = passo],
           "deletar" \notin sobrepostas => DependenciaOK(p),
           sobrepostas = {} /\ passo \in {"raiz", "dependencia", "inserir"} =>
               p.type \notin R!TiposActivos /\ (passo = "inserir" /\ p.depende = R!Nenhum => R!Raizes = {})
    PROVE  IRegras'
  <1>1. p \in Criacoes /\ p.passo = passo /\ p.type = gestor[g].type /\ p.depende = gestor[g].depende
    BY DEF Criacoes
  <1>2. Segue(g, p)
    BY DEF Segue, R!Passa
  <1>3. p # R!Parado /\ gestor[g] # R!Parado /\ p.op = gestor[g].op
    BY <1>1, GestorTipo
  <1>4. CadeiaOK(p)
    BY <1>1 DEF CadeiaOK, PassosCriar
  <1>5. p.type # p.depende
    BY <1>1 DEF IRegras, TiposRegras
  <1> QED
    BY <1>1, <1>2, <1>3, <1>4, <1>5, SegueInv

(* A request is answered and changed no rule.                               *)
LEMMA RespondeInv ==
    ASSUME IRegras, NEW g \in Gestores, R!Responde(g),
           regras' = regras, gestoes' = gestoes, sobrepostas' = sobrepostas
    PROVE  IRegras'
  <1>1. Segue(g, R!Parado)
    BY DEF Segue, R!Responde
  <1>2. R!Parado.passo = "parado" /\ R!Parado \notin Criacoes
    BY GestorTipo DEF R!Parado, PassosCriar
  <1>3. CadeiaOK(R!Parado) /\ DependenciaOK(R!Parado)
    BY <1>2 DEF CadeiaOK, DependenciaOK
  <1> QED
    BY <1>1, <1>2, <1>3, SegueInv

(* A rule is asked for.                                                     *)
LEMMA CriarInv ==
    ASSUME RegrasHipoteses, IRegras, NEW g \in Gestores, NEW type \in TiposRegra,
           NEW depende \in TiposRegra \cup {R!Nenhum}, R!CriarRegraAvaliacaoFinal(g, type, depende)
    PROVE  IRegras'
  <1>1. PICK p : p = [passo |-> "unicidade", op |-> "criar", type |-> type, depende |-> depende,
                      atual |-> depende, visitado |-> {type}]
    OBVIOUS
  <1>2. p \in Criacoes
    BY <1>1 DEF Criacoes, PassosCriar
  <1>3. p.passo = "unicidade" /\ p.type # p.depende /\ p.atual = p.depende
    BY <1>1 DEF R!CriarRegraAvaliacaoFinal
  <1>4. R!Recebe(g, p)
    BY <1>1 DEF R!CriarRegraAvaliacaoFinal
  <1>5. CadeiaOK(p) /\ DependenciaOK(p)
    BY <1>3 DEF CadeiaOK, DependenciaOK
  <1> QED
    BY <1>2, <1>3, <1>4, <1>5, RecebeInv

(* A rule is asked to go.                                                   *)
LEMMA PedeDeletarInv ==
    ASSUME RegrasHipoteses, IRegras, NEW g \in Gestores, NEW id \in DOMAIN regras,
           R!getRegraAvaliacaoFinalPorID(g, id)
    PROVE  IRegras'
  <1>1. PICK p : p = [passo |-> "cadeia", op |-> "deletar", id |-> id, ids |-> {}]
    OBVIOUS
  <1>2. p \in Delecoes
    BY <1>1 DEF Delecoes, IRegras, TiposRegras
  <1>3. p.passo = "cadeia" /\ p \notin Criacoes /\ p.id \in R!Activas
    BY <1>1, GestorTipo DEF PassosCriar, R!getRegraAvaliacaoFinalPorID
  <1>4. R!Recebe(g, p)
    BY <1>1 DEF R!getRegraAvaliacaoFinalPorID
  <1>5. CadeiaOK(p) /\ DependenciaOK(p)
    BY <1>3 DEF CadeiaOK, DependenciaOK
  <1> QED
    BY <1>2, <1>3, <1>4, <1>5, RecebeInv

(* The rule must be new.                                                    *)
LEMMA UnicidadeInv ==
    ASSUME IRegras, NEW g \in Gestores, R!validarUnicidadeRegraAvaliacaoFinal(g)
    PROVE  IRegras'
  <1>0. UNCHANGED <<regras, gestoes, sobrepostas>> /\ gestor[g].passo = "unicidade"
    BY DEF R!validarUnicidadeRegraAvaliacaoFinal
  <1>1. gestor[g] \in Criacoes
    BY <1>0, GestorTipo DEF IRegras, TiposRegras, PassosCriar
  <1>2. CASE gestor[g].type \notin R!TiposActivos /\ R!Passa(g, "raiz")
    <2>1. PICK p : p = [gestor[g] EXCEPT !.passo = "raiz"]
      OBVIOUS
    <2>2. /\ p.passo = "raiz" /\ p.type = gestor[g].type /\ p.depende = gestor[g].depende
          /\ p.atual = gestor[g].atual
      BY <1>1, <2>1 DEF Criacoes
    <2>3. "deletar" \notin sobrepostas => DependenciaOK(p)
      BY <1>0, <2>2 DEF DependenciaOK, IRegras, SemDelecoesOK
    <2> QED
      BY <1>0, <1>1, <1>2, <2>1, <2>2, <2>3, PassaInv DEF PassosCriar
  <1>3. CASE R!Responde(g)
    BY <1>0, <1>3, RespondeInv
  <1> QED
    BY <1>2, <1>3 DEF R!validarUnicidadeRegraAvaliacaoFinal

(* A root must be the only one.                                             *)
LEMMA RaizInv ==
    ASSUME IRegras, NEW g \in Gestores, R!validarRaizUnicaRegraAvaliacaoFinal(g)
    PROVE  IRegras'
  <1>0. UNCHANGED <<regras, gestoes, sobrepostas>> /\ gestor[g].passo = "raiz"
    BY DEF R!validarRaizUnicaRegraAvaliacaoFinal
  <1>1. gestor[g] \in Criacoes
    BY <1>0, GestorTipo DEF IRegras, TiposRegras, PassosCriar
  <1>2. sobrepostas = {} => gestor[g].type \notin R!TiposActivos
    BY <1>0 DEF IRegras, UmaRaizOK
  <1>3. "deletar" \notin sobrepostas => gestor[g].atual = gestor[g].depende
    BY <1>0 DEF IRegras, SemDelecoesOK, DependenciaOK
  <1>4. ASSUME NEW passo \in {"dependencia", "inserir"}, R!Passa(g, passo),
               passo = "dependencia" => gestor[g].depende # R!Nenhum,
               passo = "inserir" => gestor[g].depende = R!Nenhum,
               sobrepostas = {} /\ passo = "inserir" => R!Raizes = {}
        PROVE  IRegras'
    <2>1. PICK p : p = [gestor[g] EXCEPT !.passo = passo]
      OBVIOUS
    <2>2. /\ p.passo = passo /\ p.type = gestor[g].type /\ p.depende = gestor[g].depende
          /\ p.atual = gestor[g].atual
      BY <1>1, <2>1 DEF Criacoes
    <2>3. "deletar" \notin sobrepostas => DependenciaOK(p)
      BY <1>3, <1>4, <2>2 DEF DependenciaOK
    <2> QED
      BY <1>0, <1>1, <1>2, <1>4, <2>1, <2>2, <2>3, PassaInv DEF PassosCriar
  <1>5. CASE gestor[g].depende # R!Nenhum /\ R!Passa(g, "dependencia")
    BY <1>4, <1>5
  <1>6. CASE gestor[g].depende = R!Nenhum /\ R!Raizes = {} /\ R!Passa(g, "inserir")
    BY <1>4, <1>6
  <1>7. CASE gestor[g].depende = R!Nenhum /\ \E i \in R!Raizes : IF regras[i].type # gestor[g].type THEN R!Responde(g)
                                                                 ELSE R!Passa(g, "inserir")
    <2>1. PICK i \in R!Raizes : IF regras[i].type # gestor[g].type THEN R!Responde(g) ELSE R!Passa(g, "inserir")
      BY <1>7
    <2>2. CASE regras[i].type # gestor[g].type
      BY <1>0, <2>1, <2>2, RespondeInv
    <2>3. CASE regras[i].type = gestor[g].type
      <3>1. gestor[g].type \in R!TiposActivos
        BY <2>3 DEF R!TiposActivos, R!Raizes
      <3> QED
        BY <1>2, <1>4, <1>7, <2>1, <2>3, <3>1
    <2> QED
      BY <2>2, <2>3
  <1> QED
    BY <1>5, <1>6, <1>7 DEF R!validarRaizUnicaRegraAvaliacaoFinal

(* The rule it depends on must be active, and so on to the root.            *)
LEMMA DependenciaInv ==
    ASSUME IRegras, NEW g \in Gestores, R!validarDependenciaRegraAvaliacaoFinal(g)
    PROVE  IRegras'
  <1>0. UNCHANGED <<regras, gestoes, sobrepostas>> /\ gestor[g].passo = "dependencia"
    BY DEF R!validarDependenciaRegraAvaliacaoFinal
  <1>1. gestor[g] \in Criacoes
    BY <1>0, GestorTipo DEF IRegras, TiposRegras, PassosCriar
  <1>2. CASE gestor[g].atual \in gestor[g].visitado \/ gestor[g].atual \notin R!TiposActivos
    <2>1. R!Responde(g)
      BY <1>2 DEF R!validarDependenciaRegraAvaliacaoFinal, R!Responde
    <2> QED
      BY <1>0, <2>1, RespondeInv
  <1>3. CASE ~(gestor[g].atual \in gestor[g].visitado \/ gestor[g].atual \notin R!TiposActivos)
    <2>1. PICK prox : prox = regras[R!MaisRecente(gestor[g].atual)].depende
      OBVIOUS
    <2>2. prox \in TiposRegra \cup {R!Nenhum}
      <3>1. R!MaisRecente(gestor[g].atual) \in DOMAIN regras
        BY <1>3, MaisRecenteActiva DEF IRegras, TiposRegras, R!Activas
      <3>2. regras[R!MaisRecente(gestor[g].atual)] \in LinhasRegra
        BY <3>1 DEF IRegras, TiposRegras
      <3> QED
        BY <2>1, <3>2 DEF LinhasRegra
    <2>3. PICK p : p = [gestor[g] EXCEPT !.visitado = @ \cup {gestor[g].atual}, !.atual = prox,
                                         !.passo = IF prox = R!Nenhum THEN "inserir" ELSE @]
      OBVIOUS
    <2>4. gestor' = [gestor EXCEPT ![g] = p]
      BY <1>3, <2>1, <2>3 DEF R!validarDependenciaRegraAvaliacaoFinal
    <2>5. /\ p \in Criacoes /\ p.type = gestor[g].type /\ p.depende = gestor[g].depende
          /\ p.passo \in {"dependencia", "inserir"} /\ p.op = gestor[g].op
      <3>1. gestor[g].visitado \cup {gestor[g].atual} \in SUBSET TiposRegra
          <4>1. gestor[g].atual \in TiposRegra
          BY <1>3, RegrasSaoTipos DEF R!TiposActivos, SaoTipos
        <4> QED
          BY <1>1, <4>1 DEF Criacoes
      <3> QED
        BY <1>0, <1>1, <2>2, <2>3, <3>1 DEF Criacoes, PassosCriar
    <2>6. "deletar" \notin sobrepostas => gestor[g].depende \in R!TiposActivos /\ gestor[g].depende # R!Nenhum
      BY <1>0, <1>3 DEF IRegras, SemDelecoesOK, DependenciaOK
    <2>7. "deletar" \notin sobrepostas => CadeiaOK(p) /\ DependenciaOK(p)
      BY <2>5, <2>6 DEF CadeiaOK, DependenciaOK
    <2>8. sobrepostas = {} => p.type \notin R!TiposActivos /\ p.depende # R!Nenhum
      BY <1>0, <2>5, <2>6 DEF IRegras, UmaRaizOK
    <2>9. Segue(g, p)
      BY <1>0, <2>4 DEF Segue
    <2>10. p.type # p.depende /\ gestor[g] # R!Parado
      BY <1>1, <2>5, GestorTipo DEF IRegras, TiposRegras
    <2> QED
      BY <2>5, <2>7, <2>8, <2>9, <2>10, SegueInv
  <1> QED
    BY <1>2, <1>3

(* The chain is read.                                                       *)
LEMMA LerCadeiaInv ==
    ASSUME RegrasHipoteses, IRegras, NEW g \in Gestores, R!LerCadeia(g)
    PROVE  IRegras'
  <1>0. UNCHANGED <<regras, gestoes, sobrepostas>> /\ gestor[g].passo = "cadeia"
    BY DEF R!LerCadeia
  <1>1. gestor[g] \in Delecoes
    BY <1>0, GestorTipo DEF IRegras, TiposRegras
  <1>2. PICK ids : ids = R!idsCadeiaDependenteRegraAvaliacaoFinal(regras[gestor[g].id].type)
    OBVIOUS
  <1>3. PICK todos : todos = IF ids = {} THEN {gestor[g].id} ELSE ids
    OBVIOUS
  <1>4. PICK p : p = [gestor[g] EXCEPT !.passo = "inactivar", !.ids = todos]
    OBVIOUS
  <1>5. gestor' = [gestor EXCEPT ![g] = p]
    BY <1>2, <1>3, <1>4 DEF R!LerCadeia
  <1>6. todos \in SUBSET Nat
    BY <1>1, <1>2, <1>3 DEF Delecoes, R!idsCadeiaDependenteRegraAvaliacaoFinal, R!Activas,
       IRegras, TiposRegras
  <1>7. /\ p \in Delecoes /\ p.passo = "inactivar" /\ p.id = gestor[g].id /\ p.ids = todos
        /\ p.op = gestor[g].op
    BY <1>1, <1>4, <1>6 DEF Delecoes
  <1>8. ASSUME "deletar" \notin sobrepostas PROVE CadeiaOK(p) /\ DependenciaOK(p)
    <2>1. p.id \in R!Activas
      BY <1>0, <1>7, <1>8 DEF IRegras, SemDelecoesOK, CadeiaOK
    <2>2. {regras[p.id].type} \subseteq R!Fecho({regras[p.id].type})
      BY FechoTem DEF RegrasHipoteses
    <2>3. p.id \in ids
      BY <1>2, <1>7, <2>1, <2>2 DEF R!idsCadeiaDependenteRegraAvaliacaoFinal
    <2>4. p.ids = R!idsCadeiaDependenteRegraAvaliacaoFinal(regras[p.id].type)
      BY <1>2, <1>3, <1>7, <2>3
    <2> QED
      BY <1>7, <2>1, <2>4 DEF CadeiaOK, DependenciaOK
  <1>9. Segue(g, p)
    BY <1>0, <1>5 DEF Segue
  <1>10. p \notin Criacoes /\ gestor[g] # R!Parado
    BY <1>1, <1>7, GestorTipo DEF PassosCriar
  <1> QED
    BY <1>7, <1>8, <1>9, <1>10, SegueInv

(* Whoever deletes without an overlap is alone.                             *)
LEMMA Sozinho ==
    ASSUME IRegras, NEW g \in Gestores, NEW h \in Gestores, g # h,
           gestor[g] # R!Parado, gestor[h] # R!Parado
    PROVE  /\ sobrepostas # {}
           /\ gestor[g] \in Delecoes => "deletar" \in sobrepostas
           /\ gestor[h] \in Delecoes => "deletar" \in sobrepostas
  <1>1. gestor[g].op \in sobrepostas /\ gestor[h].op \in sobrepostas
    BY DEF IRegras, SobrepostasOK
  <1>2. /\ gestor[g] \in Delecoes => gestor[g].op = "deletar"
        /\ gestor[h] \in Delecoes => gestor[h].op = "deletar"
    BY GestorTipo
  <1> QED
    BY <1>1, <1>2

(* A rule is added.                                                         *)
LEMMA InserirInv ==
    ASSUME RegrasHipoteses, IRegras, NEW g \in Gestores, R!Inserir(g)
    PROVE  IRegras'
  <1>0. UNCHANGED <<gestoes, sobrepostas>> /\ gestor[g].passo = "inserir"
    BY DEF R!Inserir
  <1>1. gestor[g] \in Criacoes /\ gestor[g] # R!Parado
    BY <1>0, GestorTipo DEF IRegras, TiposRegras, PassosCriar
  <1>2. PICK e : e = [type |-> gestor[g].type, depende |-> gestor[g].depende, activa |-> TRUE]
    OBVIOUS
  <1>3. e \in LinhasRegra /\ e.type # e.depende /\ e.activa = TRUE
    BY <1>1, <1>2 DEF LinhasRegra, Criacoes, IRegras, TiposRegras
  <1>4. regras' = Append(regras, e)
    BY <1>2 DEF R!Inserir
  <1>5. \A h \in Gestores : gestor'[h] = IF h = g THEN R!Parado ELSE gestor[h]
    BY DEF IRegras, TiposRegras, R!Inserir, R!Responde
  <1>6. PICK n : n = Len(regras) /\ n \in Nat /\ DOMAIN regras = 1..n
    BY DEF IRegras, TiposRegras
  <1>7. /\ DOMAIN regras' = 1..(n + 1) /\ regras'[n + 1] = e
        /\ \A i \in 1..n : regras'[i] = regras[i] /\ i # n + 1
    BY <1>4, <1>6 DEF IRegras, TiposRegras
  <1>8. TiposRegras'
    <2>1. regras' \in Seq(LinhasRegra)
      BY <1>3, <1>4 DEF IRegras, TiposRegras
    <2>2. \A i \in DOMAIN regras' : regras'[i].type # regras'[i].depende
      BY <1>3, <1>6, <1>7 DEF IRegras, TiposRegras
    <2>3. gestor' \in [Gestores -> {R!Parado} \cup Criacoes \cup Delecoes]
      BY DEF IRegras, TiposRegras, R!Inserir, R!Responde
    <2>4. R!Parado \notin Criacoes
      BY GestorTipo DEF R!Parado, PassosCriar
    <2> QED
      BY <1>0, <1>5, <2>1, <2>2, <2>3, <2>4 DEF IRegras, TiposRegras
  <1>9. SobrepostasOK'
    BY <1>0, <1>5 DEF IRegras, SobrepostasOK
  <1>10. R!Activas' = R!Activas \cup {n + 1}
    BY <1>3, <1>6, <1>7 DEF R!Activas
  <1>11. R!Activas \subseteq 1..n
    BY <1>6 DEF R!Activas
  <1>12. R!TiposActivos' = R!TiposActivos \cup {e.type}
    BY <1>7, <1>10, <1>11 DEF R!TiposActivos
  <1>13. R!Raizes' = IF e.depende = R!Nenhum THEN R!Raizes \cup {n + 1} ELSE R!Raizes
    BY <1>7, <1>10, <1>11 DEF R!Raizes
  <1>14. e.type = gestor[g].type /\ e.depende = gestor[g].depende
    BY <1>2
  <1>15. R!Parado.passo = "parado"
    BY DEF R!Parado
  <1>16. SemDelecoesOK'
    <2>1. SUFFICES ASSUME "deletar" \notin sobrepostas PROVE SemDelecoesOK'
      BY <1>0 DEF SemDelecoesOK
    <2>2. e.depende \in R!TiposActivos \cup {R!Nenhum}
      BY <1>0, <1>14, <2>1 DEF IRegras, SemDelecoesOK, DependenciaOK
    <2>3. \A i \in R!Activas' : regras'[i].depende \in R!TiposActivos' \cup {R!Nenhum}
      BY <1>7, <1>10, <1>11, <1>12, <2>1, <2>2 DEF IRegras, SemDelecoesOK
    <2>4. ChegamOK
      BY Chegam, RegrasSaoTipos DEF RegrasHipoteses
    <2>5. ChegamOK'
      <3>1. SaoTipos'
        BY <1>3, <1>7, <1>10, <1>11, RegrasSaoTipos DEF SaoTipos, LinhasRegra
      <3> QED
        BY <3>1, ChegamDepois DEF RegrasHipoteses
    <2>6. R!ChegamARaiz \subseteq R!ChegamARaiz'
      <3>1. TiposRaiz \subseteq TiposRaiz'
        BY <1>7, <1>11, <1>13 DEF TiposRaiz, R!Raizes
      <3>2. TiposRaiz \subseteq R!ChegamARaiz'
        BY <2>5, <3>1 DEF ChegamOK
      <3>3. \A i \in R!Activas : regras[i].depende \in R!ChegamARaiz' => regras[i].type \in R!ChegamARaiz'
        BY <1>7, <1>10, <1>11, <2>5 DEF ChegamOK
      <3> QED
        BY <2>4, <3>2, <3>3 DEF ChegamOK
    <2>7. e.type \in R!ChegamARaiz'
      <3>1. CASE e.depende = R!Nenhum
        <4>1. e.type \in TiposRaiz'
          BY <1>7, <1>13, <3>1 DEF TiposRaiz
        <4> QED
          BY <2>5, <4>1 DEF ChegamOK
      <3>2. CASE e.depende # R!Nenhum
        <4>1. e.depende \in R!ChegamARaiz'
          BY <2>1, <2>2, <2>6, <3>2 DEF IRegras, SemDelecoesOK
        <4> QED
          BY <1>7, <1>10, <2>5, <4>1 DEF ChegamOK
      <3> QED
        BY <3>1, <3>2
    <2>8. R!TiposActivos' \subseteq R!ChegamARaiz'
      BY <1>12, <2>1, <2>6, <2>7 DEF IRegras, SemDelecoesOK
    <2>9. ASSUME NEW h \in Gestores PROVE CadeiaOK(gestor[h])' /\ DependenciaOK(gestor[h])'
      <3>1. CASE gestor'[h] = R!Parado
        BY <1>15, <3>1 DEF CadeiaOK, DependenciaOK
      <3>2. CASE gestor'[h] # R!Parado
        <4>1. gestor'[h] = gestor[h] /\ h # g /\ gestor[h] # R!Parado
          BY <1>5, <3>2
        <4>2. gestor[h] \in Criacoes
          BY <1>1, <2>1, <4>1, Sozinho DEF IRegras, TiposRegras
        <4>3. gestor[h].passo \notin {"cadeia", "inactivar"}
          BY <4>2 DEF Criacoes, PassosCriar
        <4>4. DependenciaOK(gestor[h])
          BY <2>1 DEF IRegras, SemDelecoesOK
        <4> QED
          BY <1>12, <4>1, <4>3, <4>4 DEF CadeiaOK, DependenciaOK
      <3> QED
        BY <3>1, <3>2
    <2> QED
      BY <2>3, <2>8, <2>9 DEF SemDelecoesOK
  <1>17. UmaRaizOK'
    <2>1. SUFFICES ASSUME sobrepostas = {} PROVE UmaRaizOK'
      BY <1>0 DEF UmaRaizOK
    <2>2. \A h \in Gestores : gestor'[h] = R!Parado
      BY <1>1, <1>5, <2>1, Sozinho
    <2>3. e.depende = R!Nenhum => R!Raizes = {}
      BY <1>0, <1>14, <2>1 DEF IRegras, UmaRaizOK
    <2>4. \A i, k \in R!Raizes' : i = k
      BY <1>13, <2>1, <2>3 DEF IRegras, UmaRaizOK
    <2> QED
      BY <1>15, <2>2, <2>4 DEF UmaRaizOK
  <1> QED
    BY <1>8, <1>9, <1>16, <1>17 DEF IRegras

(* A rule goes, with all that depend on it.                                 *)
LEMMA DeletarInv ==
    ASSUME RegrasHipoteses, IRegras, NEW g \in Gestores, R!DeletarRegraAvaliacaoFinal(g)
    PROVE  IRegras'
  <1>0. UNCHANGED <<gestoes, sobrepostas>> /\ gestor[g].passo = "inactivar"
    BY DEF R!DeletarRegraAvaliacaoFinal
  <1>1. gestor[g] \in Delecoes /\ gestor[g] # R!Parado
    BY <1>0, GestorTipo DEF IRegras, TiposRegras
  <1>2. PICK ids : ids = gestor[g].ids
    OBVIOUS
  <1>3. regras' = [i \in DOMAIN regras |-> [regras[i] EXCEPT !.activa = @ /\ i \notin ids]]
    BY <1>2 DEF R!DeletarRegraAvaliacaoFinal
  <1>4. \A h \in Gestores : gestor'[h] = IF h = g THEN R!Parado ELSE gestor[h]
    BY DEF IRegras, TiposRegras, R!DeletarRegraAvaliacaoFinal, R!Responde
  <1>5. \A i \in DOMAIN regras : regras[i] \in LinhasRegra
    BY DEF IRegras, TiposRegras
  <1>6. ASSUME NEW i \in DOMAIN regras
        PROVE  /\ regras'[i] \in LinhasRegra /\ regras'[i].type = regras[i].type
               /\ regras'[i].depende = regras[i].depende
               /\ regras'[i].activa <=> regras[i].activa /\ i \notin ids
    BY <1>3, <1>5 DEF LinhasRegra
  <1>7. DOMAIN regras' = DOMAIN regras
    BY <1>3
  <1>8. TiposRegras'
    <2>1. regras' \in Seq(LinhasRegra)
      <3>1. PICK n : n = Len(regras) /\ n \in Nat /\ DOMAIN regras = 1..n
        BY DEF IRegras, TiposRegras
      <3>2. regras' \in [1..n -> LinhasRegra]
        BY <1>3, <1>6, <3>1
      <3> QED
        BY <3>1, <3>2
    <2>2. \A i \in DOMAIN regras' : regras'[i].type # regras'[i].depende
      BY <1>6, <1>7 DEF IRegras, TiposRegras
    <2>3. gestor' \in [Gestores -> {R!Parado} \cup Criacoes \cup Delecoes]
      BY DEF IRegras, TiposRegras, R!DeletarRegraAvaliacaoFinal, R!Responde
    <2>4. R!Parado \notin Criacoes
      BY GestorTipo DEF R!Parado, PassosCriar
    <2> QED
      BY <1>0, <1>4, <2>1, <2>2, <2>3, <2>4 DEF IRegras, TiposRegras
  <1>9. SobrepostasOK'
    BY <1>0, <1>4 DEF IRegras, SobrepostasOK
  <1>10. R!Activas' = {i \in R!Activas : i \notin ids}
    BY <1>6, <1>7 DEF R!Activas
  <1>11. R!Activas \subseteq DOMAIN regras
    BY DEF R!Activas
  <1>12. R!Raizes' \subseteq R!Raizes
    BY <1>6, <1>10, <1>11 DEF R!Raizes
  <1>13. R!Parado.passo = "parado"
    BY DEF R!Parado
  <1>14. ASSUME "deletar" \notin sobrepostas, NEW h \in Gestores PROVE gestor'[h] = R!Parado
    BY <1>1, <1>4, <1>14, Sozinho
  <1>15. SemDelecoesOK'
    <2>1. SUFFICES ASSUME "deletar" \notin sobrepostas PROVE SemDelecoesOK'
      BY <1>0 DEF SemDelecoesOK
    <2>2. PICK t : t = regras[gestor[g].id].type
      OBVIOUS
    <2>3. PICK F : F = R!Fecho({t})
      OBVIOUS
    <2>4. gestor[g].id \in R!Activas /\ ids = R!idsCadeiaDependenteRegraAvaliacaoFinal(t)
      BY <1>0, <1>2, <2>1, <2>2 DEF IRegras, SemDelecoesOK, CadeiaOK
    <2>5. R!Activas' = {i \in R!Activas : regras[i].type \notin F}
      BY <1>10, <2>3, <2>4 DEF R!idsCadeiaDependenteRegraAvaliacaoFinal
    <2>6. {t} \in SUBSET TiposRegra
      BY <2>2, <2>4, RegrasSaoTipos DEF SaoTipos
    <2>7. \A i \in R!Activas : regras[i].depende \in F => regras[i].type \in F
      BY <2>3, <2>6, RegrasSaoTipos, FechoFechado DEF RegrasHipoteses
    <2>8. R!TiposActivos' = R!TiposActivos \ F
      BY <1>6, <1>11, <2>5 DEF R!TiposActivos
    <2>9. \A i \in R!Activas' : regras'[i].depende \in R!TiposActivos' \cup {R!Nenhum}
      BY <1>6, <1>11, <2>1, <2>5, <2>7, <2>8 DEF IRegras, SemDelecoesOK
    <2>10. ChegamOK
      BY Chegam, RegrasSaoTipos DEF RegrasHipoteses
    <2>11. ChegamOK'
      <3>1. SaoTipos'
        BY <1>6, <1>11, <2>5, RegrasSaoTipos DEF SaoTipos
      <3> QED
        BY <3>1, ChegamDepois DEF RegrasHipoteses
    <2>12. R!ChegamARaiz \subseteq F \cup R!ChegamARaiz'
      <3>1. TiposRaiz \subseteq F \cup TiposRaiz'
        BY <1>6, <1>11, <2>5 DEF TiposRaiz, R!Raizes
      <3>2. TiposRaiz \subseteq F \cup R!ChegamARaiz'
        BY <2>11, <3>1 DEF ChegamOK
      <3>3. ASSUME NEW i \in R!Activas, regras[i].depende \in F \cup R!ChegamARaiz'
            PROVE  regras[i].type \in F \cup R!ChegamARaiz'
        BY <1>6, <1>11, <2>5, <2>7, <2>11, <3>3 DEF ChegamOK
      <3> QED
        BY <2>10, <3>2, <3>3 DEF ChegamOK
    <2>13. R!TiposActivos' \subseteq R!ChegamARaiz'
      BY <2>1, <2>8, <2>12 DEF IRegras, SemDelecoesOK
    <2>14. ASSUME NEW h \in Gestores PROVE CadeiaOK(gestor[h])' /\ DependenciaOK(gestor[h])'
      BY <1>13, <1>14, <2>1 DEF CadeiaOK, DependenciaOK
    <2> QED
      BY <2>9, <2>13, <2>14 DEF SemDelecoesOK
  <1>16. UmaRaizOK'
    <2>1. SUFFICES ASSUME sobrepostas = {} PROVE UmaRaizOK'
      BY <1>0 DEF UmaRaizOK
    <2> QED
      BY <1>12, <1>13, <1>14, <2>1 DEF UmaRaizOK, IRegras
  <1> QED
    BY <1>8, <1>9, <1>15, <1>16 DEF IRegras

(* Every step keeps the invariant.                                          *)
LEMMA RegrasNext ==
    ASSUME RegrasHipoteses, IRegras, [R!Next]_R!regrasVars
    PROVE  IRegras'
  <1>1. ASSUME NEW g \in Gestores, NEW type \in TiposRegra, NEW depende \in TiposRegra \cup {R!Nenhum},
               R!CriarRegraAvaliacaoFinal(g, type, depende)
        PROVE  IRegras'
    BY <1>1, CriarInv
  <1>2. ASSUME NEW g \in Gestores, NEW id \in DOMAIN regras, R!getRegraAvaliacaoFinalPorID(g, id)
        PROVE  IRegras'
    BY <1>2, PedeDeletarInv
  <1>3. ASSUME NEW g \in Gestores,
               \/ R!validarUnicidadeRegraAvaliacaoFinal(g) \/ R!validarRaizUnicaRegraAvaliacaoFinal(g)
               \/ R!validarDependenciaRegraAvaliacaoFinal(g)
        PROVE  IRegras'
    BY <1>3, UnicidadeInv, RaizInv, DependenciaInv
  <1>4. ASSUME NEW g \in Gestores, R!Inserir(g) \/ R!LerCadeia(g) \/ R!DeletarRegraAvaliacaoFinal(g)
        PROVE  IRegras'
    BY <1>4, InserirInv, LerCadeiaInv, DeletarInv
  <1>5. CASE UNCHANGED R!regrasVars
    <2>1. UNCHANGED <<regras, gestor, gestoes, sobrepostas>>
      BY <1>5 DEF R!regrasVars
    <2>2. /\ R!Activas' = R!Activas /\ R!TiposActivos' = R!TiposActivos /\ R!Raizes' = R!Raizes
          /\ R!ChegamARaiz' = R!ChegamARaiz
          /\ \A t : R!idsCadeiaDependenteRegraAvaliacaoFinal(t)'
                      = R!idsCadeiaDependenteRegraAvaliacaoFinal(t)
      BY <2>1, Mesmas
    <2> QED
      BY <2>1, <2>2 DEF IRegras, TiposRegras, SobrepostasOK, SemDelecoesOK, UmaRaizOK,
                        CadeiaOK, DependenciaOK
  <1> QED
    BY <1>1, <1>2, <1>3, <1>4, <1>5 DEF R!Next

(* And those of rules of theirs.                                            *)
LEMMA RegrasTypeOK == ASSUME IRegras PROVE R!TypeOK
  <1>1. ASSUME NEW i \in DOMAIN regras
        PROVE  /\ regras[i].type \in TiposRegra /\ regras[i].activa \in BOOLEAN
               /\ regras[i].depende \in (TiposRegra \cup {R!Nenhum}) \ {regras[i].type}
    <2>1. regras[i] \in LinhasRegra /\ regras[i].type # regras[i].depende
      BY DEF IRegras, TiposRegras
    <2> QED
      BY <2>1 DEF LinhasRegra
  <1>2. ASSUME NEW g \in Gestores
        PROVE  gestor[g].passo \in
          {"parado", "unicidade", "raiz", "dependencia", "inserir", "cadeia", "inactivar"}
    BY DEF IRegras, TiposRegras, Criacoes, PassosCriar, Delecoes, R!Parado
  <1> QED
    BY <1>1, <1>2 DEF IRegras, TiposRegras, R!TypeOK
=============================================================================
