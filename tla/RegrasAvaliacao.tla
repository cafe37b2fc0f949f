--------------------------- MODULE RegrasAvaliacao ---------------------------
(***************************************************************************)
(* The assessment rules of one academy of higher education: a chain of     *)
(* examinations, where each but the root applies to who failed another     *)
(* (handlers/avaliacao_final_regras.go).  They are rows that the handlers  *)
(* write directly, after queries of their own and without a transaction.   *)
(***************************************************************************)
EXTENDS Integers, Sequences, FiniteSets, SequencesExt

CONSTANTS
    TiposRegra,  \* types of rule
    Gestores,    \* requests that may be in progress at once
    MaxRegras,   \* bound: rows
    MaxGestoes   \* bound: requests in one behaviour

Nenhum == "nenhum"

VARIABLES
    regras,    \* the rows: type, aplica_se_reprovado_em_type, status
    gestor,    \* what each request is doing
    gestoes,   \* requests so far
    sobrepostas  \* kinds of request that overlapped another; not in the code

regrasVars == <<regras, gestor, gestoes, sobrepostas>>

Parado == [passo |-> "parado"]
Activas == {i \in DOMAIN regras : regras[i].activa}
TiposActivos == {regras[i].type : i \in Activas}
Raizes == {i \in Activas : regras[i].depende = Nenhum}
Passa(g, passo) == gestor' = [gestor EXCEPT ![g].passo = passo]
Responde(g) == gestor' = [gestor EXCEPT ![g] = Parado]

Recebe(g, pedido) ==
    /\ gestor[g] = Parado
    /\ gestoes < MaxGestoes /\ gestoes' = gestoes + 1
    /\ gestor' = [gestor EXCEPT ![g] = pedido]
    /\ sobrepostas' = sobrepostas \cup
           IF \A h \in Gestores : gestor[h] = Parado THEN {}
           ELSE {pedido.op} \cup {gestor[h].op : h \in {k \in Gestores : gestor[k] # Parado}}
    /\ UNCHANGED regras

-----------------------------------------------------------------------------
CriarRegraAvaliacaoFinal(g, type, depende) ==
    /\ type # depende
    /\ Recebe(g, [passo |-> "unicidade", op |-> "criar", type |-> type, depende |-> depende,
                  atual |-> depende, visitado |-> {type}])

validarUnicidadeRegraAvaliacaoFinal(g) ==
    /\ gestor[g].passo = "unicidade"
    /\ \/ gestor[g].type \notin TiposActivos /\ Passa(g, "raiz")
       \/ gestor[g].type \in TiposActivos /\ Responde(g)
    /\ UNCHANGED <<regras, gestoes, sobrepostas>>

(* One root, and any row of it, is looked at.                               *)
validarRaizUnicaRegraAvaliacaoFinal(g) ==
    /\ gestor[g].passo = "raiz"
    /\ \/ gestor[g].depende # Nenhum /\ Passa(g, "dependencia")
       \/ gestor[g].depende = Nenhum /\ Raizes = {} /\ Passa(g, "inserir")
       \/ /\ gestor[g].depende = Nenhum
          /\ \E i \in Raizes : IF regras[i].type # gestor[g].type THEN Responde(g)
                                                                 ELSE Passa(g, "inserir")
    /\ UNCHANGED <<regras, gestoes, sobrepostas>>

(* Of the active rules of a type, the newest.                               *)
MaisRecente(type) ==
    CHOOSE i \in Activas : regras[i].type = type /\ \A k \in Activas : regras[k].type = type => k <= i

(* One query for each rule on the way to the root.                          *)
validarDependenciaRegraAvaliacaoFinal(g) ==
    LET p == gestor[g] IN
    /\ p.passo = "dependencia"
    /\ IF p.atual \in p.visitado \/ p.atual \notin TiposActivos THEN Responde(g)
       ELSE LET prox == regras[MaisRecente(p.atual)].depende
            IN  gestor' = [gestor EXCEPT ![g].visitado = @ \cup {p.atual}, ![g].atual = prox,
                                         ![g].passo = IF prox = Nenhum THEN "inserir" ELSE @]
    /\ UNCHANGED <<regras, gestoes, sobrepostas>>

(* No index of the table forbids a second root, or a second rule of a type: *)
(* migration 071 dropped it, and 080 lists no scope of higher education.    *)
Inserir(g) ==
    /\ gestor[g].passo = "inserir" /\ Len(regras) < MaxRegras
    /\ regras' = Append(regras, [type |-> gestor[g].type, depende |-> gestor[g].depende,
                                 activa |-> TRUE])
    /\ Responde(g)
    /\ UNCHANGED <<gestoes, sobrepostas>>

-----------------------------------------------------------------------------
WrongIdsCadeiaDependente(type) ==   \* fault: only the rules that depend on it directly
    {i \in Activas : type \in {regras[i].type, regras[i].depende}}

(* These types and all that depend on them, rule by rule.                   *)
Dependem(tipos) == {regras[i].type : i \in {k \in Activas : regras[k].depende \in tipos}}
Fecho(tipos) ==
    LET alcance[n \in 0..Cardinality(TiposRegra)] ==
            IF n = 0 THEN tipos ELSE alcance[n - 1] \cup Dependem(alcance[n - 1])
    IN  alcance[Cardinality(TiposRegra)]

(* The rules of the type and those that depend on them, however far.        *)
idsCadeiaDependenteRegraAvaliacaoFinal(type) ==
    {i \in Activas : regras[i].type \in Fecho({type})}

getRegraAvaliacaoFinalPorID(g, id) ==
    /\ id \in Activas
    /\ Recebe(g, [passo |-> "cadeia", op |-> "deletar", id |-> id, ids |-> {}])

LerCadeia(g) ==
    /\ gestor[g].passo = "cadeia"
    /\ LET ids == idsCadeiaDependenteRegraAvaliacaoFinal(regras[gestor[g].id].type)
       IN  gestor' = [gestor EXCEPT ![g].passo = "inactivar",
                                    ![g].ids = IF ids = {} THEN {gestor[g].id} ELSE ids]
    /\ UNCHANGED <<regras, gestoes, sobrepostas>>

DeletarRegraAvaliacaoFinal(g) ==
    /\ gestor[g].passo = "inactivar"
    /\ regras' = [i \in DOMAIN regras |->
                      [regras[i] EXCEPT !.activa = @ /\ i \notin gestor[g].ids]]
    /\ Responde(g)
    /\ UNCHANGED <<gestoes, sobrepostas>>

-----------------------------------------------------------------------------
Init ==
    /\ regras = <<>> /\ gestoes = 0 /\ sobrepostas = {}
    /\ gestor = [g \in Gestores |-> Parado]

Next == \E g \in Gestores :
    \/ \E type \in TiposRegra, depende \in TiposRegra \cup {Nenhum} :
          CriarRegraAvaliacaoFinal(g, type, depende)
    \/ validarUnicidadeRegraAvaliacaoFinal(g) \/ validarRaizUnicaRegraAvaliacaoFinal(g)
    \/ validarDependenciaRegraAvaliacaoFinal(g) \/ Inserir(g)
    \/ \E id \in DOMAIN regras : getRegraAvaliacaoFinalPorID(g, id)
    \/ LerCadeia(g) \/ DeletarRegraAvaliacaoFinal(g)

Spec == Init /\ [][Next]_regrasVars

-----------------------------------------------------------------------------
(* What an assessment asks of the rules before it uses them.                *)
validarCadeiaAvaliacaoFinalAplicavel ==
    /\ Cardinality(Raizes) = 1
    /\ \A i \in Activas : regras[i].depende \in TiposActivos \cup {Nenhum}

(* Types from which a root is reached, rule by rule.                        *)
ChegamARaiz == Fecho({regras[i].type : i \in Raizes})

TypeOK ==
    /\ \A i \in DOMAIN regras : /\ regras[i].type \in TiposRegra /\ regras[i].activa \in BOOLEAN
                                /\ regras[i].depende \in (TiposRegra \cup {Nenhum}) \ {regras[i].type}
    /\ gestoes \in 0..MaxGestoes /\ sobrepostas \subseteq {"criar", "deletar"}
    /\ \A g \in Gestores : gestor[g].passo \in
          {"parado", "unicidade", "raiz", "dependencia", "inserir", "cadeia", "inactivar"}

(* Whatever rules are created meanwhile, every active rule leads to a root, *)
(* unless a deletion overlapped; and requests that do not overlap leave     *)
(* rules an assessment can use, or none: deleting a rule takes with it all  *)
(* that depend on it (avaliacao_final_regras.go:741-831, 910-951).          *)
RulesReachARoot ==
    /\ "deletar" \notin sobrepostas => TiposActivos \subseteq ChegamARaiz
    /\ sobrepostas = {} /\ Activas # {} => validarCadeiaAvaliacaoFinalAplicavel

(* "no máximo uma regra raiz ativa por academia, nível e escopo"            *)
(* (docs/Tarefas feitas/14 - Bloquear duplicidade concorrente antes da      *)
(* projeção.md:123).  With two, validarCadeiaAvaliacaoFinalAplicavel fails  *)
(* and no student of the academy is assessed.                               *)
OneActiveRoot == Cardinality(Raizes) <= 1
=============================================================================
