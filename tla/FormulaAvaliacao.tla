--------------------------- MODULE FormulaAvaliacao ---------------------------
(***************************************************************************)
(* The formula of an assessment rule of higher education, from the text    *)
(* the academy sends to the mark of a student                              *)
(* (handlers/avaliacao_final_regras.go): it is parsed, written back with   *)
(* every bracket in it, stored, and at each assessment parsed again, given *)
(* the period of the subject, written back, parsed a third time and        *)
(* calculated.  A text is a sequence of tokens; spaces are left out.       *)
(***************************************************************************)
EXTENDS Integers, Sequences, FiniteSetsExt

CONSTANTS
    Notas,      \* the marks of the only category, by period
    Constantes, \* numbers in formulas
    MaxTexto,   \* bound: any text of so many tokens is tried
    MaxFormula  \* maxFormulaAvaliacaoLen, 1000 in the code

VARIABLES
    texto,    \* what the academy sent
    formula   \* the column of the rule; empty before it is created

formulaVars == <<texto, formula>>

Ops == {"+", "-", "*", "/"}
Ref(periodo) == [t |-> "[]", n |-> periodo]   \* [categoria], [categoria,periodo]
Num(v) == [t |-> "num", n |-> v]
Sinal(c) == [t |-> c, n |-> 0]
Atomos == {Ref(0)} \cup {Num(v) : v \in Constantes}
Tokens == Atomos \cup {Sinal(c) : c \in Ops \cup {"(", ")"}}
Recusada == <<[t |-> "recusada", n |-> 0]>>

(* Characters of a text: [c] is three, [c,1] is five.                       *)
Comprimento(s) ==
    LET c(i) == IF s[i].t # "[]" THEN 1 ELSE IF s[i].n = 0 THEN 3 ELSE 5
    IN  MapThenSumSet(c, DOMAIN s)

-----------------------------------------------------------------------------
(* The parser: a tree, and the position after what was read                 *)

Erro == [ok |-> FALSE]
No(op, l, r) == [op |-> op, left |-> l, right |-> r]
Folha(token) == [op |-> "folha", token |-> token]
Lido(no, pos) == [ok |-> TRUE, ast |-> no, pos |-> pos]
Em(s, pos, sinais) == pos <= Len(s) /\ s[pos].t \in sinais
Zero(no) == no.op = "folha" /\ no.token = Num(0)

RECURSIVE parseExpression(_, _), maisTermos(_, _), maisFactores(_, _)

parseFactor(s, pos) ==
    IF Em(s, pos, {"("}) THEN
        LET n == parseExpression(s, pos + 1)
        IN  IF n.ok /\ Em(s, n.pos, {")"}) THEN Lido(n.ast, n.pos + 1) ELSE Erro
    ELSE IF Em(s, pos, {"[]", "num"}) THEN Lido(Folha(s[pos]), pos + 1)
    ELSE Erro

maisFactores(s, left) ==
    IF ~left.ok \/ ~Em(s, left.pos, {"*", "/"}) THEN left
    ELSE LET op == s[left.pos].t
             right == parseFactor(s, left.pos + 1)
         IN  IF ~right.ok \/ (op = "/" /\ Zero(right.ast)) THEN Erro
             ELSE maisFactores(s, Lido(No(op, left.ast, right.ast), right.pos))

parseTerm(s, pos) == maisFactores(s, parseFactor(s, pos))

maisTermos(s, left) ==
    IF ~left.ok \/ ~Em(s, left.pos, {"+", "-"}) THEN left
    ELSE LET right == parseTerm(s, left.pos + 1)
         IN  IF ~right.ok THEN Erro
             ELSE maisTermos(s, Lido(No(s[left.pos].t, left.ast, right.ast), right.pos))

parseExpression(s, pos) == maisTermos(s, parseTerm(s, pos))

parseFormulaAvaliacao(s) ==
    IF s = <<>> \/ Comprimento(s) > MaxFormula THEN Erro
    ELSE LET n == parseExpression(s, 1)
         IN  IF n.ok /\ n.pos = Len(s) + 1 THEN n ELSE Erro

-----------------------------------------------------------------------------
RECURSIVE WrongString(_)
WrongString(no) ==   \* fault: brackets are left out
    IF no.op = "folha" THEN <<no.token>>
    ELSE WrongString(no.left) \o <<Sinal(no.op)>> \o WrongString(no.right)

RECURSIVE String(_)
String(no) ==
    IF no.op = "folha" THEN <<no.token>>
    ELSE <<Sinal("(")>> \o String(no.left) \o <<Sinal(no.op)>> \o String(no.right)
             \o <<Sinal(")")>>

(* Rational numbers, as pairs; a division by zero has no value.             *)
Indefinido == <<0, 0>>
Conta(op, x, y) ==
    IF x = Indefinido \/ y = Indefinido THEN Indefinido
    ELSE CASE op = "+" -> <<x[1] * y[2] + y[1] * x[2], x[2] * y[2]>>
           [] op = "-" -> <<x[1] * y[2] - y[1] * x[2], x[2] * y[2]>>
           [] op = "*" -> <<x[1] * y[1], x[2] * y[2]>>
           [] OTHER -> IF y[1] = 0 THEN Indefinido ELSE <<x[1] * y[2], x[2] * y[1]>>
Iguais(x, y) == x[1] * y[2] = y[1] * x[2] /\ (x = Indefinido <=> y = Indefinido)

RECURSIVE evalASTFormula(_)
evalASTFormula(no) ==
    IF no.op # "folha" THEN Conta(no.op, evalASTFormula(no.left), evalASTFormula(no.right))
    ELSE IF no.token.t = "num" THEN <<no.token.n, 1>>
    ELSE IF no.token.n \in DOMAIN Notas THEN <<Notas[no.token.n], 1>>
    ELSE Indefinido   \* "nota ausente"

RECURSIVE preencherPeriodo(_, _)
preencherPeriodo(no, periodo) ==
    IF no.op # "folha"
    THEN No(no.op, preencherPeriodo(no.left, periodo), preencherPeriodo(no.right, periodo))
    ELSE IF no.token = Ref(0) THEN Folha(Ref(periodo)) ELSE no

(* A text that cannot be parsed is handed on as it is.                      *)
preencherPeriodoFormulaSuperior(s, periodo) ==
    LET n == parseFormulaAvaliacao(s)
    IN  IF n.ok THEN String(preencherPeriodo(n.ast, periodo)) ELSE s

calcularFormulaAvaliacao(s) ==
    LET n == parseFormulaAvaliacao(s) IN IF n.ok THEN evalASTFormula(n.ast) ELSE Indefinido

Nota(s, periodo) == calcularFormulaAvaliacao(preencherPeriodoFormulaSuperior(s, periodo))

-----------------------------------------------------------------------------
validarFormulaAvaliacaoPorNivel(s) ==
    LET n == parseFormulaAvaliacao(s) IN IF n.ok THEN String(n.ast) ELSE Recusada

CriarRegraAvaliacaoFinal ==
    /\ formula = <<>>
    /\ formula' = validarFormulaAvaliacaoPorNivel(texto)
    /\ UNCHANGED texto

(* The academy edits another field and sends the formula back as it is      *)
(* listed; a formula that is refused leaves the rule as it was.             *)
EditarRegraAvaliacaoFinal ==
    /\ formula \notin {<<>>, Recusada}
    /\ LET nova == validarFormulaAvaliacaoPorNivel(formula)
       IN  nova # Recusada /\ formula' = nova
    /\ UNCHANGED texto

(* Any short text, and three operands with brackets anywhere.               *)
ComTresOperandos ==
    {<<a, Sinal(o), b, Sinal(p), c>> : a, b, c \in Atomos, o, p \in Ops}
    \cup {<<Sinal("("), a, Sinal(o), b, Sinal(")"), Sinal(p), c>> : a, b, c \in Atomos, o, p \in Ops}
    \cup {<<a, Sinal(o), Sinal("("), b, Sinal(p), c, Sinal(")")>> : a, b, c \in Atomos, o, p \in Ops}
Textos == UNION {[1..n -> Tokens] : n \in 1..MaxTexto} \cup ComTresOperandos

Init == texto \in Textos /\ formula = <<>>

Next == CriarRegraAvaliacaoFinal \/ EditarRegraAvaliacaoFinal

Spec == Init /\ [][Next]_formulaVars

-----------------------------------------------------------------------------
(* What a text means by the usual rules, without a parser: the last loose   *)
(* sum or, if there is none, the last loose product is done last.           *)
Invalido == <<0, -1>>

RECURSIVE Significado(_, _, _, _)
Significado(s, i, j, periodo) ==
    LET Conta1(c, k) == Cardinality({m \in i..k : s[m].t = c})
        Fundo(k) == Conta1("(", k) - Conta1(")", k)
        Soltos(sinais) == {k \in i..j : s[k].t \in sinais /\ Fundo(k) = 0}
        Junta(k) ==
            LET x == Significado(s, i, k - 1, periodo)
                y == Significado(s, k + 1, j, periodo)
                literal == \A m \in (k + 1)..j : s[m].t \notin Ops \cup {"[]"}
            IN  IF Invalido \in {x, y} \/ (s[k].t = "/" /\ literal /\ y[1] = 0) THEN Invalido
                ELSE Conta(s[k].t, x, y)
    IN  IF i > j THEN Invalido
        ELSE IF Soltos({"+", "-"}) # {} THEN Junta(Max(Soltos({"+", "-"})))
        ELSE IF Soltos({"*", "/"}) # {} THEN Junta(Max(Soltos({"*", "/"})))
        ELSE IF i = j THEN (CASE s[i].t = "num" -> <<s[i].n, 1>>
                              [] s[i].t = "[]" -> <<Notas[periodo], 1>>
                              [] OTHER -> Invalido)
        ELSE IF s[i].t = "(" /\ s[j].t = ")" /\ \A k \in i..(j - 1) : Fundo(k) > 0
        THEN Significado(s, i + 1, j - 1, periodo)
        ELSE Invalido

(* However often the text has been parsed and written back, the mark of a   *)
(* student is what the academy wrote, and what has no meaning was refused   *)
(* (avaliacao_final_regras.go:1120-1145, 1371-1494).  The text with its     *)
(* brackets and periods must still fit the limit of a formula: nothing      *)
(* checks that when the rule is accepted.                                   *)
MarksFollowTheText ==
    formula # <<>> =>
        \A periodo \in DOMAIN Notas :
            LET certo == Significado(texto, 1, Len(texto), periodo)
            IN  /\ formula = Recusada <=> certo = Invalido
                /\ \/ formula = Recusada
                   \/ Comprimento(preencherPeriodoFormulaSuperior(formula, periodo)) > MaxFormula
                   \/ Iguais(Nota(formula, periodo), certo)
=============================================================================
