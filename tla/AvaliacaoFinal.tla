--------------------------- MODULE AvaliacaoFinal ---------------------------
(***************************************************************************)
(* Grades of one school student and the final assessments they trigger     *)
(* (handlers/{notas_handlers,avaliacao_final_handler}.go, domain/aggregates *)
(* /estudante_{notas,avaliacao}.go, projections/{notas,avaliacao_final,    *)
(* estudante}_projection.go).  Recording the grade that closes the year    *)
(* assesses all subjects at once and, when the student passes, moves the   *)
(* student a level up, in the same save.  The handler reads the student's  *)
(* level, the grades and the earlier results from read models that are     *)
(* late, and only the loaded aggregate knows what has been assessed.       *)
(*                                                                         *)
(* A rule's formula stands for its triggering grade: absent grades count   *)
(* zero, and the values of one reference are summed.                       *)
(***************************************************************************)
EXTENDS Integers, Sequences, FiniteSets, SequencesExt, FiniteSetsExt

CONSTANTS
    Materias,       \* subjects, of every level
    Pendenciaveis,  \* those a student may leave pending
    Limite,         \* limite_materias_pendentes of the rules
    Escolas,        \* kinds of school: "fundamental", "medio"
    Valores,        \* grades a teacher may give
    Minima,         \* nota_minima_aprovacao
    UltimoNivel,    \* levels are 1 .. UltimoNivel
    UltimoAno,      \* bound: school years are 1 .. UltimoAno
    Docentes,       \* HTTP requests that may be in progress at once
    MaxNotas        \* bound: HTTP requests in one behaviour

VARIABLES
    ensino,         \* the kind of school the student is in
    anoLetivo,      \* the school year the academy is in
    percurso,       \* the ledger: the student's events
    percursoLido,   \* how many of them each projection has handled
    estudante,      \* the student's row: level and status
    docente,        \* what each handler is doing
    notas           \* HTTP requests so far

vars == <<ensino, anoLetivo, percurso, percursoLido, estudante, docente, notas>>

Leitores == {"estudantes", "notas", "avaliacao_final"}
Ocioso == [passo |-> "ocioso"]
Nenhum == 0

-----------------------------------------------------------------------------
(* Read models: a row of the student, which its projection updates, and what *)
(* the queries find among the events that the others have handled.          *)

Lidos(p) == 1 .. percursoLido[p]

handleAvaliacaoFinalAnoAcademico(e) ==
    IF e.tipo # "Avaliacao" \/ ~e.aprovado THEN estudante
    ELSE IF e.proximo # Nenhum
         THEN [nivel |-> e.proximo,
               status |-> IF ensino = "fundamental" THEN "em_andamento" ELSE estudante.status]
         ELSE [estudante EXCEPT !.status = "finalizado"]

MesmaNota(e, ano, m, cat) ==
    e.tipo \in {"Nota", "Correcao"} /\ e.ano = ano /\ e.materia = m /\ e.categoria = cat

(* The first event of a grade inserts its row, a correction updates it.     *)
NotasLidas(ano, m, cat) ==
    {i \in Lidos("notas") : MesmaNota(percurso[i], ano, m, cat)}
Nota(ano, m, cat) ==
    LET ns == NotasLidas(ano, m, cat)
        corrigida == {i \in ns : percurso[i].tipo = "Correcao"} IN
    IF ns = {} THEN 0
    ELSE percurso[IF corrigida = {} THEN Min(ns) ELSE Max(corrigida)].valor

MesmaAvaliacao(e, ano, nivel, type) ==
    e.tipo = "Avaliacao" /\ e.ano = ano /\ e.nivel = nivel /\ e.type = type

(* ON CONFLICT DO NOTHING: the first one stays.                             *)
ResultadosByType(ano, nivel, type) ==
    {i \in Lidos("avaliacao_final") : MesmaAvaliacao(percurso[i], ano, nivel, type)}
GetResultadoByType(ano, nivel, type) == percurso[Min(ResultadosByType(ano, nivel, type))]

-----------------------------------------------------------------------------
(* The rule a grade triggers, and its result *)

calcularProximoAno(nivel, aprovado) ==
    IF aprovado /\ nivel < UltimoNivel THEN nivel + 1 ELSE Nenhum

(* Subjects the rule looks at: the exam, those failed before.               *)
materiasAplicaveis(d) ==
    IF d.categoria = "normal" THEN Materias
    ELSE GetResultadoByType(d.ano, d.nivel, "normal").reprovadas

calcularResultadoMaterias(d) ==
    LET nota(m) == Nota(d.ano, m, d.categoria) + (IF m = d.materia THEN d.valor ELSE 0)
        reprovadas == {m \in materiasAplicaveis(d) : nota(m) < Minima}
        pendencias == /\ ensino # "fundamental"
                      /\ Cardinality(reprovadas) <= Limite /\ reprovadas \subseteq Pendenciaveis
    IN  [reprovadas |-> reprovadas, aprovado |-> reprovadas = {} \/ pendencias]

regraPodeExecutar(d) ==
    /\ ResultadosByType(d.ano, d.nivel, d.categoria) = {}
    /\ d.categoria = "recurso" =>
         /\ ResultadosByType(d.ano, d.nivel, "normal") # {}
         /\ ~GetResultadoByType(d.ano, d.nivel, "normal").aprovado

(* The keys of the aggregate as it was loaded: its first d.versao events.    *)
chaveNivel(d) ==
    \E i \in 1 .. d.versao : MesmaAvaliacao(percurso[i], d.ano, d.nivel, d.categoria)
chaveAnoLetivo(d) ==
    \E i \in 1 .. d.versao : /\ percurso[i].tipo = "Avaliacao" /\ percurso[i].ano = d.ano
                             /\ percurso[i].type = d.categoria

\* fault: one assessment per level, however many levels a year
WrongRegistrarAvaliacaoFinal(d, r) ==
    IF chaveNivel(d) THEN <<>>
    ELSE << [tipo |-> "Avaliacao", em |-> d.em, ano |-> d.ano, nivel |-> d.nivel,
             type |-> d.categoria,
             aprovado |-> r.aprovado, proximo |-> calcularProximoAno(d.nivel, r.aprovado),
             reprovadas |-> r.reprovadas] >>

RegistrarAvaliacaoFinal(d, r) ==
    IF chaveNivel(d) \/ chaveAnoLetivo(d) THEN <<>>
    ELSE << [tipo |-> "Avaliacao", em |-> d.em, ano |-> d.ano, nivel |-> d.nivel,
             type |-> d.categoria,
             aprovado |-> r.aprovado, proximo |-> calcularProximoAno(d.nivel, r.aprovado),
             reprovadas |-> r.reprovadas] >>

(* The whole request fails: a subject passed before has no exam, or a        *)
(* corrected grade is of a level the student has left.                       *)
Falha(d) ==
    /\ regraPodeExecutar(d)
    /\ d.materia \notin materiasAplicaveis(d) \/ d.nivel # d.atual

tentarAvaliacoesFinaisAutomaticas(d) ==
    IF regraPodeExecutar(d)
    THEN RegistrarAvaliacaoFinal(d, calcularResultadoMaterias(d))
    ELSE <<>>

-----------------------------------------------------------------------------
(* Handlers *)

Registo(d) == [tipo |-> d.tipo, em |-> d.em, ano |-> d.ano, nivel |-> d.nivel, materia |-> d.materia,
               categoria |-> d.categoria, valor |-> d.valor]

Comeca(h, d) ==
    /\ docente[h] = Ocioso /\ notas < MaxNotas
    /\ notas' = notas + 1
    /\ docente' = [docente EXCEPT ![h] = d]
    /\ UNCHANGED <<ensino, anoLetivo, percurso, percursoLido, estudante>>

Termina(h) == docente' = [docente EXCEPT ![h] = Ocioso]

RegistrarNota(h, m, cat, v) ==
    /\ estudante.status = "em_andamento"   \* validarMatriculaEmAndamento
    /\ Comeca(h, [passo |-> "carregar", tipo |-> "Nota", em |-> anoLetivo, ano |-> anoLetivo,
                  nivel |-> estudante.nivel, atual |-> estudante.nivel,
                  materia |-> m, categoria |-> cat, valor |-> v, versao |-> 0])

CorrigirNota(h, ano, m, cat, v) ==
    \E i \in NotasLidas(ano, m, cat) :
        /\ \A j \in NotasLidas(ano, m, cat) : i <= j
        /\ Comeca(h, [passo |-> "carregar", tipo |-> "Correcao", em |-> anoLetivo,
                      ano |-> ano, nivel |-> percurso[i].nivel, atual |-> estudante.nivel,
                      materia |-> m, categoria |-> cat, valor |-> v, versao |-> 0])

(* chaveNota: a grade is registered once and corrected only once registered *)
Load(h) ==
    LET d == docente[h]
        existe == \E i \in DOMAIN percurso : MesmaNota(percurso[i], d.ano, d.materia, d.categoria)
    IN
    /\ d.passo = "carregar"
    /\ IF existe <=> d.tipo = "Correcao"
       THEN docente' = [docente EXCEPT ![h].passo = "avaliar", ![h].versao = Len(percurso)]
       ELSE Termina(h)
    /\ UNCHANGED <<ensino, anoLetivo, percurso, percursoLido, estudante, notas>>

Avaliar(h) ==
    LET d == docente[h] IN
    /\ d.passo = "avaliar"
    /\ IF Falha(d)
       THEN Termina(h)
       ELSE docente' = [docente EXCEPT ![h] =
                [passo |-> "gravar",
                 eventos |-> <<Registo(d)>> \o tentarAvaliacoesFinaisAutomaticas(d)]]
    /\ UNCHANGED <<ensino, anoLetivo, percurso, percursoLido, estudante, notas>>

SaveWithAudit(h) ==
    /\ docente[h].passo = "gravar"
    /\ percurso' = percurso \o docente[h].eventos
    /\ Termina(h)
    /\ UNCHANGED <<ensino, anoLetivo, percursoLido, estudante, notas>>

Projeta(p) ==
    /\ percursoLido[p] < Len(percurso)
    /\ percursoLido' = [percursoLido EXCEPT ![p] = @ + 1]
    /\ estudante' = IF p = "estudantes"
                    THEN handleAvaliacaoFinalAnoAcademico(percurso[percursoLido[p] + 1])
                    ELSE estudante
    /\ UNCHANGED <<ensino, anoLetivo, percurso, docente, notas>>

(* Between two school years no grade is being recorded and the read models   *)
(* have caught up.                                                           *)
DefinirAnoLetivoAcademia ==
    /\ anoLetivo < UltimoAno
    /\ \A h \in Docentes : docente[h] = Ocioso
    /\ \A p \in Leitores : percursoLido[p] = Len(percurso)
    /\ anoLetivo' = anoLetivo + 1
    /\ UNCHANGED <<ensino, percurso, percursoLido, estudante, docente, notas>>

Init ==
    /\ ensino \in Escolas
    /\ anoLetivo = 1 /\ percurso = <<>> /\ percursoLido = [p \in Leitores |-> 0]
    /\ estudante = [nivel |-> 1, status |-> "em_andamento"]
    /\ docente = [h \in Docentes |-> Ocioso] /\ notas = 0

Categorias == {"normal", "recurso"}

Next ==
    \/ \E h \in Docentes :
        \/ \E m \in Materias, cat \in Categorias, v \in Valores :
            \/ RegistrarNota(h, m, cat, v)
            \/ \E ano \in 1 .. UltimoAno : CorrigirNota(h, ano, m, cat, v)
        \/ Load(h) \/ Avaliar(h) \/ SaveWithAudit(h)
    \/ \E p \in Leitores : Projeta(p)
    \/ DefinirAnoLetivoAcademia

Spec == Init /\ [][Next]_vars

-----------------------------------------------------------------------------
TypeOK ==
    /\ ensino \in Escolas /\ anoLetivo \in 1 .. UltimoAno /\ notas \in 0 .. MaxNotas
    /\ \A i \in DOMAIN percurso : percurso[i].tipo \in {"Nota", "Correcao", "Avaliacao"}
    /\ \A p \in Leitores : percursoLido[p] \in 0 .. Len(percurso)

Promocoes == {e \in Range(percurso) : e.tipo = "Avaliacao" /\ e.aprovado}

(* In one school year a student goes up from one level only, however many   *)
(* grades are being recorded and however late the level is read: the        *)
(* aggregate refuses a second decision of the year (estudante_avaliacao.go,  *)
(* chaveAvaliacaoAnoLetivo), and it is loaded after the level has been read. *)
(* Not so in a year in which the correction of an earlier year's grade moves *)
(* the student up: CorrigirNota accepts it, and it changes the level while   *)
(* grades of this year, whose level has been read, are being recorded.       *)
OneLevelPerYear ==
    \A e, f \in Promocoes : e.ano = f.ano =>
        \/ e.nivel = f.nivel
        \/ \E g \in Promocoes : g.ano < e.ano /\ g.em = e.ano
=============================================================================
