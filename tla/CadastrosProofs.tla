-------------------------- MODULE CadastrosProofs --------------------------
(***************************************************************************)
(* Proofs about Cadastros: the rows agree with the aggregates.  For every  *)
(* kind of register, an event about one that exists links two states, both *)
(* in the aggregate and in the row, and no command decides anything but    *)
(* events of that sort; from there a history of the register through the   *)
(* events not yet projected is an invariant.                               *)
(***************************************************************************)
EXTENDS Cadastros, SequenceTheorems, TLAPS

(* An event links two states: the row that was equal to the first becomes   *)
(* equal to the second, and stays there when the event is handled again.    *)
Elo(a, ev, b) ==
    (\A y : Handle(a, ev, y) = b /\ Handle(b, ev, y) = b) /\ DOMAIN a = DOMAIN b

(* The same of a row that is a state but for the students in a set, and in  *)
(* any larger set.                                                          *)
Passo(m, a, ev, b) ==
    /\ DOMAIN a = DOMAIN b
    /\ \A n, l : \A y \in BOOLEAN :
          m \subseteq n /\ (Igual(a, l, n) \/ Igual(b, l, n)) => Igual(b, Handle(l, ev, y), n)

(* An assessment is about a student of the set.                             *)
Dentro(m, ev) == tipo = "turma" /\ ev.tipo = T!Avaliacao => ev.e \in m

(* A class that exists, the events about one, and the event that creates   *)
(* one.                                                                    *)
VivaTurma(t) ==
    /\ t = [status |-> t.status, nivel |-> t.nivel, tema |-> t.tema, estudantes |-> t.estudantes,
            historico |-> t.historico, apagada |-> t.apagada]
    /\ t.status # "nenhum"
MudaTurma(ev) == ev.tipo \in {"TurmaAtivada", "TurmaDesativada", "EstudanteAdicionadoATurma",
                      "EstudanteRemovidoDaTurma", "TurmaDadosAtualizados", "TurmaDeletada",
                      T!Avaliacao}
CriaTurma(ev) == ev.tipo = "TurmaCriada"

Campos == {"status", "nivel", "tema", "estudantes", "historico", "apagada"}

(* What it is for a row to be a class but for some students, field by      *)
(* field.                                                                  *)
LEMMA TurmaCampos ==
    ASSUME NEW t, DOMAIN t = Campos, NEW l, NEW n
    PROVE  T!Mesma(t, l, n) <=>
             /\ DOMAIN l = Campos
             /\ l.status = t.status /\ l.nivel = t.nivel /\ l.tema = t.tema
             /\ l.apagada = t.apagada /\ l.estudantes \ n = t.estudantes \ n
             /\ l.historico = t.historico \/ (l.historico = TRUE /\ n # {})
  BY DEF T!Mesma, Campos

(* A class that exists meets an event about one: it exists after the       *)
(* event, also the assessment of a student, which it does not meet.        *)
LEMMA TurmaVive ==
    ASSUME NEW t, NEW ev, VivaTurma(t), MudaTurma(ev)
    PROVE  VivaTurma(T!Apply(t, ev)) /\ DOMAIN t = DOMAIN T!Apply(t, ev)
  <1> USE DEF VivaTurma, T!Apply, T!Avaliacao
  <1>1. CASE ev.tipo = "TurmaAtivada"
    BY <1>1 DEF T!applyTurmaStatusChange
  <1>2. CASE ev.tipo = "TurmaDesativada"
    BY <1>2 DEF T!applyTurmaStatusChange
  <1>3. CASE ev.tipo = "EstudanteAdicionadoATurma"
    BY <1>3 DEF T!applyEstudanteAdicionado
  <1>4. CASE ev.tipo = "EstudanteRemovidoDaTurma"
    BY <1>4 DEF T!applyEstudanteRemovido
  <1>5. CASE ev.tipo = "TurmaDadosAtualizados"
    BY <1>5 DEF T!applyTurmaDadosAtualizados
  <1>6. CASE ev.tipo = "TurmaDeletada"
    BY <1>6 DEF T!applyTurmaDeletada
  <1>7. CASE ev.tipo = T!Avaliacao
    BY <1>7 DEF T!Avaliacao
  <1> QED
    BY <1>1, <1>2, <1>3, <1>4, <1>5, <1>6, <1>7 DEF MudaTurma

(* A row that was the class before the event, or is the class after it,    *)
(* but for some students, is the class after it when it has handled it.    *)
LEMMA TurmaSegue ==
    ASSUME NEW t, NEW ev, VivaTurma(t), MudaTurma(ev), NEW n, ev.tipo = T!Avaliacao => ev.e \in n,
           NEW l, T!Mesma(t, l, n) \/ T!Mesma(T!Apply(t, ev), l, n), NEW y \in BOOLEAN
    PROVE  T!Mesma(T!Apply(t, ev), T!Handle(l, ev, y), n)
  <1> DEFINE b == T!Apply(t, ev)
             h == T!Handle(l, ev, y)
             Perto(u, r) == /\ DOMAIN r = Campos
                            /\ r.status = u.status /\ r.nivel = u.nivel /\ r.tema = u.tema
                            /\ r.apagada = u.apagada /\ r.estudantes \ n = u.estudantes \ n
                            /\ r.historico = u.historico \/ (r.historico = TRUE /\ n # {})
  <1>1. DOMAIN t = Campos
    BY DEF VivaTurma, Campos
  <1>2. DOMAIN t = Campos /\ DOMAIN b = Campos
    BY <1>1, TurmaVive
  <1>3. Perto(t, l) \/ Perto(b, l)
    BY <1>2, TurmaCampos
  <1> SUFFICES Perto(b, h)
    BY <1>2, TurmaCampos
  <1>4. CASE ev.tipo = "TurmaAtivada"
    <2>1. b = T!applyTurmaStatusChange(t, "ativo") /\ h = T!handleTurmaAtivada(l)
      BY <1>4 DEF T!Apply, T!Handle, T!Avaliacao
    <2> HIDE DEF b, h
    <2> QED
      BY <1>2, <1>3, <2>1 DEF Campos, T!applyTurmaStatusChange, T!handleTurmaAtivada
  <1>5. CASE ev.tipo = "TurmaDesativada"
    <2>1. b = T!applyTurmaStatusChange(t, "inativo") /\ h = T!handleTurmaDesativada(l)
      BY <1>5 DEF T!Apply, T!Handle, T!Avaliacao
    <2> HIDE DEF b, h
    <2> QED
      BY <1>2, <1>3, <2>1 DEF Campos, T!applyTurmaStatusChange, T!handleTurmaDesativada
  <1>6. CASE ev.tipo = "EstudanteAdicionadoATurma"
    <2>1. b = T!applyEstudanteAdicionado(t, ev) /\ h = T!handleEstudanteAdicionado(l, ev)
      BY <1>6 DEF T!Apply, T!Handle, T!Avaliacao
    <2> HIDE DEF b, h
    <2> QED
      BY <1>2, <1>3, <2>1 DEF Campos, T!applyEstudanteAdicionado, T!handleEstudanteAdicionado
  <1>7. CASE ev.tipo = "EstudanteRemovidoDaTurma"
    <2>1. b = T!applyEstudanteRemovido(t, ev) /\ h = T!handleEstudanteRemovido(l, ev)
      BY <1>7 DEF T!Apply, T!Handle, T!Avaliacao
    <2> HIDE DEF b, h
    <2> QED
      BY <1>2, <1>3, <2>1 DEF Campos, T!applyEstudanteRemovido, T!handleEstudanteRemovido
  <1>8. CASE ev.tipo = "TurmaDadosAtualizados"
    <2>1. b = T!applyTurmaDadosAtualizados(t, ev) /\ h = T!handleTurmaAtualizada(l, ev)
      BY <1>8 DEF T!Apply, T!Handle, T!Avaliacao
    <2> HIDE DEF b, h
    <2> QED
      BY <1>2, <1>3, <2>1 DEF Campos, T!applyTurmaDadosAtualizados, T!handleTurmaAtualizada
  <1>9. CASE ev.tipo = "TurmaDeletada"
    <2>1. b = T!applyTurmaDeletada(t) /\ h = T!handleTurmaDeletada(l)
      BY <1>9 DEF T!Apply, T!Handle, T!Avaliacao
    <2> HIDE DEF b, h
    <2> QED
      BY <1>2, <1>3, <2>1 DEF Campos, T!applyTurmaDeletada, T!handleTurmaDeletada
  <1>10. CASE ev.tipo = T!Avaliacao
    <2>1. b = t /\ h = T!handleAvaliacaoFinalAnoAcademico(l, ev, y) /\ ev.e \in n
      BY <1>10 DEF T!Apply, T!Handle, T!Avaliacao
    <2> HIDE DEF b, h
    <2> QED
      BY <1>2, <1>3, <2>1 DEF Campos, T!handleAvaliacaoFinalAnoAcademico
  <1> QED
    BY <1>4, <1>5, <1>6, <1>7, <1>8, <1>9, <1>10 DEF MudaTurma

(* The same, of the register that is a class.                              *)
LEMMA TurmaMuda ==
    ASSUME tipo = "turma", NEW m, NEW t, NEW ev, VivaTurma(t), MudaTurma(ev), Dentro(m, ev)
    PROVE VivaTurma(Apply(t, ev)) /\ Passo(m, t, ev, Apply(t, ev))
  <1>1. Apply(t, ev) = T!Apply(t, ev)
    BY DEF Apply
  <1>2. ASSUME NEW n, NEW l, NEW y \in BOOLEAN, m \subseteq n,
               T!Mesma(t, l, n) \/ T!Mesma(T!Apply(t, ev), l, n)
        PROVE  T!Mesma(T!Apply(t, ev), T!Handle(l, ev, y), n)
    BY <1>2, TurmaSegue DEF Dentro
  <1>3. \A l, y : Handle(l, ev, y) = T!Handle(l, ev, y)
    BY DEF Handle
  <1>4. \A a, l, n : Igual(a, l, n) <=> T!Mesma(a, l, n)
    BY DEF Igual
  <1>5. VivaTurma(T!Apply(t, ev)) /\ DOMAIN t = DOMAIN T!Apply(t, ev)
    BY TurmaVive
  <1> QED
    BY <1>1, <1>2, <1>3, <1>4, <1>5, Zenon DEF Passo

(* The event that creates a class makes one that exists, in the aggregate  *)
(* and in the row alike, also when it is handled twice.                    *)
LEMMA TurmaNova ==
    ASSUME tipo = "turma", NEW m, NEW ev, CriaTurma(ev)
    PROVE VivaTurma(Apply(Novo(tipo), ev)) /\ Passo(m, Novo(tipo), ev, Apply(Novo(tipo), ev))
  <1> DEFINE t == T!NewTurma
             b == T!Apply(t, ev)
  <1>1. /\ b = [status |-> "ativo", nivel |-> ev.nivel, tema |-> ev.tema, estudantes |-> {},
                historico |-> FALSE, apagada |-> FALSE]
        /\ DOMAIN t = DOMAIN b
    <2>1. b = T!applyTurmaCriada(t, ev)
      BY DEF CriaTurma, T!Apply, T!Avaliacao
    <2> QED
      BY <2>1 DEF T!NewTurma, T!applyTurmaCriada
  <1>2. VivaTurma(b)
    BY <1>1 DEF VivaTurma
  <1>3. ASSUME NEW n, NEW l, NEW y \in BOOLEAN, T!Mesma(t, l, n) \/ T!Mesma(b, l, n)
        PROVE  T!Mesma(b, T!Handle(l, ev, y), n)
    <2>1. DOMAIN t = Campos /\ DOMAIN b = Campos
      BY <1>1 DEF T!NewTurma, Campos
    <2>2. /\ DOMAIN l = Campos /\ l.status \in {"nenhum", "ativo"} /\ l.apagada = FALSE
          /\ l.estudantes \ n = {} \ n /\ (l.historico = FALSE \/ (l.historico = TRUE /\ n # {}))
      <3>1. PICK u : (u = t \/ u = b) /\ T!Mesma(u, l, n)
        BY <1>3
      <3>2. /\ DOMAIN u = Campos /\ u.status \in {"nenhum", "ativo"} /\ u.apagada = FALSE
            /\ u.estudantes = {} /\ u.historico = FALSE
        BY <1>1, <2>1, <3>1 DEF T!NewTurma
      <3>3. /\ DOMAIN l = Campos /\ l.status = u.status /\ l.apagada = u.apagada
            /\ l.estudantes \ n = u.estudantes \ n
            /\ l.historico = u.historico \/ (l.historico = TRUE /\ n # {})
        BY <3>1, <3>2, TurmaCampos
      <3> QED
        BY <3>2, <3>3
    <2>3. PICK h : h = T!Handle(l, ev, y)
      OBVIOUS
    <2>4. h = T!handleTurmaCriada(l, ev)
      BY <2>3 DEF CriaTurma, T!Handle, T!Avaliacao
    <2>5. /\ DOMAIN h = Campos /\ h.status = "ativo" /\ h.nivel = ev.nivel /\ h.tema = ev.tema
          /\ h.apagada = FALSE /\ h.estudantes = l.estudantes /\ h.historico = l.historico
      BY <2>2, <2>4 DEF T!handleTurmaCriada, Campos
    <2>6. PICK c : c = b
      OBVIOUS
    <2>7. /\ DOMAIN c = Campos /\ c.status = "ativo" /\ c.nivel = ev.nivel /\ c.tema = ev.tema
          /\ c.apagada = FALSE /\ c.estudantes = {} /\ c.historico = FALSE
      BY <1>1, <2>1, <2>6
    <2>8. T!Mesma(c, h, n)
      BY <2>2, <2>5, <2>7, TurmaCampos
    <2> QED
      BY <2>3, <2>6, <2>8
  <1>4. Novo(tipo) = t /\ Apply(t, ev) = b /\ \A l, y : Handle(l, ev, y) = T!Handle(l, ev, y)
    BY DEF Novo, Apply, Handle
  <1>5. \A a, l, n : Igual(a, l, n) <=> T!Mesma(a, l, n)
    BY DEF Igual
  <1> HIDE DEF t, b
  <1> QED
    BY <1>1, <1>2, <1>3, <1>4, <1>5, Zenon DEF Passo

(* For every other kind of register the row is equal to the state.         *)
LEMMA EloPasso ==
    ASSUME tipo # "turma", NEW m, NEW a, NEW ev, NEW b, Elo(a, ev, b)
    PROVE  Passo(m, a, ev, b)
  BY DEF Elo, Passo, Igual

(* Every batch that a handler may decide on for a class that exists holds  *)
(* events about one that exists.                                           *)
LEMMA TurmaPede ==
    ASSUME tipo = "turma", VivaTurma(estado), NEW lote \in Decisoes
    PROVE \E ev : lote = <<ev>> /\ MudaTurma(ev)
  <1>1. lote \in T!Pedidos(estado, linha)
    BY DEF Decisoes
  <1>2. estado # T!NewTurma
    BY DEF VivaTurma, T!NewTurma
  <1> USE DEF MudaTurma
  <1>3. CASE lote \in T!AtivarTurma(estado, linha)
    BY <1>3 DEF T!AtivarTurma, T!Ativar
  <1>4. CASE lote \in T!DesativarTurma(estado, linha)
    BY <1>4 DEF T!DesativarTurma, T!Desativar
  <1>5. CASE lote \in T!vincularEstudanteATurma(estado, linha)
    BY <1>5 DEF T!vincularEstudanteATurma, T!AdicionarEstudanteNoAnoLectivo
  <1>6. CASE lote \in T!RemoverEstudanteDaTurma(estado, linha)
    BY <1>6 DEF T!RemoverEstudanteDaTurma, T!RemoverEstudanteNoAnoLectivo
  <1>7. CASE lote \in T!AtualizarTurma(estado, linha)
    BY <1>7 DEF T!AtualizarTurma, T!AtualizarDados
  <1>8. CASE lote \in T!DeletarTurma(estado, linha)
    BY <1>8 DEF T!DeletarTurma, T!Deletar
  <1>9. CASE lote \in T!RegistrarAvaliacaoFinal(linha)
    BY <1>9 DEF T!RegistrarAvaliacaoFinal
  <1> QED
    BY <1>1, <1>2, <1>3, <1>4, <1>5, <1>6, <1>7, <1>8, <1>9 DEF T!Pedidos, T!CriarTurma

(* As long as there is no class, a handler can only decide to create it.   *)
LEMMA TurmaPedeNova ==
    ASSUME tipo = "turma", estado = Novo(tipo), linha = Novo(tipo), NEW lote \in Decisoes
    PROVE \E ev : lote = <<ev>> /\ CriaTurma(ev)
  <1>1. lote \in T!Pedidos(estado, linha)
    BY DEF Decisoes
  <1>2. estado = T!NewTurma /\ ~T!GetByCodigoTurma(linha)
    BY DEF Novo, T!NewTurma, T!GetByCodigoTurma
  <1>3. lote \in T!CriarTurma(estado)
    BY <1>1, <1>2 DEF T!Pedidos, T!AtivarTurma, T!DesativarTurma, T!vincularEstudanteATurma,
       T!RemoverEstudanteDaTurma, T!AtualizarTurma, T!DeletarTurma, T!RegistrarAvaliacaoFinal
  <1> QED
    BY <1>3 DEF CriaTurma, T!CriarTurma, T!Criar

(* Two batches of one event, put together.                                 *)
LEMMA Dois == ASSUME NEW a, NEW b PROVE <<a>> \o <<b>> = <<a, b>>
  <1>1. <<a>> \in Seq({a, b}) /\ <<b>> \in Seq({a, b}) /\ <<a, b>> \in Seq({a, b})
    OBVIOUS
  <1>2. /\ <<a>> \o <<b>> \in Seq({a, b}) /\ Len(<<a>> \o <<b>>) = 2
        /\ (<<a>> \o <<b>>)[1] = a /\ (<<a>> \o <<b>>)[2] = b
    BY <1>1, ConcatProperties
  <1> HIDE <1>1
  <1> DEFINE s == <<a>> \o <<b>>
             t == <<a, b>>
  <1>3. s \in Seq({a, b}) /\ t \in Seq({a, b}) /\ Len(s) = Len(t)
        /\ \A i \in 1..Len(s) : s[i] = t[i]
    BY <1>1, <1>2
  <1> HIDE DEF s, t
  <1>4. s = t
    BY <1>3, SeqEqual
  <1> QED
    BY <1>4 DEF s, t

(* A course that exists, the events about one, and the event that creates  *)
(* one.                                                                    *)
VivoCurso(c) ==
    /\ c = [status |-> c.status, nome |-> c.nome, type |-> c.type, modelo |-> c.modelo,
            anos |-> c.anos, periodos |-> c.periodos, apagado |-> c.apagado]
    /\ c.status # "nenhum"
MudaCurso(ev) ==
    ev.tipo \in {"CursoAtivado", "CursoDesativado", "CursoDadosAtualizados", "CursoDeletado"}
CriaCurso(ev) == ev.tipo = "CursoCriado"

(* A course that exists meets an event about one: it exists after the      *)
(* event, a row that was equal to it is equal to it again, and handling    *)
(* the event a second time changes nothing.                                *)
LEMMA CursoMuda ==
    ASSUME tipo = "curso", NEW c, NEW ev, VivoCurso(c), MudaCurso(ev)
    PROVE VivoCurso(Apply(c, ev)) /\ Elo(c, ev, Apply(c, ev))
  <1> DEFINE b == C!Apply(c, ev)
  <1>1. VivoCurso(b) /\ C!Handle(c, ev) = b /\ C!Handle(b, ev) = b /\ DOMAIN c = DOMAIN b
    <2> USE DEF VivoCurso, C!Handle, C!Apply
    <2>1. CASE ev.tipo = "CursoAtivado"
      BY <2>1 DEF C!handleCursoAtivado, C!applyCursoAtivado
    <2>2. CASE ev.tipo = "CursoDesativado"
      BY <2>2 DEF C!handleCursoDesativado, C!applyCursoDesativado
    <2>3. CASE ev.tipo = "CursoDadosAtualizados"
      BY <2>3 DEF C!handleCursoDadosAtualizados, C!applyCursoDadosAtualizados
    <2>4. CASE ev.tipo = "CursoDeletado"
      BY <2>4 DEF C!handleCursoDeletado, C!applyCursoDeletado
    <2> QED
      BY <2>1, <2>2, <2>3, <2>4 DEF MudaCurso
  <1>2. \A x, y : Apply(x, ev) = C!Apply(x, ev) /\ Handle(x, ev, y) = C!Handle(x, ev)
    BY DEF Apply, Handle
  <1> QED
    BY <1>1, <1>2 DEF Elo

(* The event that creates a course makes one that exists, in the           *)
(* aggregate and in the row alike, also when it is handled twice.          *)
LEMMA CursoNovo ==
    ASSUME tipo = "curso", NEW ev, CriaCurso(ev)
    PROVE VivoCurso(Apply(Novo(tipo), ev)) /\ Elo(Novo(tipo), ev, Apply(Novo(tipo), ev))
  <1> DEFINE c == C!NewCurso
             b == C!Apply(c, ev)
  <1>1. VivoCurso(b) /\ C!Handle(c, ev) = b /\ C!Handle(b, ev) = b /\ DOMAIN c = DOMAIN b
    BY DEF CriaCurso, VivoCurso, C!NewCurso, C!Apply, C!Handle, C!applyCursoCriado,
       C!handleCursoCriado, C!normalizarModeloLegado, C!modeloCursoParaProjecao
  <1>2. \A x, y : Apply(x, ev) = C!Apply(x, ev) /\ Handle(x, ev, y) = C!Handle(x, ev)
    BY DEF Apply, Handle
  <1>3. Novo(tipo) = c
    BY DEF Novo
  <1> QED
    BY <1>1, <1>2, <1>3 DEF Elo

(* Every batch that a handler may decide on for a course that exists       *)
(* holds events about one that exists.                                     *)
LEMMA CursoPede ==
    ASSUME tipo = "curso", VivoCurso(estado), NEW lote \in Decisoes
    PROVE \E ev : lote = <<ev>> /\ MudaCurso(ev)
  <1>1. lote \in C!Pedidos(estado, linha)
    BY DEF Decisoes
  <1>2. estado # C!NewCurso
    <2>1. estado.status # "nenhum" /\ C!NewCurso.status = "nenhum"
      BY DEF VivoCurso, C!NewCurso
    <2> QED
      BY <2>1
  <1> USE DEF MudaCurso
  <1>3. CASE lote \in C!AtivarCurso(estado, linha)
    BY <1>3 DEF C!AtivarCurso, C!Ativar
  <1>4. CASE lote \in C!DesativarCurso(estado, linha)
    BY <1>4 DEF C!DesativarCurso, C!Desativar
  <1>5. CASE lote \in C!AtualizarDadosCurso(linha)
    BY <1>5 DEF C!AtualizarDadosCurso, C!AtualizarDados
  <1>6. CASE lote \in C!DeletarCurso(estado, linha)
    BY <1>6 DEF C!DeletarCurso, C!Deletar
  <1> QED
    BY <1>1, <1>2, <1>3, <1>4, <1>5, <1>6 DEF C!Pedidos, C!CriarCurso

(* As long as there is no course, a handler can only decide to create it.  *)
LEMMA CursoPedeNovo ==
    ASSUME tipo = "curso", estado = Novo(tipo), linha = Novo(tipo), NEW lote \in Decisoes
    PROVE \E ev : lote = <<ev>> /\ CriaCurso(ev)
  <1>1. lote \in C!Pedidos(estado, linha)
    BY DEF Decisoes
  <1>2. estado = C!NewCurso /\ ~C!GetByID(linha)
    BY DEF Novo, C!NewCurso, C!GetByID
  <1>3. lote \in C!CriarCurso(estado)
    BY <1>1, <1>2 DEF C!Pedidos, C!AtivarCurso, C!DesativarCurso, C!AtualizarDadosCurso, C!DeletarCurso
  <1>4. CASE \E ev \in C!CriadoSemModelo : lote = <<ev>>
    <2>1. PICK ev \in C!CriadoSemModelo : lote = <<ev>>
      BY <1>4
    <2>2. ev = [tipo |-> "CursoCriado", nome |-> "n1", type |-> "medio", modelo |-> "",
                anos |-> 3, periodos |-> 0]
      BY <2>1, Zenon DEF C!CriadoSemModelo
    <2>3. ev.tipo = "CursoCriado"
      BY <2>2
    <2> QED
      BY <2>1, <2>3 DEF CriaCurso
  <1>5. ASSUME NEW type, NEW modelo, NEW plano, NEW ev \in C!Criar(type, modelo, plano),
               lote = <<ev>>
        PROVE CriaCurso(ev)
    BY <1>5 DEF CriaCurso, C!Criar
  <1>6. lote \in {<<ev>> : ev \in C!CriadoSemModelo
                \cup (UNION {C!Criar("medio", m, C!prepararDadosCursoPorTipo("medio", m, 0)) :
                                m \in {"liceu", "tecnico"}})
                \cup (UNION {C!Criar("superior", "", C!prepararDadosCursoPorTipo("superior", "", n)) :
                                n \in 1..C!MaxPeriodos})}
    BY <1>2, <1>3 DEF C!CriarCurso
  <1>7. PICK ev \in C!CriadoSemModelo
                \cup (UNION {C!Criar("medio", m, C!prepararDadosCursoPorTipo("medio", m, 0)) :
                                m \in {"liceu", "tecnico"}})
                \cup (UNION {C!Criar("superior", "", C!prepararDadosCursoPorTipo("superior", "", n)) :
                                n \in 1..C!MaxPeriodos}) : lote = <<ev>>
    BY <1>6
  <1>8. CASE \E m : ev \in C!Criar("medio", m, C!prepararDadosCursoPorTipo("medio", m, 0))
    BY <1>5, <1>7, <1>8
  <1>9. CASE \E n : ev \in C!Criar("superior", "", C!prepararDadosCursoPorTipo("superior", "", n))
    BY <1>5, <1>7, <1>9
  <1>10. CASE ev \in C!CriadoSemModelo
    BY <1>4, <1>7, <1>10
  <1> HIDE DEF CriaCurso
  <1> QED
    BY <1>7, <1>8, <1>9, <1>10

(* A subject that exists, the events about one, and the event that         *)
(* creates one.                                                            *)
VivaMateria(m) ==
    /\ m = [status |-> m.status, nome |-> m.nome, type |-> m.type, periodo |-> m.periodo,
            pendencia |-> m.pendencia, conclusao |-> m.conclusao]
    /\ m.status # "nenhum"
MudaMateria(ev) ==
    ev.tipo \in {"MateriaAtivada", "MateriaDesativada", "MateriaDadosAtualizados",
                 "MateriaPeriodoDefinido", "MateriaDeletada"}
CriaMateria(ev) == ev.tipo = "MateriaCriada"

(* A subject that exists meets an event about one: it exists after the     *)
(* event, a row that was equal to it is equal to it again, and handling    *)
(* the event a second time changes nothing.                                *)
LEMMA MateriaMuda ==
    ASSUME tipo = "materia", NEW m, NEW ev, VivaMateria(m), MudaMateria(ev)
    PROVE VivaMateria(Apply(m, ev)) /\ Elo(m, ev, Apply(m, ev))
  <1> DEFINE b == M!Apply(m, ev)
  <1>1. VivaMateria(b) /\ M!Handle(m, ev) = b /\ M!Handle(b, ev) = b /\ DOMAIN m = DOMAIN b
    <2> USE DEF VivaMateria, M!Handle, M!Apply
    <2>1. CASE ev.tipo = "MateriaAtivada"
      BY <2>1 DEF M!handleStatusChange, M!applyMateriaAtivada
    <2>2. CASE ev.tipo = "MateriaDesativada"
      BY <2>2 DEF M!handleStatusChange, M!applyMateriaDesativada
    <2>3. CASE ev.tipo = "MateriaDadosAtualizados"
      BY <2>3 DEF M!handleMateriaDadosAtualizados, M!applyMateriaDadosAtualizados
    <2>4. CASE ev.tipo = "MateriaPeriodoDefinido"
      BY <2>4 DEF M!handleMateriaPeriodoDefinido, M!applyMateriaPeriodoDefinido
    <2>5. CASE ev.tipo = "MateriaDeletada"
      BY <2>5 DEF M!handleMateriaDeletada, M!applyMateriaDeletada
    <2> QED
      BY <2>1, <2>2, <2>3, <2>4, <2>5 DEF MudaMateria
  <1>2. \A x, y : Apply(x, ev) = M!Apply(x, ev) /\ Handle(x, ev, y) = M!Handle(x, ev)
    BY DEF Apply, Handle
  <1> QED
    BY <1>1, <1>2 DEF Elo

(* The event that creates a subject makes one that exists, in the          *)
(* aggregate and in the row alike, also when it is handled twice.          *)
LEMMA MateriaNova ==
    ASSUME tipo = "materia", NEW ev, CriaMateria(ev)
    PROVE VivaMateria(Apply(Novo(tipo), ev)) /\ Elo(Novo(tipo), ev, Apply(Novo(tipo), ev))
  <1> DEFINE m == M!NewMateriaDisciplinar
             b == M!Apply(m, ev)
  <1>1. VivaMateria(b) /\ M!Handle(m, ev) = b /\ M!Handle(b, ev) = b /\ DOMAIN m = DOMAIN b
    BY DEF CriaMateria, VivaMateria, M!NewMateriaDisciplinar, M!Apply, M!Handle,
       M!applyMateriaCriada, M!applyMateriaCriadaLinha
  <1>2. \A x, y : Apply(x, ev) = M!Apply(x, ev) /\ Handle(x, ev, y) = M!Handle(x, ev)
    BY DEF Apply, Handle
  <1>3. Novo(tipo) = m
    BY DEF Novo
  <1> QED
    BY <1>1, <1>2, <1>3 DEF Elo

(* Every batch that a handler may decide on for a subject that exists      *)
(* holds events about one that exists.                                     *)
LEMMA MateriaPede ==
    ASSUME tipo = "materia", VivaMateria(estado), NEW lote \in Decisoes
    PROVE \E ev : lote = <<ev>> /\ MudaMateria(ev)
  <1>1. lote \in M!Pedidos(estado, linha)
    BY DEF Decisoes
  <1>2. estado # M!NewMateriaDisciplinar
    <2>1. estado.status # "nenhum" /\ M!NewMateriaDisciplinar.status = "nenhum"
      BY DEF VivaMateria, M!NewMateriaDisciplinar
    <2> QED
      BY <2>1
  <1> USE DEF MudaMateria
  <1>3. CASE lote \in M!AtivarMateria(estado, linha)
    BY <1>3 DEF M!AtivarMateria, M!Ativar
  <1>4. CASE lote \in M!DesativarMateria(estado, linha)
    BY <1>4 DEF M!DesativarMateria, M!Desativar
  <1>5. CASE lote \in M!AtualizarDadosMateria(estado, linha)
    BY <1>5 DEF M!AtualizarDadosMateria, M!AtualizarDados
  <1>6. CASE lote \in M!DeletarMateria(estado, linha)
    BY <1>6 DEF M!DeletarMateria, M!Deletar
  <1> QED
    BY <1>1, <1>2, <1>3, <1>4, <1>5, <1>6 DEF M!Pedidos, M!CriarMateria

(* As long as there is no subject, a handler can only decide to create     *)
(* it.                                                                     *)
LEMMA MateriaPedeNova ==
    ASSUME tipo = "materia", estado = Novo(tipo), linha = Novo(tipo), NEW lote \in Decisoes
    PROVE \E ev, dep : /\ CriaMateria(ev) /\ MudaMateria(dep)
                       /\ lote = <<ev>> \/ lote = <<ev, dep>>
  <1>1. lote \in M!Pedidos(estado, linha)
    BY DEF Decisoes
  <1>2. estado = M!NewMateriaDisciplinar /\ ~M!GetByID(linha)
    BY DEF Novo, M!NewMateriaDisciplinar, M!GetByID
  <1>3. lote \in M!CriarMateria(estado)
    BY <1>1, <1>2 DEF M!Pedidos, M!AtivarMateria, M!DesativarMateria, M!AtualizarDadosMateria,
       M!DeletarMateria
  <1> DEFINE Junta(ev, p) == <<ev>> \o p
             Dep(type) == IF type = "superior" THEN {<<d>> : d \in M!DefinirPeriodo(type)}
                          ELSE {<<>>}
             Base(type, r) == {v \in M!Criar(type, r.pendencia, r.conclusao) :
                                 type # "" /\ M!validarPendenciaNivelConclusao(type, r.conclusao)}
             Lotes(r) ==
               LET type == M!resolverTipoMateria(r.nivel, r.nivelEscolar, r.type) IN
               {Junta(ev, p) : ev \in Base(type, r), p \in Dep(type)}
             Todos == [nivel : {"escola", "superior"}, nivelEscolar : {"fundamental", "medio", "misto"},
                       type : {"fundamental", "medio", M!Nada}, pendencia : {M!Nada} \cup M!SimNao,
                       conclusao : {M!Nada, "1_semestre"}]
  <1>a. M!CriarMateria(M!NewMateriaDisciplinar) = UNION {Lotes(r) : r \in Todos}
    BY SMT DEF M!CriarMateria
  <1>b. PICK r \in Todos : lote \in Lotes(r)
    <2> HIDE DEF Lotes, Todos
    <2> QED
      BY <1>2, <1>3, <1>a
  <1> DEFINE type == M!resolverTipoMateria(r.nivel, r.nivelEscolar, r.type)
  <1>c. \E ev \in M!Criar(type, r.pendencia, r.conclusao) : \E p \in Dep(type) :
           lote = Junta(ev, p)
    <2>1. \E ev \in Base(type, r) : \E p \in Dep(type) : lote = Junta(ev, p)
      <3> HIDE DEF Dep, Junta, Base
      <3> QED
        BY <1>b
    <2> HIDE DEF Dep, Junta, type
    <2> QED
      BY <2>1
  <1>4. PICK ev \in M!Criar(type, r.pendencia, r.conclusao) : \E p \in Dep(type) :
           lote = <<ev>> \o p
    BY <1>c
  <1>d. PICK p \in Dep(type) : lote = <<ev>> \o p
    BY <1>4
  <1>5. p = <<>> \/ \E d \in M!DefinirPeriodo(type) : p = <<d>>
    BY <1>d
  <1> HIDE DEF type
  <1>6. CriaMateria(ev)
    BY <1>4 DEF M!Criar, CriaMateria
  <1>7. MudaMateria([tipo |-> "MateriaPeriodoDefinido", periodo |-> "1_semestre"])
    BY DEF MudaMateria
  <1>8. CASE lote = <<ev>> \o <<>>
    <2>1. lote = <<ev>>
      BY <1>8
    <2> QED
      BY <1>6, <1>7, <2>1
  <1>9. CASE \E d \in M!DefinirPeriodo(type) : lote = <<ev>> \o <<d>>
    <2>1. PICK d \in M!DefinirPeriodo(type) : lote = <<ev>> \o <<d>>
      BY <1>9
    <2>2. <<ev>> \o <<d>> = <<ev, d>>
      BY Dois
    <2>3. MudaMateria(d)
      BY <1>7 DEF M!DefinirPeriodo
    <2> QED
      BY <1>6, <2>1, <2>2, <2>3
  <1> QED
    BY <1>5, <1>8, <1>9, <1>d

(* A category that exists, the events about one, and the event that        *)
(* creates one.                                                            *)
VivaCategoria(c) == c = [nome |-> c.nome, ativo |-> c.ativo, deletado |-> c.deletado] /\ c.nome # ""
MudaCategoria(ev) ==
    /\ ev.tipo \in {"CategoriaServicoRenomeada", "CategoriaServicoDesativada",
                    "CategoriaServicoReativada", "CategoriaServicoDeletada"}
    /\ ev.tipo = "CategoriaServicoRenomeada" => ev.nome # ""
CriaCategoria(ev) == ev.tipo = "CategoriaServicoCriada" /\ ev.nome # ""

(* A category that exists meets an event about one: it exists after the    *)
(* event, a row that was equal to it is equal to it again, and handling    *)
(* the event a second time changes nothing.                                *)
LEMMA CategoriaMuda ==
    ASSUME tipo = "categoria", NEW c, NEW ev, VivaCategoria(c), MudaCategoria(ev)
    PROVE VivaCategoria(Apply(c, ev)) /\ Elo(c, ev, Apply(c, ev))
  <1> DEFINE b == G!Apply(c, ev)
  <1>1. VivaCategoria(b) /\ G!Handle(c, ev) = b /\ G!Handle(b, ev) = b /\ DOMAIN c = DOMAIN b
    <2> USE DEF VivaCategoria, MudaCategoria, G!Handle, G!Apply
    <2>1. CASE ev.tipo = "CategoriaServicoRenomeada"
      BY <2>1 DEF G!renamed, G!applyRenomeada
    <2>2. CASE ev.tipo = "CategoriaServicoDesativada"
      BY <2>2 DEF G!active
    <2>3. CASE ev.tipo = "CategoriaServicoReativada"
      BY <2>3 DEF G!active
    <2>4. CASE ev.tipo = "CategoriaServicoDeletada"
      BY <2>4 DEF G!deleted, G!applyDeletada
    <2> QED
      BY <2>1, <2>2, <2>3, <2>4
  <1>2. \A x, y : Apply(x, ev) = G!Apply(x, ev) /\ Handle(x, ev, y) = G!Handle(x, ev)
    BY DEF Apply, Handle
  <1> QED
    BY <1>1, <1>2 DEF Elo

(* The event that creates a category makes one that exists, in the         *)
(* aggregate and in the row alike, also when it is handled twice.          *)
LEMMA CategoriaNova ==
    ASSUME tipo = "categoria", NEW ev, CriaCategoria(ev)
    PROVE VivaCategoria(Apply(Novo(tipo), ev)) /\ Elo(Novo(tipo), ev, Apply(Novo(tipo), ev))
  <1> DEFINE c == G!NewCategoriaServico
             b == G!Apply(c, ev)
  <1>1. VivaCategoria(b) /\ G!Handle(c, ev) = b /\ G!Handle(b, ev) = b /\ DOMAIN c = DOMAIN b
    <2>1. b = [nome |-> ev.nome, ativo |-> TRUE, deletado |-> FALSE]
      BY DEF CriaCategoria, G!NewCategoriaServico, G!Apply, G!applyCriada
    <2> HIDE DEF b
    <2>2. b.nome # "" /\ c.nome = ""
      BY <2>1 DEF CriaCategoria, G!NewCategoriaServico
    <2>3. G!Handle(b, ev) = b
      BY <2>2 DEF CriaCategoria, G!Handle, G!created
    <2>4. G!Handle(c, ev) = b
      BY <2>1 DEF CriaCategoria, G!Handle, G!created, G!NewCategoriaServico
    <2> QED
      BY <2>1, <2>2, <2>3, <2>4 DEF VivaCategoria, G!NewCategoriaServico
  <1>2. \A x, y : Apply(x, ev) = G!Apply(x, ev) /\ Handle(x, ev, y) = G!Handle(x, ev)
    BY DEF Apply, Handle
  <1>3. Novo(tipo) = c
    BY DEF Novo
  <1> QED
    BY <1>1, <1>2, <1>3 DEF Elo

(* Every batch that a handler may decide on for a category that exists     *)
(* holds events about one that exists.                                     *)
LEMMA CategoriaPede ==
    ASSUME tipo = "categoria", VivaCategoria(estado), NEW lote \in Decisoes
    PROVE \E ev : lote = <<ev>> /\ MudaCategoria(ev)
  <1>1. lote \in G!Pedidos(estado)
    BY DEF Decisoes
  <1>2. estado # G!NewCategoriaServico
    <2>1. estado.nome # "" /\ G!NewCategoriaServico.nome = ""
      BY DEF VivaCategoria, G!NewCategoriaServico
    <2> QED
      BY <2>1
  <1>3. CASE lote \in G!AtualizarCategoriaServico(estado)
    BY <1>3 DEF MudaCategoria, G!AtualizarCategoriaServico, G!Renomear, G!Nomes
  <1>4. CASE lote \in G!toggleCategoriaServico(estado)
    <2>1. PICK ev \in G!Desativar(estado) \cup G!Reativar(estado) : lote = <<ev>>
      BY <1>4 DEF G!toggleCategoriaServico
    <2>2. ev = [tipo |-> "CategoriaServicoDesativada"] \/ ev = [tipo |-> "CategoriaServicoReativada"]
      BY <2>1, Zenon DEF G!Desativar, G!Reativar
    <2>4. ev.tipo = "CategoriaServicoDesativada" \/ ev.tipo = "CategoriaServicoReativada"
      <3>1. CASE ev = [tipo |-> "CategoriaServicoDesativada"]
        BY <3>1
      <3>2. CASE ev = [tipo |-> "CategoriaServicoReativada"]
        BY <3>2
      <3> QED
        BY <2>2, <3>1, <3>2
    <2>3. MudaCategoria(ev)
      BY <2>4 DEF MudaCategoria
    <2> QED
      BY <2>1, <2>3
  <1>5. CASE lote \in G!DeletarCategoriaServico(estado)
    <2>1. PICK ev \in G!Deletar(estado) : lote = <<ev>>
      BY <1>5 DEF G!DeletarCategoriaServico
    <2>2. ev = [tipo |-> "CategoriaServicoDeletada"]
      BY <2>1, Zenon DEF G!Deletar
    <2>3. MudaCategoria(ev)
      BY <2>2 DEF MudaCategoria
    <2> QED
      BY <2>1, <2>3
  <1> QED
    BY <1>1, <1>2, <1>3, <1>4, <1>5 DEF G!Pedidos, G!CriarCategoriaServico

(* As long as there is no category, a handler can only decide to create    *)
(* it.                                                                     *)
LEMMA CategoriaPedeNova ==
    ASSUME tipo = "categoria", estado = Novo(tipo), NEW lote \in Decisoes
    PROVE \E ev : lote = <<ev>> /\ CriaCategoria(ev)
  <1>1. lote \in G!Pedidos(estado)
    BY DEF Decisoes
  <1>2. estado = G!NewCategoriaServico
    BY DEF Novo
  <1>3. lote \in G!CriarCategoriaServico(estado)
    BY <1>1, <1>2 DEF G!Pedidos, G!AtualizarCategoriaServico, G!toggleCategoriaServico,
       G!DeletarCategoriaServico, G!loadCategoriaServico
  <1> QED
    BY <1>3 DEF CriaCategoria, G!CriarCategoriaServico, G!Criar, G!Nomes

(* A document that exists, the events about one, and the event that        *)
(* creates one.                                                            *)
VivoDocumento(d) == d = [rotulo |-> d.rotulo, anos |-> d.anos, ativo |-> d.ativo] /\ d.rotulo # ""
MudaDocumento(ev) ==
    /\ ev.tipo \in {"DocumentoExtraAtualizado", "DocumentoExtraDesativado",
                    "DocumentoExtraReativado"}
    /\ ev.tipo = "DocumentoExtraAtualizado" => ev.rotulo # ""
CriaDocumento(ev) == ev.tipo = "DocumentoExtraCriado" /\ ev.rotulo # ""

(* A document that exists meets an event about one: it exists after the    *)
(* event, a row that was equal to it is equal to it again, and handling    *)
(* the event a second time changes nothing.                                *)
LEMMA DocumentoMuda ==
    ASSUME tipo = "documento", NEW d, NEW ev, VivoDocumento(d), MudaDocumento(ev)
    PROVE VivoDocumento(Apply(d, ev)) /\ Elo(d, ev, Apply(d, ev))
  <1> DEFINE b == X!Apply(d, ev)
  <1>1. VivoDocumento(b) /\ X!Handle(d, ev) = b /\ X!Handle(b, ev) = b /\ DOMAIN d = DOMAIN b
    <2> USE DEF VivoDocumento, MudaDocumento, X!Handle, X!Apply
    <2>1. CASE ev.tipo = "DocumentoExtraAtualizado"
      BY <2>1 DEF X!updated, X!applyAtualizado
    <2>2. CASE ev.tipo = "DocumentoExtraDesativado"
      BY <2>2 DEF X!active
    <2>3. CASE ev.tipo = "DocumentoExtraReativado"
      BY <2>3 DEF X!active
    <2> QED
      BY <2>1, <2>2, <2>3
  <1>2. \A x, y : Apply(x, ev) = X!Apply(x, ev) /\ Handle(x, ev, y) = X!Handle(x, ev)
    BY DEF Apply, Handle
  <1> QED
    BY <1>1, <1>2 DEF Elo

(* The event that creates a document makes one that exists, in the         *)
(* aggregate and in the row alike, also when it is handled twice.          *)
LEMMA DocumentoNovo ==
    ASSUME tipo = "documento", NEW ev, CriaDocumento(ev)
    PROVE VivoDocumento(Apply(Novo(tipo), ev)) /\ Elo(Novo(tipo), ev, Apply(Novo(tipo), ev))
  <1> DEFINE d == X!NewDocumentoExtra
             b == X!Apply(d, ev)
  <1>1. VivoDocumento(b) /\ X!Handle(d, ev) = b /\ X!Handle(b, ev) = b /\ DOMAIN d = DOMAIN b
    BY DEF CriaDocumento, VivoDocumento, X!NewDocumentoExtra, X!Apply, X!Handle, X!applyCriado,
       X!created
  <1>2. \A x, y : Apply(x, ev) = X!Apply(x, ev) /\ Handle(x, ev, y) = X!Handle(x, ev)
    BY DEF Apply, Handle
  <1>3. Novo(tipo) = d
    BY DEF Novo
  <1> QED
    BY <1>1, <1>2, <1>3 DEF Elo

(* Every batch that a handler may decide on for a document that exists     *)
(* holds events about one that exists.                                     *)
LEMMA DocumentoPede ==
    ASSUME tipo = "documento", VivoDocumento(estado), NEW lote \in Decisoes
    PROVE \E ev : lote = <<ev>> /\ MudaDocumento(ev)
  <1>1. lote \in X!Pedidos(estado)
    BY DEF Decisoes
  <1>2. estado # X!NewDocumentoExtra
    <2>1. estado.rotulo # "" /\ X!NewDocumentoExtra.rotulo = ""
      BY DEF VivoDocumento, X!NewDocumentoExtra
    <2> QED
      BY <2>1
  <1>3. CASE lote \in X!AtualizarDocumentoExtra(estado)
    BY <1>3 DEF MudaDocumento, X!AtualizarDocumentoExtra, X!Atualizar, X!Rotulos
  <1>4. CASE lote \in X!toggleDocumentoExtra(estado)
    <2>1. PICK ev \in X!Desativar(estado) \cup X!Reativar(estado) : lote = <<ev>>
      BY <1>4 DEF X!toggleDocumentoExtra
    <2>2. ev = [tipo |-> "DocumentoExtraDesativado"] \/ ev = [tipo |-> "DocumentoExtraReativado"]
      BY <2>1, Zenon DEF X!Desativar, X!Reativar
    <2>4. ev.tipo = "DocumentoExtraDesativado" \/ ev.tipo = "DocumentoExtraReativado"
      <3>1. CASE ev = [tipo |-> "DocumentoExtraDesativado"]
        BY <3>1
      <3>2. CASE ev = [tipo |-> "DocumentoExtraReativado"]
        BY <3>2
      <3> QED
        BY <2>2, <3>1, <3>2
    <2>3. MudaDocumento(ev)
      BY <2>4 DEF MudaDocumento
    <2> QED
      BY <2>1, <2>3
  <1> QED
    BY <1>1, <1>2, <1>3, <1>4 DEF X!Pedidos, X!CriarDocumentoExtra

(* As long as there is no document, a handler can only decide to create    *)
(* it.                                                                     *)
LEMMA DocumentoPedeNovo ==
    ASSUME tipo = "documento", estado = Novo(tipo), NEW lote \in Decisoes
    PROVE \E ev : lote = <<ev>> /\ CriaDocumento(ev)
  <1>1. lote \in X!Pedidos(estado)
    BY DEF Decisoes
  <1>2. estado = X!NewDocumentoExtra
    BY DEF Novo
  <1>3. lote \in X!CriarDocumentoExtra(estado)
    BY <1>1, <1>2 DEF X!Pedidos, X!AtualizarDocumentoExtra, X!toggleDocumentoExtra,
       X!loadDocumentoExtra
  <1> QED
    BY <1>3 DEF CriaDocumento, X!CriarDocumentoExtra, X!Criar, X!Rotulos

(* A summary that exists, the events about one, and the event that         *)
(* creates one.                                                            *)
VivoSumario(s) ==
    /\ s = [titulo |-> s.titulo, descricao |-> s.descricao, nivel |-> s.nivel,
            curso |-> s.curso, deletado |-> s.deletado]
    /\ s.titulo # ""
MudaSumario(ev) ==
    /\ ev.tipo \in {"SumarioDadosAtualizados", "SumarioDeletado"}
    /\ ev.tipo = "SumarioDadosAtualizados" => ev.titulo # ""
CriaSumario(ev) == ev.tipo = "SumarioCriado" /\ ev.titulo # ""

(* A summary that exists meets an event about one: it exists after the     *)
(* event, a row that was equal to it is equal to it again, and handling    *)
(* the event a second time changes nothing.                                *)
LEMMA SumarioMuda ==
    ASSUME tipo = "sumario", NEW s, NEW ev, VivoSumario(s), MudaSumario(ev)
    PROVE VivoSumario(Apply(s, ev)) /\ Elo(s, ev, Apply(s, ev))
  <1> DEFINE b == S!Apply(s, ev)
  <1>1. VivoSumario(b) /\ S!Handle(s, ev) = b /\ S!Handle(b, ev) = b /\ DOMAIN s = DOMAIN b
    <2> USE DEF VivoSumario, MudaSumario, S!Handle, S!Apply
    <2>1. CASE ev.tipo = "SumarioDadosAtualizados"
      BY <2>1 DEF S!handleSumarioDadosAtualizados
    <2>2. CASE ev.tipo = "SumarioDeletado"
      BY <2>2 DEF S!handleSumarioDeletado
    <2> QED
      BY <2>1, <2>2
  <1>2. \A x, y : Apply(x, ev) = S!Apply(x, ev) /\ Handle(x, ev, y) = S!Handle(x, ev)
    BY DEF Apply, Handle
  <1> QED
    BY <1>1, <1>2 DEF Elo

(* The event that creates a summary makes one that exists, in the          *)
(* aggregate and in the row alike, also when it is handled twice.          *)
LEMMA SumarioNovo ==
    ASSUME tipo = "sumario", NEW ev, CriaSumario(ev)
    PROVE VivoSumario(Apply(Novo(tipo), ev)) /\ Elo(Novo(tipo), ev, Apply(Novo(tipo), ev))
  <1> DEFINE s == S!NewSumario
             b == S!Apply(s, ev)
  <1>1. VivoSumario(b) /\ S!Handle(s, ev) = b /\ S!Handle(b, ev) = b /\ DOMAIN s = DOMAIN b
    <2>1. b = [titulo |-> ev.titulo, descricao |-> ev.descricao, nivel |-> ev.nivel,
               curso |-> ev.curso, deletado |-> FALSE]
      BY DEF CriaSumario, S!NewSumario, S!Apply
    <2> HIDE DEF b
    <2>2. b.titulo # "" /\ s.titulo = ""
      BY <2>1 DEF CriaSumario, S!NewSumario
    <2>3. S!Handle(b, ev) = b
      BY <2>2 DEF CriaSumario, S!Handle, S!handleSumarioCriado, S!GetByID
    <2>4. S!Handle(s, ev) = b
      BY <2>1 DEF CriaSumario, S!Handle, S!handleSumarioCriado, S!GetByID, S!NewSumario
    <2> QED
      BY <2>1, <2>2, <2>3, <2>4 DEF VivoSumario, S!NewSumario
  <1>2. \A x, y : Apply(x, ev) = S!Apply(x, ev) /\ Handle(x, ev, y) = S!Handle(x, ev)
    BY DEF Apply, Handle
  <1>3. Novo(tipo) = s
    BY DEF Novo
  <1> QED
    BY <1>1, <1>2, <1>3 DEF Elo

(* Every batch that a handler may decide on for a summary that exists      *)
(* holds events about one that exists.                                     *)
LEMMA SumarioPede ==
    ASSUME tipo = "sumario", VivoSumario(estado), NEW lote \in Decisoes
    PROVE \E ev : lote = <<ev>> /\ MudaSumario(ev)
  <1>1. lote \in S!Pedidos(estado, linha)
    BY DEF Decisoes
  <1>2. estado # S!NewSumario
    <2>1. estado.titulo # "" /\ S!NewSumario.titulo = ""
      BY DEF VivoSumario, S!NewSumario
    <2> QED
      BY <2>1
  <1>3. CASE lote \in S!AtualizarDadosSumario(estado, linha)
    <2>1. PICK ev \in S!AtualizarDados(estado) : lote = <<ev>>
      BY <1>3 DEF S!AtualizarDadosSumario
    <2>2. ev \in [tipo : {"SumarioDadosAtualizados"}, titulo : {S!Manter, "t2"},
                 descricao : {S!Manter, "", "d2"}]
      BY <2>1, Zenon DEF S!AtualizarDados
    <2>3. MudaSumario(ev)
      BY <2>2 DEF MudaSumario, S!Manter
    <2> QED
      BY <2>1, <2>3
  <1>4. CASE lote \in S!DeletarSumario(estado, linha)
    <2>1. PICK ev \in S!Deletar(estado) : lote = <<ev>>
      BY <1>4 DEF S!DeletarSumario
    <2>2. ev = [tipo |-> "SumarioDeletado"]
      BY <2>1, Zenon DEF S!Deletar
    <2>3. MudaSumario(ev)
      BY <2>2 DEF MudaSumario
    <2> QED
      BY <2>1, <2>3
  <1> QED
    BY <1>1, <1>2, <1>3, <1>4 DEF S!Pedidos, S!CriarSumario

(* As long as there is no summary, a handler can only decide to create     *)
(* it.                                                                     *)
LEMMA SumarioPedeNovo ==
    ASSUME tipo = "sumario", estado = Novo(tipo), linha = Novo(tipo), NEW lote \in Decisoes
    PROVE \E ev : lote = <<ev>> /\ CriaSumario(ev)
  <1>1. lote \in S!Pedidos(estado, linha)
    BY DEF Decisoes
  <1>2. estado = S!NewSumario /\ ~S!GetByID(linha)
    BY DEF Novo, S!GetByID
  <1>3. lote \in S!CriarSumario(estado)
    BY <1>1, <1>2 DEF S!Pedidos, S!AtualizarDadosSumario, S!DeletarSumario
  <1> QED
    BY <1>3 DEF CriaSumario, S!CriarSumario, S!Criar

(* The limit of absences, which exists from the start.                     *)
VivoFaltas(c) == c = [limite |-> c.limite, reprovacao |-> c.reprovacao]

(* A limit of absences that exists meets an event about one: it exists     *)
(* after the event, a row that was equal to it is equal to it again, and   *)
(* handling the event a second time changes nothing.                       *)
LEMMA FaltasMuda ==
    ASSUME tipo = "faltas", NEW c, NEW ev, VivoFaltas(c)
    PROVE VivoFaltas(Apply(c, ev)) /\ Elo(c, ev, Apply(c, ev))
  BY DEF VivoFaltas, Apply, Handle, Elo, L!Apply, L!definida

(* The limit of absences has its default from the start: it exists before  *)
(* any event.                                                              *)
LEMMA FaltasNova == tipo = "faltas" => VivoFaltas(Novo(tipo))
  BY DEF VivoFaltas, Novo, L!NewConfiguracaoFaltas

(* Every batch that a handler may decide on for a limit of absences that   *)
(* exists holds events about one that exists.                              *)
LEMMA FaltasPede ==
    ASSUME tipo = "faltas", NEW lote \in Decisoes
    PROVE \E ev : lote = <<ev>>
  BY DEF Decisoes, L!DefinirConfiguracaoFaltas

(* A sender, which exists from the start, and the event that configures    *)
(* it.                                                                     *)
VivoRemetente(r) ==
    /\ r = [identificador |-> r.identificador, token |-> r.token, desde |-> r.desde]
    /\ r.desde = "" => r = R!NewRemetenteComunicacao
MudaRemetente(ev) == ev.token # "" /\ ev.em # ""

(* A sender that exists meets an event about one: it exists after the      *)
(* event, a row that was equal to it is equal to it again, and handling    *)
(* the event a second time changes nothing.                                *)
LEMMA RemetenteMuda ==
    ASSUME tipo = "remetente", NEW r, NEW ev, VivoRemetente(r), MudaRemetente(ev)
    PROVE VivoRemetente(Apply(r, ev)) /\ Elo(r, ev, Apply(r, ev))
  <1> DEFINE b == R!applyConfigurado(r, ev)
  <1>1. VivoRemetente(b) /\ R!configurado(r, ev) = b /\ R!configurado(b, ev) = b
        /\ DOMAIN r = DOMAIN b
    <2>1. b = [identificador |-> ev.identificador, token |-> ev.token,
               desde |-> IF r.desde = "" THEN ev.em ELSE r.desde]
      BY DEF R!applyConfigurado, R!Nenhum
    <2> HIDE DEF b
    <2>2. b.token # "" /\ b.desde # ""
      BY <2>1 DEF MudaRemetente
    <2>3. b # R!NewRemetenteComunicacao
      <3>1. R!NewRemetenteComunicacao.token = ""
        BY DEF R!NewRemetenteComunicacao, R!Nenhum
      <3> QED
        BY <2>2, <3>1
    <2>4. VivoRemetente(b) /\ DOMAIN r = DOMAIN b
      BY <2>1, <2>2 DEF VivoRemetente
    <2>5. R!configurado(b, ev) = b
      <3>1. R!configurado(b, ev) = [b EXCEPT !.identificador = ev.identificador, !.token = ev.token]
        BY <2>3 DEF R!configurado
      <3> QED
        BY <2>1, <3>1
    <2>6. CASE r = R!NewRemetenteComunicacao
      <3>1. r.desde = ""
        BY <2>6 DEF R!NewRemetenteComunicacao, R!Nenhum
      <3> QED
        BY <2>1, <2>4, <2>5, <2>6, <3>1 DEF R!configurado
    <2>7. CASE r # R!NewRemetenteComunicacao
      <3>1. r.desde # "" /\ b.desde = r.desde
        BY <2>1, <2>7 DEF VivoRemetente
      <3>2. R!configurado(r, ev) = [r EXCEPT !.identificador = ev.identificador, !.token = ev.token]
        BY <2>7 DEF R!configurado
      <3> QED
        BY <2>1, <2>4, <2>5, <3>1, <3>2 DEF VivoRemetente
    <2> QED
      BY <2>6, <2>7
  <1>2. \A x, y : Apply(x, ev) = R!applyConfigurado(x, ev) /\ Handle(x, ev, y) = R!configurado(x, ev)
    BY DEF Apply, Handle
  <1> QED
    BY <1>1, <1>2 DEF Elo

(* A sender that nobody configured is a sender like any other.             *)
LEMMA RemetenteNovo == tipo = "remetente" => VivoRemetente(Novo(tipo))
  BY DEF VivoRemetente, Novo, R!NewRemetenteComunicacao

(* Every batch that a handler may decide on for a sender that exists       *)
(* holds events about one that exists.                                     *)
LEMMA RemetentePede ==
    ASSUME tipo = "remetente", NEW lote \in Decisoes
    PROVE \E ev : lote = <<ev>> /\ MudaRemetente(ev)
  BY DEF Decisoes, MudaRemetente, R!CriarRemetenteComunicacao, R!Configurar

(* A message that was sent, and the event that registers it.               *)
VivaMensagem(m) ==
    /\ m = [tentado1 |-> m.tentado1, tentado2 |-> m.tentado2, utilizado |-> m.utilizado,
            status |-> m.status]
    /\ m.status # ""
CriaMensagem(ev) == ev.status # ""

(* The event that creates a message makes one that exists, in the          *)
(* aggregate and in the row alike, also when it is handled twice.          *)
LEMMA MensagemNova ==
    ASSUME tipo = "mensagem", NEW ev, CriaMensagem(ev)
    PROVE VivaMensagem(Apply(Novo(tipo), ev)) /\ Elo(Novo(tipo), ev, Apply(Novo(tipo), ev))
  <1> DEFINE m == R!NewMensagemComunicacao
             b == R!applyRegistrada(m, ev)
  <1>1. VivaMensagem(b) /\ R!registrada(m, ev) = b /\ R!registrada(b, ev) = b /\ DOMAIN m = DOMAIN b
    <2>1. b = [tentado1 |-> ev.tentado1, tentado2 |-> ev.tentado2, utilizado |-> ev.utilizado,
               status |-> ev.status]
      BY DEF R!NewMensagemComunicacao, R!applyRegistrada
    <2> HIDE DEF b
    <2>2. b.status # "" /\ m.status = ""
      BY <2>1 DEF CriaMensagem, R!NewMensagemComunicacao, R!Nenhum
    <2>3. R!registrada(b, ev) = b
      BY <2>2 DEF R!registrada
    <2>4. R!registrada(m, ev) = b
      BY <2>1 DEF R!registrada
    <2> QED
      BY <2>1, <2>2, <2>3, <2>4 DEF VivaMensagem, R!NewMensagemComunicacao
  <1>2. \A x, y : Apply(x, ev) = R!applyRegistrada(x, ev) /\ Handle(x, ev, y) = R!registrada(x, ev)
    BY DEF Apply, Handle
  <1>3. Novo(tipo) = m
    BY DEF Novo
  <1> QED
    BY <1>1, <1>2, <1>3 DEF Elo

(* A message that was sent is never sent again.                            *)
LEMMA MensagemPede ==
    ASSUME tipo = "mensagem", VivaMensagem(estado), NEW lote \in Decisoes
    PROVE FALSE
  <1>1. estado # R!NewMensagemComunicacao
    <2>1. estado.status # "" /\ R!NewMensagemComunicacao.status = ""
      BY DEF VivaMensagem, R!NewMensagemComunicacao, R!Nenhum
    <2> QED
      BY <2>1
  <1> QED
    BY <1>1 DEF Decisoes, R!EnviarMensagemComunicacao

(* As long as there is no message, a handler can only decide to create     *)
(* it.                                                                     *)
LEMMA MensagemPedeNova ==
    ASSUME tipo = "mensagem", NEW lote \in Decisoes
    PROVE \E ev : lote = <<ev>> /\ CriaMensagem(ev)
  <1>1. PICK padrao, entrega : lote = <<R!Registrar(padrao, entrega)>>
    BY DEF Decisoes, R!EnviarMensagemComunicacao
  <1>2. CriaMensagem(R!Registrar(padrao, entrega))
    BY DEF CriaMensagem, R!Registrar
  <1> QED
    BY <1>1, <1>2

(* An administrator that exists, the events about one, and the event that  *)
(* creates one.                                                            *)
VivoAdmin(a) ==
    /\ a = [status |-> a.status, nome |-> a.nome, email |-> a.email, role |-> a.role,
            senha |-> a.senha, verificado |-> a.verificado]
    /\ a.status # "nenhum" /\ a.verificado \in BOOLEAN
MudaAdmin(ev) ==
    /\ ev.tipo \in {"EmailVerificado", "AdminAtivado", "AdminDesativado", "AdminDeletado",
                    "AcaoAdminRegistrada", "AdminDadosAtualizados", "AdminRoleAtualizado",
                    "AdminSenhaAlterada"}
    /\ ev.tipo = "AdminDadosAtualizados" => ev.emailAlterado \in BOOLEAN
CriaAdmin(ev) == ev.tipo = "AdminCriado"

(* An administrator that exists meets an event about one: it exists after  *)
(* the event, a row that was equal to it is equal to it again, and         *)
(* handling the event a second time changes nothing.                       *)
LEMMA AdminMuda ==
    ASSUME tipo = "admin", NEW a, NEW ev, VivoAdmin(a), MudaAdmin(ev)
    PROVE VivoAdmin(Apply(a, ev)) /\ Elo(a, ev, Apply(a, ev))
  <1> DEFINE b == D!Apply(a, ev)
  <1>1. VivoAdmin(b) /\ D!Handle(a, ev) = b /\ D!Handle(b, ev) = b /\ DOMAIN a = DOMAIN b
    <2> USE DEF VivoAdmin, D!Handle, D!Apply
    <2>1. CASE ev.tipo = "EmailVerificado"
      BY <2>1 DEF D!handleEmailVerificado, D!applyEmailVerificado
    <2>2. CASE ev.tipo = "AdminAtivado"
      BY <2>2 DEF D!handleStatusChange, D!applyAdminAtivado
    <2>3. CASE ev.tipo = "AdminDesativado"
      BY <2>3 DEF D!handleStatusChange, D!applyAdminDesativado
    <2>4. CASE ev.tipo = "AdminDeletado"
      BY <2>4 DEF D!handleAdminDeletado, D!applyAdminDeletado
    <2>5. CASE ev.tipo = "AcaoAdminRegistrada"
      BY <2>5
    <2>6. CASE ev.tipo = "AdminDadosAtualizados"
      BY <2>6, ZenonT(40) DEF MudaAdmin, D!handleAdminDadosAtualizados, D!applyAdminDadosAtualizados
    <2>7. CASE ev.tipo = "AdminRoleAtualizado"
      BY <2>7 DEF D!handleAdminRoleAtualizado, D!applyAdminRoleAtualizado
    <2>8. CASE ev.tipo = "AdminSenhaAlterada"
      BY <2>8 DEF D!handleAdminSenhaAlterada, D!applyAdminSenhaAlterada
    <2> QED
      BY <2>1, <2>2, <2>3, <2>4, <2>5, <2>6, <2>7, <2>8 DEF MudaAdmin
  <1>2. \A x, y : Apply(x, ev) = D!Apply(x, ev) /\ Handle(x, ev, y) = D!Handle(x, ev)
    BY DEF Apply, Handle
  <1> QED
    BY <1>1, <1>2, ZenonT(40) DEF Elo

(* The event that creates an administrator makes one that exists, in the   *)
(* aggregate and in the row alike, also when it is handled twice.          *)
LEMMA AdminNovo ==
    ASSUME tipo = "admin", NEW ev, CriaAdmin(ev)
    PROVE VivoAdmin(Apply(Novo(tipo), ev)) /\ Elo(Novo(tipo), ev, Apply(Novo(tipo), ev))
  <1> DEFINE a == D!NewAdmin
             b == D!Apply(a, ev)
  <1>1. VivoAdmin(b) /\ D!Handle(a, ev) = b /\ D!Handle(b, ev) = b /\ DOMAIN a = DOMAIN b
    BY DEF CriaAdmin, VivoAdmin, D!NewAdmin, D!Apply, D!Handle, D!applyAdminCriado,
       D!handleAdminCriado
  <1>2. \A x, y : Apply(x, ev) = D!Apply(x, ev) /\ Handle(x, ev, y) = D!Handle(x, ev)
    BY DEF Apply, Handle
  <1>3. Novo(tipo) = a
    BY DEF Novo
  <1> QED
    BY <1>1, <1>2, <1>3 DEF Elo

(* Every batch that a handler may decide on for an administrator that      *)
(* exists holds events about one that exists.                              *)
LEMMA AdminPede ==
    ASSUME tipo = "admin", VivoAdmin(estado), NEW lote \in Decisoes
    PROVE \E ev : lote = <<ev>> /\ MudaAdmin(ev)
  <1>1. lote \in D!Pedidos(estado, linha)
    BY DEF Decisoes
  <1>2. estado.status # "nenhum"
    BY DEF VivoAdmin
  <1>3. ASSUME NEW ev \in D!Ativar(estado) PROVE MudaAdmin(ev)
    BY <1>3 DEF MudaAdmin, D!Ativar
  <1>4. ASSUME NEW ev \in D!Desativar(estado) PROVE MudaAdmin(ev)
    BY <1>4 DEF MudaAdmin, D!Desativar
  <1>5. ASSUME NEW ev \in D!Deletar(estado) PROVE MudaAdmin(ev)
    BY <1>5 DEF MudaAdmin, D!Deletar
  <1>6. ASSUME NEW r, NEW ev \in D!AtualizarRole(estado, r) PROVE MudaAdmin(ev)
    BY <1>6 DEF MudaAdmin, D!AtualizarRole
  <1>7. ASSUME NEW ev \in D!AtualizarDados(estado) PROVE MudaAdmin(ev)
    BY <1>7 DEF MudaAdmin, D!AtualizarDados
  <1>8. ASSUME NEW ev \in D!RegistrarAcao(estado) PROVE MudaAdmin(ev)
    BY <1>8 DEF MudaAdmin, D!RegistrarAcao
  <1>9. ASSUME NEW ev \in D!VerificarEmail(estado) PROVE MudaAdmin(ev)
    <2>1. ev = [tipo |-> "EmailVerificado"]
      BY <1>9, Zenon DEF D!VerificarEmail
    <2> QED
      BY <2>1 DEF MudaAdmin
  <1>10. ASSUME NEW ev \in D!AlterarSenha(estado) PROVE MudaAdmin(ev)
    BY <1>10 DEF MudaAdmin, D!AlterarSenha
  <1>11. CASE lote \in D!AtivarAdmin(estado)
    BY <1>3, <1>11 DEF D!AtivarAdmin
  <1>12. CASE lote \in D!DesativarAdmin(estado)
    BY <1>4, <1>12 DEF D!DesativarAdmin
  <1>13. CASE lote \in D!DeletarAdmin(estado)
    BY <1>5, <1>13 DEF D!DeletarAdmin
  <1>14. CASE lote \in D!AtualizarRoleAdmin(estado)
    BY <1>6, <1>14 DEF D!AtualizarRoleAdmin
  <1>15. CASE lote \in D!AtualizarDadosAdmin(estado)
    BY <1>7, <1>15 DEF D!AtualizarDadosAdmin
  <1>16. CASE lote \in D!registrarAcaoAdmin(estado)
    BY <1>8, <1>16 DEF D!registrarAcaoAdmin
  <1>17. CASE lote \in D!VerificarEmailConta(D!VerificarEmail(estado))
    BY <1>9, <1>17 DEF D!VerificarEmailConta
  <1>18. CASE lote \in D!ResetarSenha(linha, D!AlterarSenha(estado))
    BY <1>10, <1>18 DEF D!ResetarSenha
  <1>19. CASE lote \in D!AlterarSenhaConta(linha, D!AlterarSenha(estado))
    BY <1>10, <1>19 DEF D!AlterarSenhaConta
  <1>20. CASE lote \in D!atualizarMeuContato({v \in D!AtualizarDados(estado) : v.nome = D!Manter})
    BY <1>7, <1>20 DEF D!atualizarMeuContato
  <1> QED
    BY <1>1, <1>2, <1>11, <1>12, <1>13, <1>14, <1>15, <1>16, <1>17, <1>18, <1>19, <1>20
       DEF D!Pedidos

(* As long as there is no administrator, a handler can only decide to      *)
(* create it.                                                              *)
LEMMA AdminPedeNovo ==
    ASSUME tipo = "admin", estado = Novo(tipo), NEW lote \in Decisoes
    PROVE \E ev : lote = <<ev>> /\ CriaAdmin(ev)
  <1>1. lote \in D!Pedidos(estado, linha)
    BY DEF Decisoes
  <1>2. estado = D!NewAdmin
    BY DEF Novo
  <1>3. lote \in D!RegisterAdmin(estado)
    <2>1. D!NewAdmin.status = "nenhum"
      BY Zenon DEF D!NewAdmin
    <2>2. estado.status = "nenhum"
      BY <1>2, <2>1, Zenon
    <2> QED
      BY <1>1, <2>2 DEF D!Pedidos
  <1> QED
    BY <1>3 DEF CriaAdmin, D!RegisterAdmin, D!Criar

(* An academy that exists, the events about one, and the event that        *)
(* creates one.                                                            *)
VivaAcademia(a) ==
    /\ a = [status |-> a.status, nome |-> a.nome, email |-> a.email, senha |-> a.senha,
            verificado |-> a.verificado, nivelEscolar |-> a.nivelEscolar, anos |-> a.anos,
            anoLetivo |-> a.anoLetivo, lista |-> a.lista]
    /\ a.status # "nenhum" /\ a.verificado \in BOOLEAN
MudaAcademia(ev) ==
    /\ ev.tipo \in {"AcademiaAtivada", "AcademiaDesativada", "AcademiaDeletada",
                    "AcademiaDadosAtualizados", "EmailVerificado", "AcademiaSenhaAlterada",
                    "AnoLetivoAcademiaDefinido", "AnoLetivoAcademiaFinalizado"}
    /\ ev.tipo = "AcademiaDadosAtualizados" =>
         ev.emailAlterado \in BOOLEAN /\ (ev.emailAlterado => ev.email # A!Manter)
CriaAcademia(ev) == ev.tipo = "AcademiaCriada"

(* An academy that exists meets an event about one: it exists after the    *)
(* event, a row that was equal to it is equal to it again, and handling    *)
(* the event a second time changes nothing.                                *)
LEMMA AcademiaMuda ==
    ASSUME tipo = "academia", NEW a, NEW ev, VivaAcademia(a), MudaAcademia(ev)
    PROVE VivaAcademia(Apply(a, ev)) /\ Elo(a, ev, Apply(a, ev))
  <1> DEFINE b == A!Apply(a, ev)
  <1>1. VivaAcademia(b) /\ A!Handle(a, ev) = b /\ A!Handle(b, ev) = b /\ DOMAIN a = DOMAIN b
    <2> USE DEF VivaAcademia, A!Handle, A!Apply
    <2>1. CASE ev.tipo = "AcademiaAtivada"
      BY <2>1 DEF A!handleStatusChange, A!applyAcademiaAtivada
    <2>2. CASE ev.tipo = "AcademiaDesativada"
      BY <2>2 DEF A!handleAcademiaDesativada, A!applyAcademiaDesativada
    <2>3. CASE ev.tipo = "AcademiaDeletada"
      BY <2>3 DEF A!handleAcademiaDeletada, A!applyAcademiaDeletada
    <2>4. CASE ev.tipo = "AcademiaDadosAtualizados"
      <3> DEFINE N(x, y) == IF y = A!Manter THEN x ELSE y
      <3>1. ev.emailAlterado \in BOOLEAN /\ (ev.emailAlterado => ev.email # A!Manter)
        BY <2>4 DEF MudaAcademia
      <3>2. b = [status |-> a.status, nome |-> N(a.nome, ev.nome), email |-> N(a.email, ev.email),
                 senha |-> a.senha, verificado |-> IF ev.emailAlterado THEN FALSE ELSE a.verificado,
                 nivelEscolar |-> N(a.nivelEscolar, ev.nivelEscolar),
                 anos |-> IF ev.anos = A!MesmosAnos THEN a.anos ELSE ev.anos,
                 anoLetivo |-> a.anoLetivo, lista |-> a.lista]
        BY <2>4, <3>1 DEF A!applyAcademiaDadosAtualizados
      <3>3. A!Handle(a, ev) = b
        BY <2>4, <3>1, <3>2 DEF A!handleAcademiaDadosAtualizados
      <3> HIDE DEF b
      <3>4. VivaAcademia(b) /\ DOMAIN a = DOMAIN b
        BY <3>2
      <3>5. A!Handle(b, ev) = b
        BY <2>4, <3>1, <3>2 DEF A!handleAcademiaDadosAtualizados
      <3> QED
        BY <3>3, <3>4, <3>5
    <2>5. CASE ev.tipo = "EmailVerificado"
      BY <2>5 DEF A!handleEmailVerificado, A!applyEmailVerificado
    <2>6. CASE ev.tipo = "AcademiaSenhaAlterada"
      BY <2>6 DEF A!handleAcademiaSenhaAlterada, A!applyAcademiaSenhaAlterada
    <2>7. CASE ev.tipo = "AnoLetivoAcademiaDefinido"
      BY <2>7 DEF A!handleAnoLetivoAcademiaDefinido, A!applyAnoLetivoAcademiaDefinido
    <2>8. CASE ev.tipo = "AnoLetivoAcademiaFinalizado"
      BY <2>8
    <2> QED
      BY <2>1, <2>2, <2>3, <2>4, <2>5, <2>6, <2>7, <2>8 DEF MudaAcademia
  <1>2. \A x, y : Apply(x, ev) = A!Apply(x, ev) /\ Handle(x, ev, y) = A!Handle(x, ev)
    BY DEF Apply, Handle
  <1> QED
    BY <1>1, <1>2, ZenonT(40) DEF Elo

(* The event that creates an academy makes one that exists, in the         *)
(* aggregate and in the row alike, also when it is handled twice.          *)
LEMMA AcademiaNova ==
    ASSUME tipo = "academia", NEW ev, CriaAcademia(ev)
    PROVE VivaAcademia(Apply(Novo(tipo), ev)) /\ Elo(Novo(tipo), ev, Apply(Novo(tipo), ev))
  <1> DEFINE a == A!NewAcademia
             b == A!Apply(a, ev)
  <1>1. VivaAcademia(b) /\ A!Handle(a, ev) = b /\ A!Handle(b, ev) = b /\ DOMAIN a = DOMAIN b
    BY DEF CriaAcademia, VivaAcademia, A!NewAcademia, A!Apply, A!Handle, A!applyAcademiaCriada,
       A!handleAcademiaCriada
  <1>2. \A x, y : Apply(x, ev) = A!Apply(x, ev) /\ Handle(x, ev, y) = A!Handle(x, ev)
    BY DEF Apply, Handle
  <1>3. Novo(tipo) = a
    BY DEF Novo
  <1> QED
    BY <1>1, <1>2, <1>3 DEF Elo

(* Every batch that a handler may decide on for an academy that exists     *)
(* holds events about one that exists.                                     *)
LEMMA AcademiaPede ==
    ASSUME tipo = "academia", VivaAcademia(estado), NEW lote \in Decisoes
    PROVE \E ev, dep : /\ MudaAcademia(ev) /\ MudaAcademia(dep)
                       /\ lote = <<ev>> \/ lote = <<ev, dep>>
  <1>1. lote \in A!Pedidos(estado, linha)
    BY DEF Decisoes
  <1>2. estado.status # "nenhum"
    BY DEF VivaAcademia
  <1>3. ASSUME NEW ev \in A!AtivarComAutor(estado) PROVE MudaAcademia(ev)
    BY <1>3 DEF MudaAcademia, A!AtivarComAutor
  <1>4. ASSUME NEW ev \in A!Desativar(estado) PROVE MudaAcademia(ev)
    BY <1>4 DEF MudaAcademia, A!Desativar
  <1>5. ASSUME NEW ev \in A!Deletar(estado) PROVE MudaAcademia(ev)
    BY <1>5 DEF MudaAcademia, A!Deletar
  <1>6. ASSUME NEW n, NEW m, NEW v, NEW y, NEW ev \in A!AtualizarDados(estado, n, m, v, y)
        PROVE MudaAcademia(ev)
    <2>1. ev = [tipo |-> "AcademiaDadosAtualizados", nome |-> n, email |-> m,
                nivelEscolar |-> v, anos |-> y, emailAlterado |-> m \notin {A!Manter, estado.email}]
      BY <1>6, Zenon DEF A!AtualizarDados
    <2>2. /\ ev.tipo = "AcademiaDadosAtualizados" /\ ev.email = m
          /\ ev.emailAlterado = (m \notin {A!Manter, estado.email})
      BY <2>1
    <2> QED
      BY <2>2 DEF MudaAcademia
  <1>7. ASSUME NEW y, NEW ev \in A!DefinirAnoLetivo(estado, y) PROVE MudaAcademia(ev)
    BY <1>7 DEF MudaAcademia, A!DefinirAnoLetivo
  <1>8. ASSUME NEW y, NEW ev \in A!FinalizarAnoLetivo(y) PROVE MudaAcademia(ev)
    BY <1>8 DEF MudaAcademia, A!FinalizarAnoLetivo
  <1>9. ASSUME NEW ev \in A!VerificarEmail(estado) PROVE MudaAcademia(ev)
    <2>1. ev = [tipo |-> "EmailVerificado"]
      BY <1>9, Zenon DEF A!VerificarEmail
    <2> QED
      BY <2>1 DEF MudaAcademia
  <1>10. ASSUME NEW ev \in A!AlterarSenha PROVE MudaAcademia(ev)
    BY <1>10 DEF MudaAcademia, A!AlterarSenha
  <1>11. CASE lote \in A!AtualizarDadosAcademia(estado)
    BY <1>6, <1>11 DEF A!AtualizarDadosAcademia
  <1>12. CASE lote \in A!AtivarAcademia(estado, linha)
    BY <1>3, <1>12 DEF A!AtivarAcademia
  <1>13. CASE lote \in A!DesativarAcademia(estado, linha)
    BY <1>4, <1>13 DEF A!DesativarAcademia
  <1>14. CASE lote \in A!DeletarAcademia(estado, linha)
    BY <1>5, <1>14 DEF A!DeletarAcademia
  <1>15. CASE lote \in A!DefinirAnoLetivoAcademia(estado, linha)
    BY <1>7, <1>15 DEF A!DefinirAnoLetivoAcademia
  <1>16. CASE lote \in A!FinalizarAnoLetivoAcademia(estado, linha)
    BY <1>7, <1>8, <1>16 DEF A!FinalizarAnoLetivoAcademia
  <1>17. CASE lote \in A!alterarAnosFundamental(estado, linha)
    <2> DEFINE Nova(y) == A!AtualizarDados(estado, A!Manter, A!Manter, A!Manter, y)
               Lotes(ano, op) ==
                 {<<ev>> : ev \in {v \in Nova(A!combinarAnos(linha.anos, {ano}, op)) :
                                     /\ linha.nivelEscolar \in {"fundamental", "misto"}
                                     /\ v.anos # {}}}
    <2>1. A!alterarAnosFundamental(estado, linha) =
            UNION {Lotes(ano, op) : ano \in A!Anos, op \in {"add", "remove"}}
      BY SMT DEF A!alterarAnosFundamental
    <2>2. PICK ano, op : lote \in Lotes(ano, op)
      <3> HIDE DEF Lotes
      <3> QED
        BY <1>17, <2>1
    <2>3. \E ev \in Nova(A!combinarAnos(linha.anos, {ano}, op)) : lote = <<ev>>
      <3> HIDE DEF Nova
      <3> QED
        BY <2>2
    <2> QED
      BY <1>6, <2>3
  <1>18. CASE lote \in A!AtualizarNivelEscolarAcademia(estado, linha)
    BY <1>6, <1>18 DEF A!AtualizarNivelEscolarAcademia
  <1>19. CASE lote \in A!VerificarEmailConta(A!VerificarEmail(estado))
    BY <1>9, <1>19 DEF A!VerificarEmailConta
  <1>20. CASE lote \in A!ResetarSenha(linha, A!AlterarSenha)
    BY <1>10, <1>20 DEF A!ResetarSenha
  <1>21. CASE lote \in A!AlterarSenhaConta(linha, A!AlterarSenha)
    BY <1>10, <1>21 DEF A!AlterarSenhaConta
  <1>22. CASE lote \in A!atualizarMeuContato(
                         A!AtualizarDados(estado, A!Manter, "b", A!Manter, A!MesmosAnos))
    BY <1>6, <1>22 DEF A!atualizarMeuContato
  <1> QED
    BY <1>1, <1>2, <1>11, <1>12, <1>13, <1>14, <1>15, <1>16, <1>17, <1>18, <1>19, <1>20, <1>21,
       <1>22 DEF A!Pedidos

(* As long as there is no academy, a handler can only decide to create     *)
(* it.                                                                     *)
LEMMA AcademiaPedeNova ==
    ASSUME tipo = "academia", estado = Novo(tipo), NEW lote \in Decisoes
    PROVE \E ev : lote = <<ev>> /\ CriaAcademia(ev)
  <1>1. lote \in A!Pedidos(estado, linha)
    BY DEF Decisoes
  <1>2. estado = A!NewAcademia
    BY DEF Novo
  <1>3. lote \in A!RegisterAcademia(estado)
    <2>1. A!NewAcademia.status = "nenhum"
      BY DEF A!NewAcademia
    <2>2. estado.status = "nenhum"
      BY <1>2, <2>1, Zenon
    <2> QED
      BY <1>1, <2>2 DEF A!Pedidos
  <1> QED
    BY <1>3 DEF CriaAcademia, A!RegisterAcademia, A!Criar

(* The record of a student has one entry per cycle of studies.             *)
Ensino(f) == f = [n \in E!Ensinos |-> f[n]]

(* A student that exists, the events about one, and the event that         *)
(* creates one.                                                            *)
VivoEstudante(e) ==
    /\ e = [status |-> e.status, email |-> e.email, senha |-> e.senha,
            verificado |-> e.verificado, bilhete |-> e.bilhete, etapa |-> e.etapa,
            ano |-> e.ano, curso |-> e.curso, semestre |-> e.semestre]
    /\ Ensino(e.etapa) /\ Ensino(e.ano) /\ Ensino(e.curso)
    /\ e.status # "nenhum" /\ e.verificado \in BOOLEAN
MudaEstudante(ev) ==
    /\ ev.tipo \in {"EmailVerificadoEstudante", "SenhaAlterada", "DadosPessoaisAtualizados",
                    "Interrompido", "EstudanteDesvinculadoDaAcademia", "EstudanteDeletado",
                    "EstudanteReintegrado", "CursoAlterado", "EstudanteDocumentosCompletados"}
    /\ ev.tipo \in {"Interrompido", "EstudanteReintegrado", "CursoAlterado"} =>
         ev.nivel \in E!Ensinos
    /\ ev.tipo = "DadosPessoaisAtualizados" =>
         ev.emailAlterado \in BOOLEAN /\ (ev.emailAlterado => ev.email # E!Manter)
CriaEstudante(ev) ==
    /\ ev = [tipo |-> "EstudanteCriadoComVinculo", status |-> ev.status, email |-> ev.email,
             senha |-> ev.senha, bilhete |-> ev.bilhete, etapa |-> ev.etapa, ano |-> ev.ano,
             curso |-> ev.curso]
    /\ Ensino(ev.etapa) /\ Ensino(ev.ano) /\ Ensino(ev.curso) /\ ev.status # "nenhum"

(* What changes the record of one cycle of studies keeps the cycles there  *)
(* are.                                                                    *)
LEMMA EnsinoMuda ==
    ASSUME NEW f, Ensino(f), NEW n \in E!Ensinos, NEW v
    PROVE /\ Ensino([f EXCEPT ![n] = v])
          /\ [[f EXCEPT ![n] = v] EXCEPT ![n] = v] = [f EXCEPT ![n] = v]
          /\ [f EXCEPT ![n] = v][n] = v
  BY Zenon DEF Ensino

(* A student that exists meets an event about one: it exists after the     *)
(* event, a row that was equal to it is equal to it again, and handling    *)
(* the event a second time changes nothing.                                *)
LEMMA EstudanteMuda ==
    ASSUME tipo = "estudante", NEW e, NEW ev, VivoEstudante(e), MudaEstudante(ev)
    PROVE VivoEstudante(Apply(e, ev)) /\ Elo(e, ev, Apply(e, ev))
  <1> DEFINE b == E!Apply(e, ev)
  <1>1. VivoEstudante(b) /\ E!Handle(e, ev) = b /\ E!Handle(b, ev) = b /\ DOMAIN e = DOMAIN b
    <2> USE DEF VivoEstudante, E!Handle, E!Apply
    <2>1. CASE ev.tipo = "EmailVerificadoEstudante"
      BY <2>1 DEF E!handleEmailVerificadoEstudante, E!applyEmailVerificado
    <2>2. CASE ev.tipo = "SenhaAlterada"
      BY <2>2 DEF E!handleSenhaAlterada, E!applySenhaAlterada
    <2>3. CASE ev.tipo = "DadosPessoaisAtualizados"
      <3> DEFINE N(x, y) == IF y = E!Manter THEN x ELSE y
      <3>1. ev.emailAlterado \in BOOLEAN /\ (ev.emailAlterado => ev.email # E!Manter)
        BY <2>3 DEF MudaEstudante
      <3>2. b = [status |-> e.status, email |-> N(e.email, ev.email), senha |-> e.senha,
                 verificado |-> IF ev.emailAlterado THEN FALSE ELSE e.verificado,
                 bilhete |-> N(e.bilhete, ev.bilhete), etapa |-> e.etapa,
                 ano |-> e.ano, curso |-> e.curso, semestre |-> e.semestre]
        BY <2>3, <3>1 DEF E!applyDadosPessoaisAtualizados
      <3>3. E!Handle(e, ev) = b
        BY <2>3, <3>1, <3>2 DEF E!handleDadosPessoaisAtualizados
      <3> HIDE DEF b
      <3>4. VivoEstudante(b) /\ DOMAIN e = DOMAIN b
        BY <3>2
      <3>5. E!Handle(b, ev) = b
        BY <2>3, <3>1, <3>2 DEF E!handleDadosPessoaisAtualizados
      <3> QED
        BY <3>3, <3>4, <3>5
    <2>4. CASE ev.tipo = "Interrompido"
      <3>1. ev.nivel \in E!Ensinos
        BY <2>4 DEF MudaEstudante
      <3> QED
      BY <2>4, <3>1, EnsinoMuda, ZenonT(40) DEF E!handleStatusInativo, E!applyEtapaInativa
    <2>5. CASE ev.tipo = "EstudanteDesvinculadoDaAcademia"
      BY <2>5 DEF E!handleEstudanteDesvinculadoDaAcademia, E!applyEstudanteDesvinculadoDaAcademia
    <2>6. CASE ev.tipo = "EstudanteDeletado"
      BY <2>6 DEF E!handleEstudanteDeletado, E!applyEstudanteDeletado
    <2>7. CASE ev.tipo = "EstudanteReintegrado"
      <3> DEFINE n == ev.nivel
      <3>1. n \in {"fundamental", "medio", "superior"} /\ n \in E!Ensinos
        BY <2>7 DEF MudaEstudante, E!Ensinos
      <3> DEFINE etapa == [e.etapa EXCEPT ![n] = "em_andamento"]
                 ano == [e.ano EXCEPT ![n] = ev.ano]
                 curso == IF n = "fundamental" THEN e.curso ELSE [e.curso EXCEPT ![n] = ev.curso]
      <3>2. Ensino(etapa) /\ Ensino(ano) /\ Ensino(curso)
        BY <3>1, EnsinoMuda
      <3>3. /\ [etapa EXCEPT ![n] = "em_andamento"] = etapa /\ [ano EXCEPT ![n] = ev.ano] = ano
            /\ n # "fundamental" => [curso EXCEPT ![n] = ev.curso] = curso
        BY <3>1, EnsinoMuda
      <3>4. b = [status |-> "ativo", email |-> e.email, senha |-> e.senha,
                 verificado |-> e.verificado, bilhete |-> e.bilhete, etapa |-> etapa,
                 ano |-> ano, curso |-> curso,
                 semestre |-> IF n = "superior" THEN ev.semestre ELSE e.semestre]
        BY <2>7, <3>1 DEF E!applyEstudanteReintegrado, Ensino
      <3>5. E!Handle(e, ev) = b
        BY <2>7, <3>1, <3>4 DEF E!handleEstudanteReintegrado
      <3> HIDE DEF b, etapa, ano, curso
      <3>6. VivoEstudante(b) /\ DOMAIN e = DOMAIN b
        BY <3>2, <3>4
      <3>7. E!Handle(b, ev) = b
        BY <2>7, <3>1, <3>3, <3>4 DEF E!handleEstudanteReintegrado
      <3> QED
        BY <3>5, <3>6, <3>7
    <2>8. CASE ev.tipo = "CursoAlterado"
      <3> DEFINE n == ev.nivel
      <3>1. n \in E!Ensinos
        BY <2>8 DEF MudaEstudante
      <3> DEFINE ano == [e.ano EXCEPT ![n] = "1"]
                 curso == [e.curso EXCEPT ![n] = ev.curso]
      <3>2. Ensino(ano) /\ Ensino(curso)
        BY <3>1, EnsinoMuda
      <3>3. [ano EXCEPT ![n] = "1"] = ano /\ [curso EXCEPT ![n] = ev.curso] = curso
        BY <3>1, EnsinoMuda
      <3>4. b = [status |-> e.status, email |-> e.email, senha |-> e.senha,
                 verificado |-> e.verificado, bilhete |-> e.bilhete, etapa |-> e.etapa,
                 ano |-> ano, curso |-> curso,
                 semestre |-> IF n = "superior" THEN 1 ELSE e.semestre]
        BY <2>8, <3>1 DEF E!applyCursoAlterado
      <3>5. E!Handle(e, ev) = b
        BY <2>8, <3>1, <3>4 DEF E!handleCursoAlterado
      <3> HIDE DEF b, ano, curso
      <3>6. VivoEstudante(b) /\ DOMAIN e = DOMAIN b
        BY <3>2, <3>4
      <3>7. E!Handle(b, ev) = b
        BY <2>8, <3>1, <3>3, <3>4 DEF E!handleCursoAlterado
      <3> QED
        BY <3>5, <3>6, <3>7
    <2>9. CASE ev.tipo = "EstudanteDocumentosCompletados"
      BY <2>9 DEF E!handleEstudanteDocumentosCompletados, E!applyEstudanteDocumentosCompletados
    <2> QED
      BY <2>1, <2>2, <2>3, <2>4, <2>5, <2>6, <2>7, <2>8, <2>9, Zenon DEF MudaEstudante
  <1>2. \A x, y : Apply(x, ev) = E!Apply(x, ev) /\ Handle(x, ev, y) = E!Handle(x, ev)
    BY DEF Apply, Handle
  <1> QED
    BY <1>1, <1>2, Zenon DEF Elo

(* The event that creates a student makes one that exists, in the          *)
(* aggregate and in the row alike, also when it is handled twice.          *)
LEMMA EstudanteNovo ==
    ASSUME tipo = "estudante", NEW ev, CriaEstudante(ev)
    PROVE VivoEstudante(Apply(Novo(tipo), ev)) /\ Elo(Novo(tipo), ev, Apply(Novo(tipo), ev))
  <1> DEFINE e == E!NewEstudante
             b == E!Apply(e, ev)
  <1>1. VivoEstudante(b) /\ E!Handle(e, ev) = b /\ E!Handle(b, ev) = b /\ DOMAIN e = DOMAIN b
    <2>1. ev.tipo = "EstudanteCriadoComVinculo"
      BY DEF CriaEstudante
    <2>2. b = [status |-> ev.status, email |-> ev.email, senha |-> ev.senha,
               verificado |-> FALSE, bilhete |-> ev.bilhete, etapa |-> ev.etapa,
               ano |-> ev.ano, curso |-> ev.curso, semestre |-> 0]
      BY <2>1 DEF CriaEstudante, E!NewEstudante, E!Apply, E!applyEstudanteCriadoComVinculo
    <2>3. E!Handle(e, ev) = b /\ DOMAIN e = DOMAIN b
      BY <2>1, <2>2 DEF E!NewEstudante, E!Handle, E!handleEstudanteCriadoComVinculo
    <2> HIDE DEF b
    <2>4. VivoEstudante(b)
      BY <2>2 DEF VivoEstudante, CriaEstudante
    <2>5. E!Handle(b, ev) = b
      BY <2>1, <2>2 DEF E!Handle, E!handleEstudanteCriadoComVinculo
    <2> QED
      BY <2>3, <2>4, <2>5
  <1>2. \A x, y : Apply(x, ev) = E!Apply(x, ev) /\ Handle(x, ev, y) = E!Handle(x, ev)
    BY DEF Apply, Handle
  <1>3. Novo(tipo) = e
    BY DEF Novo
  <1> QED
    BY <1>1, <1>2, <1>3 DEF Elo

(* Every batch that a handler may decide on for a student that exists      *)
(* holds events about one that exists.                                     *)
LEMMA EstudantePede ==
    ASSUME tipo = "estudante", VivoEstudante(estado), NEW lote \in Decisoes
    PROVE \E ev : lote = <<ev>> /\ MudaEstudante(ev)
  <1>1. lote \in E!Pedidos(estado, linha)
    BY DEF Decisoes
  <1>2. estado.status # "nenhum"
    BY DEF VivoEstudante
  <1>3. ASSUME NEW ev \in E!CompletarDocumentosPendentes(estado) PROVE MudaEstudante(ev)
    BY <1>3 DEF MudaEstudante, E!CompletarDocumentosPendentes
  <1>4. ASSUME NEW ev \in E!InterromperPercursoAcademico(estado) PROVE MudaEstudante(ev)
    <2>1. PICK n \in E!Ensinos : ev = [tipo |-> "Interrompido", nivel |-> n]
      BY <1>4 DEF E!InterromperPercursoAcademico, E!InterromperEtapa
    <2> QED
      BY <2>1 DEF MudaEstudante
  <1>5. ASSUME NEW ev \in E!DesvincularDaAcademia(estado) PROVE MudaEstudante(ev)
    BY <1>5 DEF MudaEstudante, E!DesvincularDaAcademia
  <1>6. ASSUME NEW n \in E!Ensinos, NEW c, NEW ev \in E!Reintegrar(estado, n, c)
        PROVE MudaEstudante(ev)
    BY <1>6 DEF MudaEstudante, E!Reintegrar
  <1>7. ASSUME NEW n \in E!Ensinos, NEW c, NEW ev \in E!AlterarCurso(estado, n, c)
        PROVE MudaEstudante(ev)
    BY <1>7 DEF MudaEstudante, E!AlterarCurso
  <1>8. ASSUME NEW ev \in E!Deletar(estado) PROVE MudaEstudante(ev)
    BY <1>8 DEF MudaEstudante, E!Deletar
  <1>9. ASSUME NEW ev \in E!DeletarPorAcademia(estado) PROVE MudaEstudante(ev)
    BY <1>9 DEF MudaEstudante, E!DeletarPorAcademia
  <1>10. ASSUME NEW ev \in E!AlterarBilheteIdentidadeSemAcademia PROVE MudaEstudante(ev)
    BY <1>10 DEF MudaEstudante, E!AlterarBilheteIdentidadeSemAcademia
  <1>11. ASSUME NEW ev \in E!VerificarEmail(estado) PROVE MudaEstudante(ev)
    <2>1. ev = [tipo |-> "EmailVerificadoEstudante"]
      BY <1>11, Zenon DEF E!VerificarEmail
    <2> QED
      BY <2>1 DEF MudaEstudante
  <1>12. ASSUME NEW ev \in E!AlterarSenha PROVE MudaEstudante(ev)
    BY <1>12 DEF MudaEstudante, E!AlterarSenha
  <1>13. ASSUME NEW ev \in E!AtualizarDadosPessoais(estado) PROVE MudaEstudante(ev)
    <2>1. ev = [tipo |-> "DadosPessoaisAtualizados", email |-> "b", bilhete |-> E!Manter,
                emailAlterado |-> estado.email # "b"]
      BY <1>13, Zenon DEF E!AtualizarDadosPessoais
    <2>2. /\ ev.tipo = "DadosPessoaisAtualizados" /\ ev.email = "b"
          /\ ev.emailAlterado = (estado.email # "b")
      BY <2>1
    <2> QED
      BY <2>2 DEF MudaEstudante, E!Manter
  <1>14. E!Oferta(estado) \subseteq E!Ensinos
    BY DEF E!Oferta, E!Ensinos
  <1>15. CASE lote \in E!CompletarDocumentosEstudantePendente(estado, linha)
    BY <1>3, <1>15 DEF E!CompletarDocumentosEstudantePendente
  <1>16. CASE lote \in E!decidirSolicitacaoStatus(estado, linha)
    <2> DEFINE Volta == UNION {E!Reintegrar(estado, n, c) :
                                 n \in E!Oferta(estado), c \in E!Cursos \cup {E!Nenhum}}
               Todos == E!InterromperPercursoAcademico(estado) \cup E!DesvincularDaAcademia(estado)
                          \cup Volta
    <2>1. E!decidirSolicitacaoStatus(estado, linha) =
            {<<ev>> : ev \in {v \in Todos : E!carregarEstudanteDaAcademia(linha)}}
      BY DEF E!decidirSolicitacaoStatus
    <2>2. PICK ev \in Todos : lote = <<ev>>
      <3> HIDE DEF Todos
      <3> QED
        BY <1>16, <2>1
    <2>3. ASSUME ev \in Volta PROVE \E n \in E!Oferta(estado) : \E c : ev \in E!Reintegrar(estado, n, c)
      BY <2>3
    <2> HIDE DEF Volta
    <2> QED
      BY <1>4, <1>5, <1>6, <1>14, <2>2, <2>3
  <1>17. CASE lote \in E!AlterarCursoEstudante(estado, linha)
    <2> DEFINE Troca == UNION {E!AlterarCurso(estado, n, c) :
                                 n \in E!Oferta(estado) \ {"fundamental"}, c \in E!Cursos}
    <2>1. E!AlterarCursoEstudante(estado, linha) =
            {<<ev>> : ev \in {v \in Troca : E!carregarEstudanteDaAcademia(linha)}}
      BY DEF E!AlterarCursoEstudante
    <2>2. PICK ev \in Troca : lote = <<ev>>
      <3> HIDE DEF Troca
      <3> QED
        BY <1>17, <2>1
    <2>3. PICK n \in E!Oferta(estado), c \in E!Cursos : ev \in E!AlterarCurso(estado, n, c)
      BY <2>2
    <2> QED
      BY <1>7, <1>14, <2>2, <2>3
  <1>18. CASE lote \in E!DeletarContaEstudante(estado)
    BY <1>8, <1>18 DEF E!DeletarContaEstudante
  <1>19. CASE lote \in E!DeletarContaEstudantePorAcademia(estado, linha)
    BY <1>9, <1>19 DEF E!DeletarContaEstudantePorAcademia
  <1>20. CASE lote \in E!AtualizarBilheteIdentidadeSemAcademia(linha)
    BY <1>10, <1>20 DEF E!AtualizarBilheteIdentidadeSemAcademia
  <1>21. CASE lote \in E!VerificarEmailConta(E!VerificarEmail(estado))
    BY <1>11, <1>21 DEF E!VerificarEmailConta
  <1>22. CASE lote \in E!ResetarSenha(linha, E!AlterarSenha)
    BY <1>12, <1>22 DEF E!ResetarSenha
  <1>23. CASE lote \in E!AlterarSenhaConta(linha, {v \in E!AlterarSenha : linha.status = "ativo"})
    BY <1>12, <1>23 DEF E!AlterarSenhaConta
  <1>24. CASE lote \in E!atualizarMeuContato(E!AtualizarDadosPessoais(estado))
    BY <1>13, <1>24 DEF E!atualizarMeuContato
  <1> QED
    BY <1>1, <1>2, <1>15, <1>16, <1>17, <1>18, <1>19, <1>20, <1>21, <1>22, <1>23, <1>24
       DEF E!Pedidos

(* As long as there is no student, a handler can only decide to create     *)
(* it.                                                                     *)
LEMMA EstudantePedeNovo ==
    ASSUME tipo = "estudante", estado = Novo(tipo), NEW lote \in Decisoes
    PROVE \E ev : lote = <<ev>> /\ CriaEstudante(ev)
  <1>1. lote \in E!Pedidos(estado, linha)
    BY DEF Decisoes
  <1>2. estado = E!NewEstudante
    BY DEF Novo
  <1>3. lote \in E!registerEstudantePorAcademia(estado)
    <2>1. E!NewEstudante.status = "nenhum"
      BY DEF E!NewEstudante
    <2>2. estado.status = "nenhum"
      BY <1>2, <2>1
    <2> QED
      BY <1>1, <2>2 DEF E!Pedidos
  <1> DEFINE Todos == UNION {E!CriarComVinculo(s) : s \in {"ativo", "pendente_documentos"}}
  <1>a. PICK ev \in Todos : lote = <<ev>>
    <2> HIDE DEF Todos
    <2>1. E!registerEstudantePorAcademia(estado) = {<<ev>> : ev \in {v \in Todos : estado = E!NewEstudante}}
      BY DEF E!registerEstudantePorAcademia, Todos
    <2> QED
      BY <1>3, <2>1
  <1>4. PICK s \in {"ativo", "pendente_documentos"} : ev \in E!CriarComVinculo(s)
    BY <1>a
  <1>5. PICK nivel \in E!Ensinos :
           ev = [tipo |-> "EstudanteCriadoComVinculo", status |-> s, email |-> "a",
                 senha |-> "s1", bilhete |-> "b1", etapa |-> E!deriveStatusPorAnoAcademico(nivel),
                 ano |-> [n \in E!Ensinos |-> IF n = nivel THEN "2" ELSE E!Nenhum],
                 curso |-> [n \in E!Ensinos |->
                              IF n = nivel /\ n # "fundamental" THEN "c1" ELSE E!Nenhum]]
    BY <1>4 DEF E!CriarComVinculo
  <1>6. CriaEstudante(ev)
    <2>1. \A x : Ensino([n \in E!Ensinos |-> x[n]])
      BY DEF Ensino
    <2> QED
    BY <1>4, <1>5 DEF CriaEstudante, E!deriveStatusPorAnoAcademico, Ensino
  <1> QED
    BY <1>a, <1>6

(* What FoldLeft picks among the positions of a batch: the last one.       *)
LEMMA MaxUm == Max({1}) = 1
  BY DEF Max

(* The same, of two positions.                                             *)
LEMMA MaxDois == Max({1, 2}) = 2
  BY DEF Max

\* A batch of one event.
(* Loading a batch of one event applies it.                                *)
LEMMA FoldUm == ASSUME NEW e, NEW a PROVE FoldLeft(Apply, e, <<a>>) = Apply(e, a)
  <1> DEFINE s == <<a>>
             rec(f) == [z \in SUBSET (DOMAIN s) |->
                          IF z = {} THEN e ELSE Apply(f[z \ {Max(z)}], s[Max(z)])]
             it == CHOOSE f : f = rec(f)
             g == [z \in SUBSET {1} |-> IF z = {} THEN e ELSE Apply(e, a)]
  <1>1. FoldLeft(Apply, e, s) = it[DOMAIN s]
    BY DEF FoldLeft, MapThenFoldSet
  <1>2. DOMAIN s = {1} /\ s[1] = a
    OBVIOUS
  <1>3. g = rec(g)
    <2>1. ASSUME NEW z \in SUBSET {1} PROVE g[z] = rec(g)[z]
      <3>1. CASE z = {}
        BY <1>2, <3>1
      <3>2. CASE z = {1}
        <4>1. Max(z) = 1 /\ z \ {Max(z)} = {}
          BY <3>2, MaxUm
        <4>2. g[{}] = e
          OBVIOUS
        <4> QED
          BY <1>2, <3>2, <4>1, <4>2
      <3> QED
        BY <3>1, <3>2
    <2> HIDE DEF s
    <2> QED
      BY <1>2, <2>1
  <1>4. it = rec(it)
    <2> HIDE DEF rec, s, g
    <2> QED
      BY <1>3
  <1>5. it[{}] = e
    <2> HIDE DEF it
    <2> QED BY <1>2, <1>4
  <1>6. it[{1}] = Apply(e, a)
    <2>1. Max({1}) = 1 /\ {1} \ {1} = {} /\ {1} # {} /\ {1} \in SUBSET {1}
      BY MaxUm
    <2>2. rec(it)[{1}] = Apply(it[{}], a)
      <3> HIDE DEF it, s
      <3> QED
        BY <1>2, <2>1
    <2> HIDE DEF it, rec
    <2> QED
      BY <1>4, <1>5, <2>2
  <1> HIDE DEF it, s
  <1> QED
    BY <1>1, <1>2, <1>6 DEF s

\* A batch of two events.
(* Loading a batch of two events applies the first and then the second.    *)
LEMMA FoldDois ==
    ASSUME NEW e, NEW a, NEW b PROVE FoldLeft(Apply, e, <<a, b>>) = Apply(Apply(e, a), b)
  <1> DEFINE s == <<a, b>>
             rec(f) == [z \in SUBSET (DOMAIN s) |->
                          IF z = {} THEN e ELSE Apply(f[z \ {Max(z)}], s[Max(z)])]
             it == CHOOSE f : f = rec(f)
             g == [z \in SUBSET {1, 2} |->
                     IF z = {} THEN e ELSE IF z = {1} THEN Apply(e, a)
                     ELSE IF z = {2} THEN Apply(e, b) ELSE Apply(Apply(e, a), b)]
  <1>1. FoldLeft(Apply, e, s) = it[DOMAIN s]
    BY DEF FoldLeft, MapThenFoldSet
  <1>2. DOMAIN s = {1, 2} /\ s[1] = a /\ s[2] = b
    OBVIOUS
  <1>3. g = rec(g)
    <2>1. ASSUME NEW z \in SUBSET {1, 2} PROVE g[z] = rec(g)[z]
      <3>1. CASE z = {}
        BY <1>2, <3>1
      <3>2. CASE z = {1}
        <4>1. Max(z) = 1 /\ z \ {Max(z)} = {} /\ z # {}
          BY <3>2, MaxUm
        <4>2. g[{}] = e /\ g[z] = Apply(e, a)
          BY <3>2
        <4> QED
          BY <1>2, <4>1, <4>2
      <3>3. CASE z = {2}
        <4>1. Max(z) = 2
          BY <3>3 DEF Max
        <4>3. z \ {Max(z)} = {} /\ z # {}
          BY <3>3, <4>1
        <4>2. g[{}] = e /\ g[z] = Apply(e, b)
          BY <3>3
        <4> QED
          BY <1>2, <4>1, <4>2, <4>3
      <3>4. CASE z = {1, 2}
        <4>1. Max(z) = 2
          BY <3>4, MaxDois
        <4>3. z \ {Max(z)} = {1} /\ z # {}
          BY <3>4, <4>1
        <4>2. g[{1}] = Apply(e, a)
          OBVIOUS
        <4>4. g[z] = Apply(Apply(e, a), b)
          BY <3>4
        <4> QED
          BY <1>2, <4>1, <4>2, <4>3, <4>4
      <3> QED
        BY <3>1, <3>2, <3>3, <3>4
    <2> HIDE DEF s
    <2> QED
      BY <1>2, <2>1
  <1>4. it = rec(it)
    <2> HIDE DEF rec, s, g
    <2> QED
      BY <1>3
  <1>5. it[{}] = e
    <2> HIDE DEF it
    <2> QED BY <1>2, <1>4
  <1>6. it[{1}] = Apply(e, a)
    <2>1. Max({1}) = 1 /\ {1} \ {1} = {} /\ {1} # {} /\ {1} \in SUBSET {1, 2}
      BY MaxUm
    <2>2. rec(it)[{1}] = Apply(it[{}], a)
      <3> HIDE DEF it, s
      <3> QED
        BY <1>2, <2>1
    <2> HIDE DEF it, rec
    <2> QED
      BY <1>4, <1>5, <2>2
  <1>7. it[{1, 2}] = Apply(it[{1}], b)
    <2>1. Max({1, 2}) = 2 /\ {1, 2} \ {2} = {1} /\ {1, 2} # {} /\ {1, 2} \in SUBSET {1, 2}
      BY MaxDois
    <2>2. rec(it)[{1, 2}] = Apply(it[{1}], b)
      <3> HIDE DEF it, s
      <3> QED
        BY <1>2, <2>1
    <2> HIDE DEF it, rec
    <2> QED
      BY <1>4, <2>2
  <1> HIDE DEF it, s
  <1> QED
    BY <1>1, <1>2, <1>6, <1>7 DEF s

(* The kinds of register that the modules describe.                        *)
Conhecidos == {"turma", "curso", "materia", "admin", "academia", "estudante", "categoria",
               "documento", "sumario", "faltas", "remetente", "mensagem"}

(* A register exists: something that no event about one that exists        *)
(* undoes.                                                                 *)
Vivo(e) ==
    /\ tipo = "turma" => VivaTurma(e)
    /\ tipo = "curso" => VivoCurso(e)
    /\ tipo = "materia" => VivaMateria(e)
    /\ tipo = "admin" => VivoAdmin(e)
    /\ tipo = "academia" => VivaAcademia(e)
    /\ tipo = "estudante" => VivoEstudante(e)
    /\ tipo = "categoria" => VivaCategoria(e)
    /\ tipo = "documento" => VivoDocumento(e)
    /\ tipo = "sumario" => VivoSumario(e)
    /\ tipo = "faltas" => VivoFaltas(e)
    /\ tipo = "remetente" => VivoRemetente(e)
    /\ tipo = "mensagem" => VivaMensagem(e)

(* The events about a register that exists.                                *)
Muda(ev) ==
    /\ tipo = "turma" => MudaTurma(ev)
    /\ tipo = "curso" => MudaCurso(ev)
    /\ tipo = "materia" => MudaMateria(ev)
    /\ tipo = "admin" => MudaAdmin(ev)
    /\ tipo = "academia" => MudaAcademia(ev)
    /\ tipo = "estudante" => MudaEstudante(ev)
    /\ tipo = "categoria" => MudaCategoria(ev)
    /\ tipo = "documento" => MudaDocumento(ev)
    /\ tipo = "sumario" => MudaSumario(ev)
    /\ tipo = "remetente" => MudaRemetente(ev)
    /\ tipo # "mensagem"

(* The event that creates a register.                                      *)
Cria(ev) ==
    /\ tipo = "turma" => CriaTurma(ev)
    /\ tipo = "curso" => CriaCurso(ev)
    /\ tipo = "materia" => CriaMateria(ev)
    /\ tipo = "admin" => CriaAdmin(ev)
    /\ tipo = "academia" => CriaAcademia(ev)
    /\ tipo = "estudante" => CriaEstudante(ev)
    /\ tipo = "categoria" => CriaCategoria(ev)
    /\ tipo = "documento" => CriaDocumento(ev)
    /\ tipo = "sumario" => CriaSumario(ev)
    /\ tipo = "mensagem" => CriaMensagem(ev)
    /\ tipo \notin ComIdFixo

(* A register that exists meets an event about one that exists, whichever  *)
(* its kind.                                                               *)
LEMMA Mudanca ==
    ASSUME tipo \in Conhecidos, NEW m, NEW e, NEW ev, Vivo(e), Muda(ev), Dentro(m, ev)
    PROVE Vivo(Apply(e, ev)) /\ Passo(m, e, ev, Apply(e, ev))
  <1>1. CASE tipo = "turma"
    BY <1>1, TurmaMuda DEF Vivo, Muda
  <1> SUFFICES ASSUME tipo # "turma" PROVE Vivo(Apply(e, ev)) /\ Elo(e, ev, Apply(e, ev))
    BY <1>1, EloPasso
  <1>2. CASE tipo = "curso"
    BY <1>2, CursoMuda DEF Vivo, Muda
  <1>3. CASE tipo = "materia"
    BY <1>3, MateriaMuda DEF Vivo, Muda
  <1>4. CASE tipo = "admin"
    BY <1>4, AdminMuda DEF Vivo, Muda
  <1>5. CASE tipo = "academia"
    BY <1>5, AcademiaMuda DEF Vivo, Muda
  <1>6. CASE tipo = "estudante"
    BY <1>6, EstudanteMuda DEF Vivo, Muda
  <1>7. CASE tipo = "categoria"
    BY <1>7, CategoriaMuda DEF Vivo, Muda
  <1>8. CASE tipo = "documento"
    BY <1>8, DocumentoMuda DEF Vivo, Muda
  <1>9. CASE tipo = "sumario"
    BY <1>9, SumarioMuda DEF Vivo, Muda
  <1>10. CASE tipo = "faltas"
    BY <1>10, FaltasMuda DEF Vivo, Muda
  <1>11. CASE tipo = "remetente"
    BY <1>11, RemetenteMuda DEF Vivo, Muda
  <1>12. CASE tipo = "mensagem"
    BY <1>12 DEF Muda
  <1> QED
    BY <1>2, <1>3, <1>4, <1>5, <1>6, <1>7, <1>8, <1>9, <1>10, <1>11, <1>12 DEF Conhecidos

(* The creation of a register, whichever its kind.                         *)
LEMMA Criacao ==
    ASSUME tipo \in Conhecidos, NEW m, NEW ev, Cria(ev)
    PROVE Vivo(Apply(Novo(tipo), ev)) /\ Passo(m, Novo(tipo), ev, Apply(Novo(tipo), ev))
  <1>1. CASE tipo = "turma"
    BY <1>1, TurmaNova DEF Vivo, Cria
  <1> SUFFICES ASSUME tipo # "turma"
               PROVE Vivo(Apply(Novo(tipo), ev)) /\ Elo(Novo(tipo), ev, Apply(Novo(tipo), ev))
    BY <1>1, EloPasso
  <1>2. CASE tipo = "curso"
    BY <1>2, CursoNovo DEF Vivo, Cria
  <1>3. CASE tipo = "materia"
    BY <1>3, MateriaNova DEF Vivo, Cria
  <1>4. CASE tipo = "admin"
    BY <1>4, AdminNovo DEF Vivo, Cria
  <1>5. CASE tipo = "academia"
    BY <1>5, AcademiaNova DEF Vivo, Cria
  <1>6. CASE tipo = "estudante"
    BY <1>6, EstudanteNovo DEF Vivo, Cria
  <1>7. CASE tipo = "categoria"
    BY <1>7, CategoriaNova DEF Vivo, Cria
  <1>8. CASE tipo = "documento"
    BY <1>8, DocumentoNovo DEF Vivo, Cria
  <1>9. CASE tipo = "sumario"
    BY <1>9, SumarioNovo DEF Vivo, Cria
  <1>10. CASE tipo \in ComIdFixo
    BY <1>10 DEF Cria
  <1>12. CASE tipo = "mensagem"
    BY <1>12, MensagemNova DEF Vivo, Cria
  <1> QED
    BY <1>2, <1>3, <1>4, <1>5, <1>6, <1>7, <1>8, <1>9, <1>10, <1>12 DEF Conhecidos, ComIdFixo

(* The registers whose id is fixed by what they are about exist from the   *)
(* start.                                                                  *)
LEMMA NovoFixo == tipo \in ComIdFixo => Vivo(Novo(tipo))
  BY FaltasNova, RemetenteNovo DEF ComIdFixo, Vivo

(* What a handler may save: one event, or one and another that it          *)
(* entails.                                                                *)
LoteMuda(lote) ==
    \/ \E ev : lote = <<ev>> /\ Muda(ev)
    \/ \E ev, dep : lote = <<ev, dep>> /\ Muda(ev) /\ Muda(dep)
LoteCria(lote) ==
    \/ \E ev : lote = <<ev>> /\ Cria(ev)
    \/ \E ev, dep : lote = <<ev, dep>> /\ Cria(ev) /\ Muda(dep)

(* What a handler decides on a register that exists.                       *)
LEMMA PedeVivo ==
    ASSUME tipo \in Conhecidos, Vivo(estado), NEW lote \in Decisoes
    PROVE LoteMuda(lote)
  <1>1. CASE tipo = "turma"
    BY <1>1, TurmaPede DEF Vivo, Muda, LoteMuda
  <1>2. CASE tipo = "curso"
    BY <1>2, CursoPede DEF Vivo, Muda, LoteMuda
  <1>3. CASE tipo = "materia"
    BY <1>3, MateriaPede DEF Vivo, Muda, LoteMuda
  <1>4. CASE tipo = "admin"
    BY <1>4, AdminPede DEF Vivo, Muda, LoteMuda
  <1>5. CASE tipo = "academia"
    BY <1>5, AcademiaPede DEF Vivo, Muda, LoteMuda
  <1>6. CASE tipo = "estudante"
    BY <1>6, EstudantePede DEF Vivo, Muda, LoteMuda
  <1>7. CASE tipo = "categoria"
    BY <1>7, CategoriaPede DEF Vivo, Muda, LoteMuda
  <1>8. CASE tipo = "documento"
    BY <1>8, DocumentoPede DEF Vivo, Muda, LoteMuda
  <1>9. CASE tipo = "sumario"
    BY <1>9, SumarioPede DEF Vivo, Muda, LoteMuda
  <1>10. CASE tipo = "faltas"
    BY <1>10, FaltasPede DEF Vivo, Muda, LoteMuda
  <1>11. CASE tipo = "remetente"
    BY <1>11, RemetentePede DEF Vivo, Muda, LoteMuda
  <1>12. CASE tipo = "mensagem"
    BY <1>12, MensagemPede DEF Vivo
  <1> QED
    BY <1>1, <1>2, <1>3, <1>4, <1>5, <1>6, <1>7, <1>8, <1>9, <1>10, <1>11, <1>12 DEF Conhecidos

(* What a handler decides on a register that does not exist, and of which  *)
(* the read model knows nothing.                                           *)
LEMMA PedeNovo ==
    ASSUME tipo \in Conhecidos \ ComIdFixo, estado = Novo(tipo), linha = Novo(tipo),
           NEW lote \in Decisoes
    PROVE LoteCria(lote)
  <1>0. tipo \notin ComIdFixo
    OBVIOUS
  <1>1. CASE tipo = "turma"
    BY <1>0, <1>1, TurmaPedeNova DEF Cria, LoteCria
  <1>2. CASE tipo = "curso"
    BY <1>0, <1>2, CursoPedeNovo DEF Cria, LoteCria
  <1>3. CASE tipo = "materia"
    BY <1>0, <1>3, MateriaPedeNova DEF Cria, Muda, LoteCria
  <1>4. CASE tipo = "admin"
    BY <1>0, <1>4, AdminPedeNovo DEF Cria, LoteCria
  <1>5. CASE tipo = "academia"
    BY <1>0, <1>5, AcademiaPedeNova DEF Cria, LoteCria
  <1>6. CASE tipo = "estudante"
    BY <1>0, <1>6, EstudantePedeNovo DEF Cria, LoteCria
  <1>7. CASE tipo = "categoria"
    BY <1>0, <1>7, CategoriaPedeNova DEF Cria, LoteCria
  <1>8. CASE tipo = "documento"
    BY <1>0, <1>8, DocumentoPedeNovo DEF Cria, LoteCria
  <1>9. CASE tipo = "sumario"
    BY <1>0, <1>9, SumarioPedeNovo DEF Cria, LoteCria
  <1>12. CASE tipo = "mensagem"
    BY <1>0, <1>12, MensagemPedeNova DEF Cria, LoteCria
  <1> QED
    BY <1>0, <1>1, <1>2, <1>3, <1>4, <1>5, <1>6, <1>7, <1>8, <1>9, <1>12 DEF Conhecidos, ComIdFixo

(* What the proofs ask of the constants.                                    *)
Hipoteses == Tipos \subseteq Conhecidos /\ MaxEmCurso \in Nat

(* The states s of a register through the events f that are not yet        *)
(* projected: each event links two of them, for the aggregate and for the  *)
(* row alike. The last is the aggregate; the row is the first, or the      *)
(* second when its event was handled and the checkpoint lost; but for the  *)
(* students m of a class.                                                  *)
Caminho(m, s, f) == \A i \in 1..Len(f) : Passo(m, s[i], f[i], s[i + 1])
MesmosCampos(s, f, e) == \A i \in 1..(Len(f) + 1) : DOMAIN s[i] = DOMAIN e
Historia(m, s, f, e, l) ==
    /\ s[Len(f) + 1] = e
    /\ Igual(s[1], l, m) \/ (f # <<>> /\ Igual(s[2], l, m))
    /\ Caminho(m, s, f) /\ MesmosCampos(s, f, e)

(* The events not yet projected have such a history.                       *)
FilaOK == \E Y, s : fila \in Seq(Y) /\ Historia(movidos, s, fila, estado, linha)
(* A register exists and the handlers in progress will save events about   *)
(* it; or there is none and one handler will create it.                    *)
Espera(Z) ==
    \/ Vivo(estado) /\ \A z \in Z : LoteMuda(z)
    \/ /\ estado = Novo(tipo) /\ linha = Novo(tipo) /\ tipo \notin ComIdFixo /\ fila = <<>>
       /\ Len(pedidos) <= 1 /\ \A z \in Z : LoteCria(z)
PedidosOK == \E Z : pedidos \in Seq(Z) /\ Espera(Z)
(* A batch has at most two events.                                         *)
ContaOK == Len(fila) \in Nat /\ Len(pedidos) \in Nat /\ Len(fila) + 2 * Len(pedidos) <= 2 * MaxEmCurso
(* The inductive invariant.                                                *)
IInv == tipo \in Tipos /\ tipo \in Conhecidos /\ ContaOK /\ FilaOK /\ PedidosOK

(* The kind of a register never changes, and what depends on the kind      *)
(* alone means the same before and after a step.                           *)
LEMMA MesmoPasso ==
    ASSUME tipo' = tipo, NEW m, NEW a, NEW ev, NEW b
    PROVE  Passo(m, a, ev, b)' <=> Passo(m, a, ev, b)
  BY DEF Passo, Igual, Handle
(* The same, of what it is to exist.                                       *)
LEMMA MesmoVivo ==
    ASSUME tipo' = tipo, NEW a
    PROVE  Vivo(a)' <=> Vivo(a)
  BY DEF Vivo
(* The same, of what a batch may hold.                                     *)
LEMMA MesmoLote ==
    ASSUME tipo' = tipo, NEW lote
    PROVE  (LoteMuda(lote)' <=> LoteMuda(lote)) /\ (LoteCria(lote)' <=> LoteCria(lote))
  BY DEF LoteMuda, LoteCria, Muda, Cria
(* The same, of a history.                                                 *)
LEMMA MesmoHist ==
    ASSUME tipo' = tipo, NEW m, NEW s, NEW f, NEW e, NEW l
    PROVE  Historia(m, s, f, e, l)' <=> Historia(m, s, f, e, l)
  <1>1. ASSUME NEW i PROVE Passo(m, s[i], f[i], s[i + 1])' <=> Passo(m, s[i], f[i], s[i + 1])
    BY MesmoPasso
  <1>2. Caminho(m, s, f)' <=> Caminho(m, s, f)
    BY <1>1 DEF Caminho
  <1>3. ASSUME NEW a PROVE Igual(a, l, m)' <=> Igual(a, l, m)
    BY DEF Igual
  <1> QED
    BY <1>2, <1>3 DEF Historia, MesmosCampos

(* A row that is a state has its fields, and is that state but for more    *)
(* students too.                                                           *)
LEMMA IgualCampos ==
    ASSUME NEW a, NEW l, NEW m, Igual(a, l, m)
    PROVE  DOMAIN l = DOMAIN a /\ \A n : m \subseteq n => Igual(a, l, n)
  BY DEF Igual, T!Mesma

(* A history stays one when an assessment moves more students.             *)
LEMMA HistMais ==
    ASSUME NEW m, NEW n, m \subseteq n, NEW s, NEW f, NEW e, NEW l, Historia(m, s, f, e, l)
    PROVE  Historia(n, s, f, e, l)
  <1>1. ASSUME NEW a, NEW ev, NEW b, Passo(m, a, ev, b) PROVE Passo(n, a, ev, b)
    BY <1>1 DEF Passo
  <1>2. Caminho(n, s, f)
    BY <1>1 DEF Historia, Caminho
  <1>3. ASSUME NEW a, Igual(a, l, m) PROVE Igual(a, l, n)
    BY <1>3, IgualCampos
  <1> QED
    BY <1>2, <1>3 DEF Historia

(* An event saved at the end of the queue adds a state to the history.     *)
LEMMA HistAppend ==
    ASSUME NEW m, NEW Y, NEW f \in Seq(Y), NEW s, NEW e, NEW l, NEW ev, NEW b,
           Historia(m, s, f, e, l), Passo(m, e, ev, b)
    PROVE  \E t : Historia(m, t, Append(f, ev), b, l) /\ t[1] = s[1]
  <1> DEFINE n == Len(f)
             g == Append(f, ev)
             t == [i \in 1..(n + 2) |-> IF i = n + 2 THEN b ELSE s[i]]
  <1>0. n \in Nat /\ Len(g) = n + 1 /\ g[n + 1] = ev
    OBVIOUS
  <1>a. g # <<>>
    BY <1>0
  <1>b. f # <<>> => n >= 1
    OBVIOUS
  <1>1. n \in Nat /\ Len(g) = n + 1 /\ g[n + 1] = ev /\ g # <<>> /\ (f # <<>> => n >= 1)
    BY <1>0, <1>a, <1>b
  <1>2. ASSUME NEW i \in 1..n PROVE g[i] = f[i]
    OBVIOUS
  <1>3. t[n + 2] = b /\ \A i \in 1..(n + 1) : t[i] = s[i]
    BY <1>1
  <1> HIDE DEF n, g, t
  <1>4. s[n + 1] = e
    BY DEF Historia, n
  <1>5. t[n + 1] = e /\ t[1] = s[1]
    BY <1>1, <1>3, <1>4
  <1>6. Igual(t[1], l, m) \/ (g # <<>> /\ Igual(t[2], l, m))
    <2>1. CASE Igual(s[1], l, m)
      BY <1>5, <2>1
    <2>2. CASE f # <<>> /\ Igual(s[2], l, m)
      <3>1. 2 \in 1..(n + 1)
        BY <1>1, <2>2
      <3> QED
        BY <1>1, <1>3, <2>2, <3>1
    <2> QED
      BY <2>1, <2>2 DEF Historia
  <1>7. ASSUME NEW i \in 1..(n + 1) PROVE Passo(m, t[i], g[i], t[i + 1])
    <2>1. CASE i = n + 1
      <3>1. t[i] = e /\ g[i] = ev /\ t[i + 1] = b
        BY <1>1, <1>3, <1>5, <2>1
      <3> QED
        BY <3>1
    <2>2. CASE i # n + 1
      <3>1. i \in 1..n /\ i \in 1..(n + 1) /\ i + 1 \in 1..(n + 1)
        BY <1>1, <2>2
      <3>2. Passo(m, s[i], f[i], s[i + 1])
        BY <3>1 DEF Historia, Caminho, n
      <3>3. t[i] = s[i] /\ g[i] = f[i] /\ t[i + 1] = s[i + 1]
        BY <1>2, <1>3, <3>1
      <3> QED
        BY <3>2, <3>3
    <2> QED
      BY <2>1, <2>2
  <1>8. ASSUME NEW i \in 1..(n + 2) PROVE DOMAIN t[i] = DOMAIN b
    <2>1. CASE i = n + 2
      BY <1>3, <2>1
    <2>2. CASE i # n + 2
      <3>1. i \in 1..(n + 1)
        BY <1>1, <2>2
      <3>2. DOMAIN s[i] = DOMAIN e
        BY <3>1 DEF Historia, MesmosCampos, n
      <3>3. DOMAIN e = DOMAIN b
        BY DEF Passo
      <3> QED
        BY <1>3, <3>1, <3>2, <3>3
    <2> QED
      BY <2>1, <2>2
  <1>9. Caminho(m, t, g)
    BY <1>1, <1>7 DEF Caminho
  <1>10. MesmosCampos(t, g, b)
    <2>1. Len(g) + 1 = n + 2
      BY <1>1
    <2> QED
      BY <1>8, <2>1 DEF MesmosCampos
  <1>11. t[Len(g) + 1] = b
    BY <1>1, <1>3
  <1>12. Historia(m, t, g, b, l)
    BY <1>6, <1>9, <1>10, <1>11 DEF Historia
  <1> QED
    BY <1>5, <1>12 DEF g

(* A batch of one or two events put at the end of a queue, event by        *)
(* event.                                                                  *)
LEMMA Juntar ==
    ASSUME NEW Y, NEW f \in Seq(Y), NEW a, NEW b
    PROVE  /\ f \o <<a>> = Append(f, a) /\ f \o <<a, b>> = Append(Append(f, a), b)
           /\ Append(f, a) \in Seq(Y \cup {a})
           /\ Append(Append(f, a), b) \in Seq(Y \cup {a, b})
  <1> DEFINE Z == Y \cup {a, b}
  <1>1. f \in Seq(Z) /\ <<a>> \in Seq(Z) /\ <<a, b>> \in Seq(Z) /\ f \in Seq(Y \cup {a})
    OBVIOUS
  <1>2. Append(f, a) \in Seq(Z) /\ Append(Append(f, a), b) \in Seq(Z)
    BY <1>1
  <1>3. Len(<<a>>) = 1 /\ Len(<<a, b>>) = 2 /\ <<a>>[1] = a /\ <<a, b>>[1] = a /\ <<a, b>>[2] = b
    OBVIOUS
  <1>4. f \o <<a>> = Append(f, a)
    <2>1. f \o <<a>> \in Seq(Z) /\ Len(f \o <<a>>) = Len(f) + 1
      BY <1>1, <1>3
    <2>2. ASSUME NEW i \in 1..Len(f \o <<a>>) PROVE (f \o <<a>>)[i] = Append(f, a)[i]
      BY <1>1, <1>3, <2>1
    <2> QED
      BY <1>2, <2>1, <2>2, SeqEqual
  <1>5. f \o <<a, b>> = Append(Append(f, a), b)
    <2>1. f \o <<a, b>> \in Seq(Z) /\ Len(f \o <<a, b>>) = Len(f) + 2
      BY <1>1, <1>3
    <2>2. ASSUME NEW i \in 1..Len(f \o <<a, b>>)
          PROVE  (f \o <<a, b>>)[i] = Append(Append(f, a), b)[i]
      BY <1>1, <1>2, <1>3, <2>1
    <2> QED
      BY <1>2, <2>1, <2>2, SeqEqual
  <1>6. Append(f, a) \in Seq(Y \cup {a})
    BY <1>1
  <1> QED
    BY <1>2, <1>4, <1>5, <1>6

(* Taking a batch out of those in progress leaves the others.              *)
LEMMA Retirar ==
    ASSUME NEW Z, NEW p \in Seq(Z), NEW i \in DOMAIN p
    PROVE  RemoveAt(p, i) \in Seq(Z) /\ Len(RemoveAt(p, i)) = Len(p) - 1 /\ p[i] \in Z
           /\ Len(p) \in Nat \ {0}
  <1>1. i \in 1..Len(p) /\ Len(p) \in Nat \ {0} /\ p[i] \in Z
    OBVIOUS
  <1> DEFINE a == SubSeq(p, 1, i - 1)
             b == SubSeq(p, i + 1, Len(p))
  <1>2. a \in Seq(Z) /\ Len(a) = i - 1 /\ b \in Seq(Z) /\ Len(b) = Len(p) - i
    BY <1>1
  <1>3. a \o b \in Seq(Z) /\ Len(a \o b) = Len(p) - 1
    <2> HIDE DEF a, b
    <2> QED
      BY <1>1, <1>2
  <1> QED
    BY <1>1, <1>3 DEF RemoveAt

(* The row has the fields of the state.                                    *)
LEMMA HistCampos ==
    ASSUME NEW m, NEW s, NEW f, NEW e, NEW l, Historia(m, s, f, e, l), Len(f) \in Nat,
           f # <<>> => Len(f) # 0
    PROVE  DOMAIN l = DOMAIN e
  <1>1. 1 \in 1..(Len(f) + 1) /\ (f # <<>> => 2 \in 1..(Len(f) + 1))
    OBVIOUS
  <1>2. DOMAIN s[1] = DOMAIN e /\ (f # <<>> => DOMAIN s[2] = DOMAIN e)
    BY <1>1 DEF Historia, MesmosCampos
  <1>3. PICK a : Igual(a, l, m) /\ (a = s[1] \/ (f # <<>> /\ a = s[2]))
    BY DEF Historia
  <1> QED
    BY <1>2, <1>3, IgualCampos

(* Handling the first event of the queue moves the row to the second       *)
(* state of the history, whether or not it was there already; forgetting   *)
(* that event leaves a history from there.                                 *)
LEMMA HistTail ==
    ASSUME NEW m, NEW Y, NEW f \in Seq(Y), f # <<>>, NEW s, NEW e, NEW l, Historia(m, s, f, e, l)
    PROVE  /\ \A y \in BOOLEAN : Igual(s[2], Handle(l, Head(f), y), m)
           /\ \A k : Igual(s[2], k, m) => \E t : Historia(m, t, Tail(f), e, k)
  <1> DEFINE n == Len(f)
             g == Tail(f)
             t == [i \in 1..n |-> s[i + 1]]
  <1>1. n \in Nat \ {0} /\ Len(g) = n - 1 /\ Head(f) = f[1]
    OBVIOUS
  <1>2. ASSUME NEW i \in 1..(n - 1) PROVE g[i] = f[i + 1]
    OBVIOUS
  <1>3. ASSUME NEW i \in 1..n PROVE t[i] = s[i + 1]
    OBVIOUS
  <1> HIDE DEF n, g, t
  <1>4. ASSUME NEW i \in 1..n PROVE Passo(m, s[i], f[i], s[i + 1])
    BY <1>4 DEF Historia, Caminho, n
  <1>5. Passo(m, s[1], f[1], s[2])
    <2>1. 1 \in 1..n /\ 1 + 1 = 2
      BY <1>1
    <2> QED
      BY <1>4, <2>1
  <1>6. ASSUME NEW y \in BOOLEAN PROVE Igual(s[2], Handle(l, Head(f), y), m)
    BY <1>1, <1>5 DEF Historia, Passo
  <1>8. t[1] = s[2] /\ t[n] = e
    <2>1. 1 \in 1..n /\ n \in 1..n /\ 1 + 1 = 2
      BY <1>1
    <2> QED
      BY <1>3, <2>1 DEF Historia, n
  <1>9. Caminho(m, t, g)
    <2>1. ASSUME NEW i \in 1..(n - 1) PROVE Passo(m, t[i], g[i], t[i + 1])
      <3>1. i \in 1..n /\ i + 1 \in 1..n
        BY <1>1
      <3>2. t[i] = s[i + 1] /\ t[i + 1] = s[(i + 1) + 1] /\ g[i] = f[i + 1]
        BY <1>2, <1>3, <3>1
      <3> QED
        BY <1>4, <3>1, <3>2
    <2> QED
      BY <1>1, <2>1 DEF Caminho
  <1>10. MesmosCampos(t, g, e)
    <2>1. ASSUME NEW i \in 1..n PROVE DOMAIN t[i] = DOMAIN e
      <3>1. i + 1 \in 1..(n + 1)
        BY <1>1
      <3>2. DOMAIN s[i + 1] = DOMAIN e
        BY <3>1 DEF Historia, MesmosCampos, n
      <3> QED
        BY <1>3, <3>2
    <2>2. Len(g) + 1 = n
      BY <1>1
    <2> QED
      BY <2>1, <2>2 DEF MesmosCampos
  <1>11. ASSUME NEW k, Igual(s[2], k, m) PROVE Historia(m, t, g, e, k)
    <2>1. Len(g) + 1 = n
      BY <1>1
    <2> QED
      BY <1>8, <1>9, <1>10, <1>11, <2>1 DEF Historia
  <1> QED
    BY <1>6, <1>11 DEF g

(* At the start there is nothing to project and no handler in progress.    *)
LEMMA InvInit == ASSUME Hipoteses PROVE Init => IInv
  <1> SUFFICES ASSUME Init PROVE IInv
    OBVIOUS
  <1>1. ContaOK
    BY DEF Init, ContaOK, Hipoteses
  <1>2. FilaOK
    <2> DEFINE s == <<estado>>
    <2>1. s[1] = estado /\ Len(fila) = 0 /\ linha = estado /\ fila \in Seq({}) /\ movidos = {}
      BY DEF Init
    <2> HIDE DEF s
    <2>2. Caminho(movidos, s, fila)
      BY <2>1 DEF Caminho
    <2>3. MesmosCampos(s, fila, estado)
      <3>1. ASSUME NEW i \in 1..1 PROVE i = 1
        OBVIOUS
      <3> QED
        BY <2>1, <3>1 DEF MesmosCampos
    <2>4. Igual(s[1], linha, movidos)
      BY <2>1 DEF Igual, T!Mesma
    <2>5. Historia(movidos, s, fila, estado, linha)
      BY <2>1, <2>2, <2>3, <2>4 DEF Historia
    <2> QED
      BY <2>1, <2>5 DEF FilaOK
  <1>3. pedidos \in Seq({}) /\ Len(pedidos) <= 1
    BY DEF Init
  <1>4. Espera({})
    <2>1. CASE tipo \in ComIdFixo
      BY <2>1, NovoFixo DEF Espera, Init
    <2>2. CASE tipo \notin ComIdFixo
      BY <1>3, <2>2 DEF Espera, Init
    <2> QED
      BY <2>1, <2>2
  <1> QED
    BY <1>1, <1>2, <1>3, <1>4 DEF IInv, Init, Hipoteses, PedidosOK

(* The events of a batch are about students that it moves, if they are      *)
(* assessments.                                                            *)
LEMMA DoLote ==
    ASSUME NEW m, NEW lote, {x.e : x \in Alheios(lote)} \subseteq m, NEW ev
    PROVE  /\ lote = <<ev>> => Dentro(m, ev)
           /\ \A dep : lote = <<ev, dep>> => Dentro(m, ev) /\ Dentro(m, dep)
  <1>1. ASSUME NEW x \in Range(lote) PROVE Dentro(m, x)
    BY <1>1 DEF Dentro, Alheios
  <1>2. lote = <<ev>> => ev \in Range(lote)
    <2>1. 1 \in DOMAIN <<ev>> /\ <<ev>>[1] = ev
      OBVIOUS
    <2> QED
      BY <2>1 DEF Range
  <1>3. ASSUME NEW dep, lote = <<ev, dep>> PROVE ev \in Range(lote) /\ dep \in Range(lote)
    <2>1. 1 \in DOMAIN lote /\ 2 \in DOMAIN lote /\ lote[1] = ev /\ lote[2] = dep
      BY <1>3
    <2> QED
      BY <2>1 DEF Range
  <1> QED
    BY <1>1, <1>2, <1>3

(* Loading the batch that is saved: its first event is one that the state  *)
(* can meet, its second is about a register that exists.                   *)
LEMMA Estende ==
    ASSUME tipo \in Conhecidos, NEW m, NEW Y, NEW f \in Seq(Y), NEW s, NEW e, NEW l, NEW ev, NEW lote,
           Historia(m, s, f, e, l), Vivo(Apply(e, ev)), Passo(m, e, ev, Apply(e, ev)),
           lote = <<ev>> \/ \E dep : lote = <<ev, dep>> /\ Muda(dep) /\ Dentro(m, dep)
    PROVE  /\ Vivo(FoldLeft(Apply, e, lote))
           /\ \E W, t : f \o lote \in Seq(W) /\ Historia(m, t, f \o lote, FoldLeft(Apply, e, lote), l)
           /\ Len(f \o lote) \in {Len(f) + 1, Len(f) + 2}
  <1> DEFINE g == Append(f, ev)
             u == Apply(e, ev)
  <1>1. g \in Seq(Y \cup {ev}) /\ f \o <<ev>> = g
    BY Juntar
  <1>2. PICK t : Historia(m, t, g, u, l)
    BY HistAppend
  <1>3. CASE lote = <<ev>>
    <2>1. FoldLeft(Apply, e, lote) = u
      BY <1>3, FoldUm
    <2>2. Len(g) = Len(f) + 1
      OBVIOUS
    <2> HIDE DEF g, u
    <2>3. f \o lote = g
      BY <1>1, <1>3
    <2> QED
      BY <1>1, <1>2, <2>1, <2>2, <2>3 DEF u
  <1>4. CASE \E dep : lote = <<ev, dep>> /\ Muda(dep) /\ Dentro(m, dep)
    <2>1. PICK dep : lote = <<ev, dep>> /\ Muda(dep) /\ Dentro(m, dep)
      BY <1>4
    <2> DEFINE v == Apply(u, dep)
               h == Append(g, dep)
    <2>2. FoldLeft(Apply, e, lote) = v
      <3> DEFINE Dobra(a, p) == FoldLeft(Apply, a, p)
      <3>1. \A a, x, y : Dobra(a, <<x, y>>) = Apply(Apply(a, x), y)
        BY FoldDois
      <3> HIDE DEF Dobra
      <3>2. Dobra(e, <<ev, dep>>) = v
        BY <3>1
      <3> QED
        BY <2>1, <3>2 DEF Dobra
    <2>3. f \o lote = h /\ h \in Seq(Y \cup {ev, dep})
      BY <2>1, Juntar
    <2>4. Len(h) = Len(f) + 2
      BY <1>1
    <2> HIDE DEF g, u
    <2>5. Vivo(v) /\ Passo(m, u, dep, v)
      BY <2>1, Mudanca DEF u
    <2>6. \E z : Historia(m, z, h, v, l)
      BY <1>1, <1>2, <2>5, HistAppend
    <2> HIDE DEF v, h
    <2> QED
      BY <2>2, <2>3, <2>4, <2>5, <2>6
  <1> QED
    BY <1>3, <1>4

(* A handler reads and decides: its batch is of the sort the register      *)
(* allows.                                                                 *)
LEMMA PassoPedir ==
    ASSUME IInv, Hipoteses, Pedir PROVE IInv'
  <1>1. tipo' = tipo /\ estado' = estado /\ fila' = fila /\ linha' = linha /\ movidos' = movidos
    BY DEF Pedir
  <1>2. PICK lote \in Decisoes : pedidos' = Append(pedidos, lote)
    BY DEF Pedir
  <1>3. PICK Z : pedidos \in Seq(Z) /\ Espera(Z)
    BY DEF IInv, PedidosOK
  <1>4. Len(pedidos') = Len(pedidos) + 1
    BY <1>2, <1>3
  <1>5. ContaOK'
    BY <1>1, <1>4 DEF IInv, ContaOK, Pedir, EmCurso, Hipoteses
  <1>6. FilaOK'
    <2>1. PICK Y, s : fila \in Seq(Y) /\ Historia(movidos, s, fila, estado, linha)
      BY DEF IInv, FilaOK
    <2>2. PICK f, e, l, n : f = fila /\ e = estado /\ l = linha /\ n = movidos
      OBVIOUS
    <2>3. Historia(n, s, f, e, l)'
      BY <1>1, <2>1, <2>2, MesmoHist
    <2> QED
      BY <1>1, <2>1, <2>2, <2>3 DEF FilaOK
  <1>7. PedidosOK'
    <2>1. CASE Vivo(estado) /\ \A z \in Z : LoteMuda(z)
      <3>1. LoteMuda(lote)
        BY <2>1, PedeVivo DEF IInv
      <3> DEFINE W == Z \cup {lote}
      <3>2. pedidos' \in Seq(W)
        BY <1>2, <1>3
      <3>3. PICK e : e = estado
        OBVIOUS
      <3>4. Vivo(e)'
        BY <1>1, <2>1, <3>3, MesmoVivo
      <3>5. Vivo(estado)'
        BY <1>1, <3>3, <3>4
      <3>6. ASSUME NEW z \in W PROVE LoteMuda(z)'
        BY <1>1, <2>1, <3>1, <3>6, MesmoLote
      <3> QED
        BY <3>2, <3>5, <3>6 DEF Espera, PedidosOK
    <2>2. CASE /\ estado = Novo(tipo) /\ linha = Novo(tipo) /\ tipo \notin ComIdFixo /\ fila = <<>>
               /\ Len(pedidos) <= 1 /\ \A z \in Z : LoteCria(z)
      <3>1. pedidos = <<>>
        BY <2>2 DEF Pedir
      <3>2. LoteCria(lote)
        BY <2>2, PedeNovo DEF IInv
      <3>3. LoteCria(lote)'
        BY <1>1, <3>2, MesmoLote
      <3>4. pedidos' \in Seq({lote}) /\ Len(pedidos') <= 1
        BY <1>2, <1>4, <3>1
      <3>5. Novo(tipo)' = Novo(tipo)
        BY <1>1
      <3>6. Espera({lote})'
        BY <1>1, <2>2, <3>3, <3>4, <3>5 DEF Espera
      <3> QED
        BY <3>4, <3>6 DEF PedidosOK
    <2> QED
      BY <1>3, <2>1, <2>2 DEF Espera
  <1> QED
    BY <1>1, <1>5, <1>6, <1>7 DEF IInv

(* A batch is saved: the history is extended by its events.                *)
LEMMA PassoGravar ==
    ASSUME IInv, Hipoteses, Gravar PROVE IInv'
  <1>1. tipo' = tipo /\ linha' = linha
    BY DEF Gravar
  <1>2. PICK i \in DOMAIN pedidos :
            /\ estado' = FoldLeft(Apply, estado, pedidos[i])
            /\ fila' = fila \o pedidos[i] /\ pedidos' = RemoveAt(pedidos, i)
            /\ movidos' = movidos \cup {ev.e : ev \in Alheios(pedidos[i])}
    BY DEF Gravar
  <1>3. PICK Z : pedidos \in Seq(Z) /\ Espera(Z)
    BY DEF IInv, PedidosOK
  <1>4. PICK lote : lote = pedidos[i]
    OBVIOUS
  <1>5. /\ pedidos' \in Seq(Z) /\ Len(pedidos') = Len(pedidos) - 1 /\ lote \in Z
        /\ Len(pedidos) \in Nat \ {0}
    BY <1>2, <1>3, <1>4, Retirar
  <1>6. PICK Y, s : fila \in Seq(Y) /\ Historia(movidos, s, fila, estado, linha)
    BY DEF IInv, FilaOK
  <1>7. PICK f, e, l, n : f = fila /\ e = estado /\ l = linha /\ n = movidos'
    OBVIOUS
  <1>a. movidos \subseteq n /\ {x.e : x \in Alheios(lote)} \subseteq n
    BY <1>2, <1>4, <1>7
  <1>b. Historia(n, s, f, e, l)
    BY <1>6, <1>7, <1>a, HistMais
  <1>8. \E ev : /\ Vivo(Apply(e, ev)) /\ Passo(n, e, ev, Apply(e, ev))
                /\ lote = <<ev>> \/ \E dep : lote = <<ev, dep>> /\ Muda(dep) /\ Dentro(n, dep)
    <2>1. CASE Vivo(estado) /\ \A z \in Z : LoteMuda(z)
      <3>1. PICK ev : Muda(ev) /\ (lote = <<ev>> \/ \E dep : lote = <<ev, dep>> /\ Muda(dep))
        BY <1>5, <2>1 DEF LoteMuda
      <3>2. Dentro(n, ev) /\ (lote = <<ev>> \/ \E dep : lote = <<ev, dep>> /\ Muda(dep) /\ Dentro(n, dep))
        BY <1>a, <3>1, DoLote
      <3>3. Vivo(Apply(e, ev)) /\ Passo(n, e, ev, Apply(e, ev))
        BY <1>7, <2>1, <3>1, <3>2, Mudanca DEF IInv
      <3> QED
        BY <3>2, <3>3
    <2>2. CASE estado = Novo(tipo) /\ \A z \in Z : LoteCria(z)
      <3>1. PICK ev : Cria(ev) /\ (lote = <<ev>> \/ \E dep : lote = <<ev, dep>> /\ Muda(dep))
        BY <1>5, <2>2 DEF LoteCria
      <3>2. lote = <<ev>> \/ \E dep : lote = <<ev, dep>> /\ Muda(dep) /\ Dentro(n, dep)
        BY <1>a, <3>1, DoLote
      <3>3. Vivo(Apply(e, ev)) /\ Passo(n, e, ev, Apply(e, ev))
        BY <1>7, <2>2, <3>1, Criacao DEF IInv
      <3> QED
        BY <3>2, <3>3
    <2> QED
      BY <1>3, <2>1, <2>2 DEF Espera
  <1>9. PICK ev : /\ Vivo(Apply(e, ev)) /\ Passo(n, e, ev, Apply(e, ev))
                  /\ lote = <<ev>> \/ \E dep : lote = <<ev, dep>> /\ Muda(dep) /\ Dentro(n, dep)
    BY <1>8
  <1> DEFINE b == FoldLeft(Apply, e, lote)
             g == f \o lote
  <1>10. Vivo(b) /\ (\E W, t : g \in Seq(W) /\ Historia(n, t, g, b, l)) /\ Len(g) \in {Len(f) + 1, Len(f) + 2}
    BY <1>6, <1>7, <1>b, <1>9, Estende DEF IInv
  <1>11. estado' = b /\ fila' = g /\ linha' = l
    BY <1>1, <1>2, <1>4, <1>7
  <1> HIDE DEF b, g
  <1>12. ContaOK'
    <2>1. Len(fila') \in {Len(fila) + 1, Len(fila) + 2}
      BY <1>7, <1>10, <1>11
    <2> QED
      BY <1>5, <2>1 DEF IInv, ContaOK, Hipoteses
  <1>13. FilaOK'
    <2>1. PICK W, t : g \in Seq(W) /\ Historia(n, t, g, b, l)
      BY <1>10
    <2>2. PICK h, c : h = g /\ c = b
      OBVIOUS
    <2>3. Historia(n, t, h, c, l)'
      BY <1>1, <2>1, <2>2, MesmoHist
    <2> QED
      BY <1>7, <1>11, <2>1, <2>2, <2>3 DEF FilaOK
  <1>14. Vivo(estado)'
    <2>1. PICK c : c = b
      OBVIOUS
    <2>2. Vivo(c)'
      BY <1>1, <1>10, <2>1, MesmoVivo
    <2> QED
      BY <1>11, <2>1, <2>2
  <1>15. PedidosOK'
    <2>1. CASE Vivo(estado) /\ \A z \in Z : LoteMuda(z)
      <3>1. ASSUME NEW z \in Z PROVE LoteMuda(z)'
        BY <1>1, <2>1, <3>1, MesmoLote
      <3> QED
        BY <1>5, <1>14, <3>1 DEF Espera, PedidosOK
    <2>2. CASE Len(pedidos) <= 1
      <3>1. Len(pedidos') = 0 /\ pedidos' \in Seq({})
        BY <1>5, <2>2
      <3> QED
        BY <1>14, <3>1 DEF Espera, PedidosOK
    <2> QED
      BY <1>3, <2>1, <2>2 DEF Espera
  <1> QED
    BY <1>1, <1>12, <1>13, <1>15 DEF IInv

(* A handler gives up: there is one batch less.                            *)
LEMMA PassoDesistir ==
    ASSUME IInv, Hipoteses, Desistir PROVE IInv'
  <1>1. tipo' = tipo /\ estado' = estado /\ fila' = fila /\ linha' = linha /\ movidos' = movidos
    BY DEF Desistir
  <1>2. PICK i \in DOMAIN pedidos : pedidos' = RemoveAt(pedidos, i)
    BY DEF Desistir
  <1>3. PICK Z : pedidos \in Seq(Z) /\ Espera(Z)
    BY DEF IInv, PedidosOK
  <1>4. pedidos' \in Seq(Z) /\ Len(pedidos') = Len(pedidos) - 1 /\ Len(pedidos) \in Nat \ {0}
    BY <1>2, <1>3, Retirar
  <1>5. ContaOK'
    BY <1>1, <1>4 DEF IInv, ContaOK, Hipoteses
  <1>6. PICK f, e, l, n : f = fila /\ e = estado /\ l = linha /\ n = movidos
    OBVIOUS
  <1>7. FilaOK'
    <2>1. PICK Y, s : fila \in Seq(Y) /\ Historia(movidos, s, fila, estado, linha)
      BY DEF IInv, FilaOK
    <2>2. Historia(n, s, f, e, l)'
      BY <1>1, <1>6, <2>1, MesmoHist
    <2> QED
      BY <1>1, <1>6, <2>1, <2>2 DEF FilaOK
  <1>8. ASSUME NEW z PROVE (LoteMuda(z)' <=> LoteMuda(z)) /\ (LoteCria(z)' <=> LoteCria(z))
    BY <1>1, MesmoLote
  <1>9. Vivo(estado) => Vivo(estado)'
    <2>1. Vivo(e)' <=> Vivo(e)
      BY <1>1, MesmoVivo
    <2> QED
      BY <1>1, <1>6, <2>1
  <1>10. Novo(tipo)' = Novo(tipo)
    BY <1>1
  <1>11. Len(pedidos) <= 1 => Len(pedidos') <= 1
    BY <1>4
  <1>12. Espera(Z)'
    BY <1>1, <1>3, <1>8, <1>9, <1>10, <1>11 DEF Espera
  <1> QED
    BY <1>1, <1>4, <1>5, <1>7, <1>12 DEF IInv, PedidosOK

(* The projection handles an event, and may lose its checkpoint.           *)
LEMMA PassoProjetar ==
    ASSUME IInv, Hipoteses, Projetar PROVE IInv'
  <1>1. tipo' = tipo /\ estado' = estado /\ pedidos' = pedidos /\ fila # <<>>
        /\ movidos' = movidos
    BY DEF Projetar
  <1>2. PICK Y, s : fila \in Seq(Y) /\ Historia(movidos, s, fila, estado, linha)
    BY DEF IInv, FilaOK
  <1>3. PICK f, e, l, n : f = fila /\ e = estado /\ l = linha /\ n = movidos
    OBVIOUS
  <1>4. /\ \A y \in BOOLEAN : Igual(s[2], Handle(l, Head(f), y), n)
        /\ \A k : Igual(s[2], k, n) => \E t : Historia(n, t, Tail(f), e, k)
    BY <1>1, <1>2, <1>3, HistTail
  <1>7. PICK m : m = linha'
    OBVIOUS
  <1>5. Igual(s[2], m, n) /\ fila' \in {f, Tail(f)}
    BY <1>3, <1>4, <1>7 DEF Projetar
  <1>6. ContaOK'
    <2>1. Len(fila') <= Len(fila) /\ Len(fila') \in Nat
      BY <1>1, <1>2, <1>3, <1>5
    <2> QED
      BY <1>1, <2>1 DEF IInv, ContaOK, Hipoteses
  <1>8. FilaOK'
    <2>1. CASE fila' = f
      <3>1. Historia(n, s, f, e, m)
        BY <1>1, <1>2, <1>3, <1>5 DEF Historia
      <3>2. Historia(n, s, f, e, m)'
        BY <1>1, <3>1, MesmoHist
      <3> QED
        BY <1>1, <1>2, <1>3, <1>5, <1>7, <2>1, <3>2 DEF FilaOK
    <2>2. CASE fila' = Tail(f)
      <3>1. PICK t : Historia(n, t, Tail(f), e, m)
        BY <1>4, <1>5
      <3>2. PICK g : g = Tail(f)
        OBVIOUS
      <3>3. Historia(n, t, g, e, m)'
        BY <1>1, <1>7, <3>1, <3>2, MesmoHist
      <3>4. fila' \in Seq(Y)
        BY <1>1, <1>2, <1>3, <2>2
      <3> QED
        BY <1>1, <1>3, <1>5, <1>7, <2>2, <3>2, <3>3, <3>4 DEF FilaOK
    <2> QED
      BY <1>5, <2>1, <2>2
  <1>9. PICK Z : pedidos \in Seq(Z) /\ Espera(Z)
    BY DEF IInv, PedidosOK
  <1>10. Vivo(estado) /\ \A z \in Z : LoteMuda(z)
    BY <1>1, <1>9 DEF Espera
  <1>11. ASSUME NEW z \in Z PROVE LoteMuda(z)'
    BY <1>1, <1>10, <1>11, MesmoLote
  <1>12. Vivo(estado)'
    <2>1. Vivo(e)'
      BY <1>1, <1>3, <1>10, MesmoVivo
    <2> QED
      BY <1>1, <1>3, <2>1
  <1> QED
    BY <1>1, <1>6, <1>8, <1>9, <1>11, <1>12 DEF IInv, Espera, PedidosOK

(* Every step keeps the invariant.                                         *)
LEMMA InvNext == ASSUME Hipoteses PROVE IInv /\ [Next]_cadastroVars => IInv'
  <1> SUFFICES ASSUME IInv, [Next]_cadastroVars PROVE IInv'
    OBVIOUS
  <1>1. CASE UNCHANGED cadastroVars
    <2>1. tipo' = tipo /\ estado' = estado /\ fila' = fila /\ linha' = linha /\ pedidos' = pedidos
          /\ movidos' = movidos
      BY <1>1 DEF cadastroVars
    <2>2. PICK f, e, l, n : f = fila /\ e = estado /\ l = linha /\ n = movidos
      OBVIOUS
    <2>3. FilaOK'
      <3>1. PICK Y, s : fila \in Seq(Y) /\ Historia(movidos, s, fila, estado, linha)
        BY DEF IInv, FilaOK
      <3>2. Historia(n, s, f, e, l)'
        BY <2>1, <2>2, <3>1, MesmoHist
      <3> QED
        BY <2>1, <2>2, <3>1, <3>2 DEF FilaOK
    <2>4. PICK Z : pedidos \in Seq(Z) /\ Espera(Z)
      BY DEF IInv, PedidosOK
    <2>5. ASSUME NEW z PROVE (LoteMuda(z)' <=> LoteMuda(z)) /\ (LoteCria(z)' <=> LoteCria(z))
      BY <2>1, MesmoLote
    <2>6. Vivo(estado) => Vivo(estado)'
      <3>1. Vivo(e)' <=> Vivo(e)
        BY <2>1, MesmoVivo
      <3> QED
        BY <2>1, <2>2, <3>1
    <2>7. Novo(tipo)' = Novo(tipo)
      BY <2>1
    <2>8. Espera(Z)'
      BY <2>1, <2>4, <2>5, <2>6, <2>7 DEF Espera
    <2>9. ContaOK'
      BY <2>1 DEF IInv, ContaOK
    <2> QED
      BY <2>1, <2>3, <2>4, <2>8, <2>9 DEF IInv, PedidosOK
  <1> QED
    BY <1>1, PassoPedir, PassoGravar, PassoDesistir, PassoProjetar DEF Next

(* The invariant gives the agreement of rows and aggregates, and the       *)
(* bound.                                                                  *)
LEMMA IInvImplies == ASSUME Hipoteses PROVE IInv => RowsAgree /\ TypeOK
  <1> SUFFICES ASSUME IInv PROVE RowsAgree /\ TypeOK
    OBVIOUS
  <1>1. PICK Y, s : fila \in Seq(Y) /\ Historia(movidos, s, fila, estado, linha)
    BY DEF IInv, FilaOK
  <1>2. DOMAIN linha = DOMAIN estado
    <2>1. Len(fila) \in Nat /\ (fila # <<>> => Len(fila) # 0)
      BY <1>1
    <2> QED
      BY <1>1, <2>1, HistCampos
  <1>3. RowsAgree
    <2>1. fila = <<>> => Len(fila) + 1 = 1
      OBVIOUS
    <2> QED
      BY <1>1, <2>1 DEF Historia, RowsAgree
  <1>4. EmCurso <= 2 * MaxEmCurso
    BY DEF IInv, ContaOK, EmCurso, Hipoteses
  <1> QED
    BY <1>2, <1>3, <1>4 DEF TypeOK, IInv
=============================================================================
