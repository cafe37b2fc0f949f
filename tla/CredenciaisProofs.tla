--------------------------- MODULE CredenciaisProofs ---------------------------
(***************************************************************************)
(* Why a pending charge always finds the credentials it was made with, for *)
(* any number of credentials, payments and requests that crash or meet a   *)
(* fault.  The parts of the state are parameters of the definitions: L is  *)
(* the ledger, r the rows shown, a the archived snapshots.                 *)
(***************************************************************************)
EXTENDS Credenciais, WellFoundedInduction, TLAPS

(* What the proofs ask of the constants.                                    *)
Hipoteses == Nil \notin Credentials /\ MaxCalls \in Nat

-----------------------------------------------------------------------------
EventosCredencial ==
    [tipo : {"Configuradas", "Rotacionado", "Removidas", "Purgadas"}, id : Credentials,
     arquivada : BOOLEAN]
PassosCredencial ==
    {"idle", "record", "apply", "secrets", "wipe", "list", "purge", "charge", "created"}
Chamadas ==
    [pc : PassosCredencial,
     op : {Nil, "configurar", "rotacionar", "remover", "cobrar", "encerrar"},
     event : [tipo : {Nil, "Configuradas", "Rotacionado", "Removidas", "Purgadas"},
              id : Credentials \cup {Nil}, arquivada : BOOLEAN],
     next : {"idle", "secrets", "list", "wipe"}, keys : SUBSET Complete,
     left : SUBSET (Credentials \cup Payments)]
Chamada(pc, op, event, next, keys, left) ==
    [pc |-> pc, op |-> op, event |-> event, next |-> next, keys |-> keys, left |-> left]

Removida(id, L) == \E i \in DOMAIN L : L[i].tipo = "Removidas" /\ L[i].id = id
Purgada(id, L) == \E i \in DOMAIN L : L[i].tipo = "Purgadas" /\ L[i].id = id
Ultrapassada(L) ==
    \E i, k \in DOMAIN L : /\ i < k /\ L[i].id = L[k].id
                           /\ L[i].tipo = "Removidas" /\ L[k].tipo # "Purgadas"

\* What a request is about to record or has recorded.
Apaga(e) == e.tipo = "Purgadas" \/ (e.tipo = "Removidas" /\ ~e.arquivada)
ChamadaOK(s, L) ==
    /\ s \in Chamadas
    /\ s.pc \in {"record", "apply"} =>
          /\ s.event \in EventosCredencial /\ s.next # "idle"
          /\ s.next = "secrets" => s.event.tipo \in {"Configuradas", "Rotacionado"}
          /\ s.next = "list" => s.event.tipo = "Removidas" /\ s.event.arquivada
          /\ s.next = "wipe" => Apaga(s.event)
    /\ s.pc = "wipe" => s.event \in EventosCredencial /\ Apaga(s.event)
    /\ s.pc \in {"secrets", "charge"} => s.event.id \in Credentials
    /\ s.pc \in {"apply", "wipe"} => \E i \in DOMAIN L : L[i] = s.event
    /\ s.event.tipo = "Removidas" => s.op = "remover"
    /\ s.event.tipo = "Purgadas" => Removida(s.event.id, L)
    /\ s.pc \in {"record", "apply", "wipe", "purge"} => \A id \in s.left : Removida(id, L)

\* What a request has seen in the read model is so still, until a removal is recorded.
VistaOK(s, L, r, w) ==
    /\ s.pc \in {"record", "apply", "secrets"} /\ s.keys = {"campos"} /\ ~Removida(s.event.id, L)
          => "webhook" \in w[s.event.id]
    /\ s.pc = "charge" /\ ~Removida(s.event.id, L) =>
          r = s.event.id /\ Complete \subseteq w[s.event.id]
    /\ s.pc = "record" /\ s.event.tipo = "Removidas" /\ ~Removida(s.event.id, L) =>
          r = s.event.id

LogCredencialOK(L) ==
    /\ L \in Seq(EventosCredencial)
    /\ \A k \in DOMAIN L : L[k].tipo = "Purgadas" =>
          \E i \in DOMAIN L : i < k /\ L[i].tipo = "Removidas" /\ L[i].id = L[k].id
LinhaCredencialOK(r, X, L) ==
    /\ r \in Credentials \cup {Nil} /\ X \subseteq Credentials
    /\ \A id \in X : Removida(id, L)
PagamentosOK(G, y) ==
    /\ G \in [Payments -> [st : {"none", "open", "closed"}, cred : Credentials \cup {Nil}]]
    /\ \A c \in Payments : c \in y => G[c].st # "none"
TiposCredencial(L, r, X, w, G, n, y) ==
    /\ LogCredencialOK(L) /\ LinhaCredencialOK(r, X, L) /\ PagamentosOK(G, y)
    /\ w \in [Credentials -> SUBSET Complete] /\ n \in Nat /\ n <= Len(L)
ChamadasOK(Z, L) == Z \in [Callers -> Chamadas] /\ \A h \in Callers : ChamadaOK(Z[h], L)

SegredosOK(Z, L, r, w) ==
    /\ \A h \in Callers : VistaOK(Z[h], L, r, w)
    /\ \A id \in Credentials : ~Removida(id, L) /\ "campos" \in w[id] => "webhook" \in w[id]

\* A charge that was recorded in time: what removes its credentials keeps them.
EmDia(c, G, u) == G[c].st = "open" /\ c \notin u
Guarda(e, id) == e.id = id => e.tipo # "Purgadas" /\ (e.tipo = "Removidas" => e.arquivada)
CobrancaOK(id, L, r, X, w, Z) ==
    /\ id \in Credentials /\ (id = r \/ id \in X) /\ Complete \subseteq w[id]
    /\ \A i \in DOMAIN L : Guarda(L[i], id)
    /\ \A h \in Callers : Guarda(Z[h].event, id)
CobrancasOK(L, r, X, w, G, Z, u) ==
    \A c \in Payments : EmDia(c, G, u) => CobrancaOK(G[c].cred, L, r, X, w, Z)

\* A snapshot that no charge needs is about to go.
Precisa(id, G, y) == \E c \in Payments : G[c].cred = id /\ (G[c].st = "open" \/ c \in y)
Vai(s, id) ==
    \/ s.pc = "apply" /\ s.next = "list"
    \/ s.pc = "list"
    \/ s.pc \in {"purge", "wipe"} /\ id \in s.left
    \/ s.pc \in {"record", "apply"} /\ s.next = "wipe" /\ id \in s.left
    \/ s.pc = "record" /\ s.event.tipo = "Purgadas" /\ s.event.id = id
SairaOK(id, L, X, G, Z, y) ==
    id \in X /\ ~Purgada(id, L) => Precisa(id, G, y) \/ \E h \in Callers : Vai(Z[h], id)
PurgaVem(id, L, X, n) ==
    id \in X /\ Purgada(id, L) =>
        \E k \in DOMAIN L : k > n /\ L[k].tipo = "Purgadas" /\ L[k].id = id
RemocaoOK(e, L, r, X, Z) ==
    /\ r = e.id \/ e.id \in X \/ Purgada(e.id, L)
    /\ e.id \in X \/ Purgada(e.id, L) \/ \E h \in Callers : Z[h].pc = "apply" /\ Z[h].event = e
ArquivosOK(L, r, X, G, n, Z, y) ==
    /\ \A id \in Credentials : SairaOK(id, L, X, G, Z, y) /\ PurgaVem(id, L, X, n)
    /\ \A i \in DOMAIN L : L[i].tipo = "Removidas" /\ L[i].arquivada => RemocaoOK(L[i], L, r, X, Z)

\* A request spares what the pending charges need, and goes on with the snapshots.
Poupa(s, G, u) == \A c \in Payments : EmDia(c, G, u) => Guarda(s.event, G[c].cred)
Segue(a, s, L, X, G, y, G2, y2) ==
    \A id \in X : ~Purgada(id, L) /\ (Precisa(id, G, y) \/ Vai(a, id))
                      => Precisa(id, G2, y2) \/ Vai(s, id)
\* A removal that is recorded shows before its request goes on.
Mostrada(a, L, X) ==
    a.pc = "apply" /\ a.event.tipo = "Removidas" /\ a.event.arquivada
        => a.event.id \in X \/ Purgada(a.event.id, L)

ICred(L, r, X, w, G, n, Z, f, u, y) ==
    /\ TiposCredencial(L, r, X, w, G, n, y) /\ ChamadasOK(Z, L)
    /\ f = {} => /\ SegredosOK(Z, L, r, w) /\ CobrancasOK(L, r, X, w, G, Z, u)
                 /\ ~Ultrapassada(L) => ArquivosOK(L, r, X, G, n, Z, y)
IInv ==
    ICred(events, row, archived, vault, payment, position, caller, faults, raced, synced)

(* A request of which one field is changed.                                 *)
LEMMA ComPc ==
    ASSUME NEW p, NEW o, NEW e, NEW n, NEW y, NEW d, NEW v
    PROVE  [Chamada(p, o, e, n, y, d) EXCEPT !.pc = v] = Chamada(v, o, e, n, y, d)
  BY DEF Chamada

(* Likewise. *)
LEMMA ComOp ==
    ASSUME NEW p, NEW o, NEW e, NEW n, NEW y, NEW d, NEW v
    PROVE  [Chamada(p, o, e, n, y, d) EXCEPT !.op = v] = Chamada(p, v, e, n, y, d)
  BY DEF Chamada

(* Likewise. *)
LEMMA ComEvent ==
    ASSUME NEW p, NEW o, NEW e, NEW n, NEW y, NEW d, NEW v
    PROVE  [Chamada(p, o, e, n, y, d) EXCEPT !.event = v] = Chamada(p, o, v, n, y, d)
  BY DEF Chamada

(* Likewise. *)
LEMMA ComNext ==
    ASSUME NEW p, NEW o, NEW e, NEW n, NEW y, NEW d, NEW v
    PROVE  [Chamada(p, o, e, n, y, d) EXCEPT !.next = v] = Chamada(p, o, e, v, y, d)
  BY DEF Chamada

(* Likewise. *)
LEMMA ComKeys ==
    ASSUME NEW p, NEW o, NEW e, NEW n, NEW y, NEW d, NEW v
    PROVE  [Chamada(p, o, e, n, y, d) EXCEPT !.keys = v] = Chamada(p, o, e, n, v, d)
  BY DEF Chamada

(* Likewise. *)
LEMMA ComLeft ==
    ASSUME NEW p, NEW o, NEW e, NEW n, NEW y, NEW d, NEW v
    PROVE  [Chamada(p, o, e, n, y, d) EXCEPT !.left = v] = Chamada(p, o, e, n, y, v)
  BY DEF Chamada

(* The first state of a request that has got its data.                      *)
LEMMA ComecaFacts ==
    ASSUME NEW p, NEW o, NEW e, NEW n
    PROVE  /\ [Rest EXCEPT !.pc = p, !.op = o] = Chamada(p, o, Rest.event, "idle", {}, {})
           /\ [Rest EXCEPT !.pc = p, !.op = o, !.event = e] = Chamada(p, o, e, "idle", {}, {})
           /\ Recording(o, e, n) = Chamada("record", o, e, n, {}, {})
  <1>1. PICK g : g = Rest.event
    OBVIOUS
  <1>2. PICK z : z = Rest
    OBVIOUS
  <1>3. z = Chamada("idle", Nil, g, "idle", {}, {})
    BY <1>1, <1>2 DEF Rest, Chamada
  <1>4. ASSUME NEW q
        PROVE  /\ [Rest EXCEPT !.pc = q, !.op = o] = Chamada(q, o, g, "idle", {}, {})
               /\ [Rest EXCEPT !.pc = q, !.op = o, !.event = e] = Chamada(q, o, e, "idle", {}, {})
               /\ [Rest EXCEPT !.pc = q, !.op = o, !.event = e, !.next = n] =
                     Chamada(q, o, e, n, {}, {})
    <2>1. PICK a : a = [z EXCEPT !.pc = q]
      OBVIOUS
    <2>2. a = Chamada(q, Nil, g, "idle", {}, {})
      BY <1>3, <2>1, ComPc
    <2>3. PICK b : b = [a EXCEPT !.op = o]
      OBVIOUS
    <2>4. b = Chamada(q, o, g, "idle", {}, {})
      BY <2>2, <2>3, ComOp
    <2>5. PICK x : x = [b EXCEPT !.event = e]
      OBVIOUS
    <2>6. x = Chamada(q, o, e, "idle", {}, {})
      BY <2>4, <2>5, ComEvent
    <2>7. [x EXCEPT !.next = n] = Chamada(q, o, e, n, {}, {})
      BY <2>6, ComNext
    <2> QED
      BY <1>2, <2>1, <2>3, <2>4, <2>5, <2>6, <2>7
  <1>5. Recording(o, e, n) = [Rest EXCEPT !.pc = "record", !.op = o, !.event = e, !.next = n]
    BY DEF Recording
  <1> QED
    BY <1>1, <1>4, <1>5

(* A request goes on to another state and leaves the log, the read model    *)
(* and the vault alone: the others see no difference.                       *)
LEMMA ChamadaMuda ==
    ASSUME NEW L, NEW r, NEW X, NEW w, NEW G, NEW n, NEW Z, NEW f, NEW u, NEW y,
           NEW h \in Callers, NEW s, NEW b, NEW G2, NEW u2, NEW y2,
           ICred(L, r, X, w, G, n, Z, f, u, y),
           b = [Z EXCEPT ![h] = s], PagamentosOK(G2, y2), ChamadaOK(s, L),
           f = {} => VistaOK(s, L, r, w),
           f = {} => CobrancasOK(L, r, X, w, G2, Z, u2) /\ Poupa(s, G2, u2),
           f = {} /\ ~Ultrapassada(L) => Segue(Z[h], s, L, X, G, y, G2, y2) /\ Mostrada(Z[h], L, X)
    PROVE  ICred(L, r, X, w, G2, n, b, f, u2, y2)
  <1>1. TiposCredencial(L, r, X, w, G2, n, y2)
    BY DEF ICred, TiposCredencial
  <1>2. Z \in [Callers -> Chamadas] /\ s \in Chamadas
    BY DEF ICred, ChamadasOK, ChamadaOK
  <1>3. b \in [Callers -> Chamadas] /\ b[h] = s /\ \A g \in Callers : g # h => b[g] = Z[g]
    BY <1>2
  <1>4. ChamadasOK(b, L)
    <2>1. ASSUME NEW g \in Callers PROVE ChamadaOK(b[g], L)
      BY <1>3 DEF ICred, ChamadasOK
    <2> QED
      BY <1>3, <2>1 DEF ChamadasOK
  <1>5. ASSUME f = {} PROVE SegredosOK(b, L, r, w)
    <2>1. ASSUME NEW g \in Callers PROVE VistaOK(b[g], L, r, w)
      BY <1>3, <1>5 DEF ICred, SegredosOK
    <2> QED
      BY <1>5, <2>1 DEF ICred, SegredosOK
  <1>6. ASSUME f = {} PROVE CobrancasOK(L, r, X, w, G2, b, u2)
    <2>1. ASSUME NEW c \in Payments, EmDia(c, G2, u2)
          PROVE  CobrancaOK(G2[c].cred, L, r, X, w, b)
      <3>1. CobrancaOK(G2[c].cred, L, r, X, w, Z) /\ Guarda(s.event, G2[c].cred)
        BY <1>6, <2>1 DEF CobrancasOK, Poupa
      <3>2. PICK id : id = G2[c].cred
        OBVIOUS
      <3>3. ASSUME NEW g \in Callers PROVE Guarda(b[g].event, id)
        <4>1. CASE g = h
          BY <1>3, <3>1, <3>2, <4>1
        <4>2. CASE g # h
          BY <1>3, <3>1, <3>2, <4>2 DEF CobrancaOK
        <4> QED
          BY <4>1, <4>2
      <3> QED
        BY <3>1, <3>2, <3>3 DEF CobrancaOK
    <2> QED
      BY <2>1 DEF CobrancasOK
  <1>7. ASSUME f = {}, ~Ultrapassada(L) PROVE ArquivosOK(L, r, X, G2, n, b, y2)
    <2>1. ArquivosOK(L, r, X, G, n, Z, y)
      BY <1>7 DEF ICred
    <2>2. ASSUME NEW id \in Credentials PROVE SairaOK(id, L, X, G2, b, y2) /\ PurgaVem(id, L, X, n)
      <3>1. SairaOK(id, L, X, G, Z, y) /\ PurgaVem(id, L, X, n)
        BY <2>1 DEF ArquivosOK
      <3>2. ASSUME id \in X, ~Purgada(id, L)
            PROVE  Precisa(id, G2, y2) \/ \E g \in Callers : Vai(b[g], id)
        <4>1. Precisa(id, G, y) \/ \E g \in Callers : Vai(Z[g], id)
          BY <3>1, <3>2 DEF SairaOK
        <4>2. CASE Precisa(id, G, y) \/ Vai(Z[h], id)
          BY <1>3, <1>7, <3>2, <4>2 DEF Segue
        <4>3. ASSUME NEW g \in Callers, Vai(Z[g], id), g # h
              PROVE  Vai(b[g], id)
          BY <1>3, <4>3
        <4> QED
          BY <4>1, <4>2, <4>3
      <3> QED
        BY <3>1, <3>2 DEF SairaOK
    <2>3. ASSUME NEW i \in DOMAIN L, L[i].tipo = "Removidas", L[i].arquivada
          PROVE  RemocaoOK(L[i], L, r, X, b)
      <3>1. PICK e : e = L[i]
        OBVIOUS
      <3>2. RemocaoOK(e, L, r, X, Z)
        BY <2>1, <2>3, <3>1 DEF ArquivosOK
      <3>3. ASSUME NEW g \in Callers, Z[g].pc = "apply", Z[g].event = e, g # h
            PROVE  b[g].pc = "apply" /\ b[g].event = e
        BY <1>3, <3>3
      <3>5. ASSUME Z[h].pc = "apply", Z[h].event = e PROVE e.id \in X \/ Purgada(e.id, L)
        BY <1>7, <2>3, <3>1, <3>5 DEF Mostrada
      <3>4. RemocaoOK(e, L, r, X, b)
        BY <3>2, <3>3, <3>5 DEF RemocaoOK
      <3> QED
        BY <3>1, <3>4
    <2> QED
      BY <2>2, <2>3 DEF ArquivosOK
  <1> QED
    BY <1>1, <1>4, <1>5, <1>6, <1>7 DEF ICred

(* Likewise, of a request that had recorded nothing.                        *)
LEMMA ChamadaQuieta ==
    ASSUME NEW L, NEW r, NEW X, NEW w, NEW G, NEW n, NEW Z, NEW f, NEW u, NEW y,
           NEW h \in Callers, NEW s, NEW b, NEW G2, NEW u2, NEW y2,
           ICred(L, r, X, w, G, n, Z, f, u, y),
           b = [Z EXCEPT ![h] = s], PagamentosOK(G2, y2), ChamadaOK(s, L), Z[h].pc # "apply",
           f = {} => VistaOK(s, L, r, w),
           f = {} => CobrancasOK(L, r, X, w, G2, Z, u2) /\ Poupa(s, G2, u2),
           Segue(Z[h], s, L, X, G, y, G2, y2)
    PROVE  ICred(L, r, X, w, G2, n, b, f, u2, y2)
  <1>1. Mostrada(Z[h], L, X)
    BY DEF Mostrada
  <1> QED
    BY <1>1, ChamadaMuda

(* A request by its fields, and what they may be.                           *)
LEMMA ChamadaFacts ==
    ASSUME NEW p, NEW o, NEW e, NEW x, NEW k, NEW d, NEW s, s = Chamada(p, o, e, x, k, d)
    PROVE  /\ s.pc = p /\ s.op = o /\ s.event = e /\ s.next = x /\ s.keys = k /\ s.left = d
           /\ s \in Chamadas <=>
                 /\ p \in PassosCredencial
                 /\ o \in {Nil, "configurar", "rotacionar", "remover", "cobrar", "encerrar"}
                 /\ e \in [tipo : {Nil, "Configuradas", "Rotacionado", "Removidas", "Purgadas"},
                           id : Credentials \cup {Nil}, arquivada : BOOLEAN]
                 /\ x \in {"idle", "secrets", "list", "wipe"} /\ k \in SUBSET Complete
                 /\ d \in SUBSET (Credentials \cup Payments)
  BY DEF Chamada, Chamadas

(* Every request is one of these.                                           *)
LEMMA ChamadaPartes ==
    ASSUME NEW s \in Chamadas
    PROVE  s = Chamada(s.pc, s.op, s.event, s.next, s.keys, s.left)
  BY DEF Chamada, Chamadas

(* An event by its fields.                                                  *)
LEMMA EventoFacts ==
    ASSUME NEW t, NEW id, NEW v \in BOOLEAN, NEW e, e = Event(t, id, v)
    PROVE  e.tipo = t /\ e.id = id /\ e.arquivada = v
           /\ (t \in {"Configuradas", "Rotacionado", "Removidas", "Purgadas"} /\ id \in Credentials
                 => e \in EventosCredencial)
           /\ (t \in {Nil, "Configuradas", "Rotacionado", "Removidas", "Purgadas"}
               /\ id \in Credentials \cup {Nil} =>
                 e \in [tipo : {Nil, "Configuradas", "Rotacionado", "Removidas", "Purgadas"},
                        id : Credentials \cup {Nil}, arquivada : BOOLEAN])
  BY DEF Event, EventosCredencial

(* A request at rest has nothing to record.                                 *)
LEMMA DescansoFacts ==
    ASSUME NEW L
    PROVE  /\ Rest.event.tipo = Nil /\ Rest.event.id = Nil
           /\ Rest \in Chamadas /\ ChamadaOK(Rest, L)
           /\ Rest.pc = "idle"
  <1> DEFINE false == FALSE
             vazio == Event(Nil, Nil, false)
  <1>1. false \in BOOLEAN
    OBVIOUS
  <1>2. Rest = Chamada("idle", Nil, vazio, "idle", {}, {})
    BY DEF Rest, Chamada, Event
  <1> HIDE DEF false
  <1>3. PICK e : e = vazio
    OBVIOUS
  <1>4. /\ e.tipo = Nil /\ e.id = Nil
        /\ e \in [tipo : {Nil, "Configuradas", "Rotacionado", "Removidas", "Purgadas"},
                  id : Credentials \cup {Nil}, arquivada : BOOLEAN]
    BY <1>1, <1>3, EventoFacts
  <1>5. PICK s : s = Rest
    OBVIOUS
  <1>6. s = Chamada("idle", Nil, e, "idle", {}, {})
    BY <1>2, <1>3, <1>5
  <1>7. s.pc = "idle" /\ s.event = e /\ s.left = {} /\ s \in Chamadas
    BY <1>4, <1>6, ChamadaFacts DEF PassosCredencial
  <1>8. ChamadaOK(s, L)
    BY <1>4, <1>7 DEF ChamadaOK, Nil
  <1> QED
    BY <1>4, <1>5, <1>7, <1>8

(* Likewise, of the state.                                                  *)
LEMMA QuietaInv ==
    ASSUME IInv, NEW h \in Callers, NEW s, caller' = [caller EXCEPT ![h] = s],
           UNCHANGED <<events, row, archived, vault, payment, position, faults, raced, synced>>,
           ChamadaOK(s, events), caller[h].pc # "apply",
           faults = {} => VistaOK(s, events, row, vault),
           faults = {} => Poupa(s, payment, raced),
           Segue(caller[h], s, events, archived, payment, synced, payment, synced)
    PROVE  IInv'
  <1>1. ICred(events, row, archived, vault, payment, position, caller, faults, raced, synced)
    BY DEF IInv
  <1>2. PagamentosOK(payment, synced)
    BY <1>1 DEF ICred, TiposCredencial
  <1>3. faults = {} => CobrancasOK(events, row, archived, vault, payment, caller, raced)
    BY <1>1 DEF ICred
  <1>4. PICK b : b = caller'
    OBVIOUS
  <1>5. b = [caller EXCEPT ![h] = s]
    BY <1>4
  <1>6. ICred(events, row, archived, vault, payment, position, b, faults, raced, synced)
    BY <1>1, <1>2, <1>3, <1>5, ChamadaQuieta
  <1>7. ICred(events', row', archived', vault', payment', position', caller', faults', raced', synced')
    BY <1>4, <1>6
  <1> QED
    BY <1>7 DEF IInv

(* What a request at rest leaves behind.                                    *)
LEMMA NadaPerde ==
    ASSUME NEW a, a.pc \in {"idle", "secrets", "charge", "created"},
           NEW s, NEW L, NEW X, NEW G, NEW y, NEW G2, NEW y2,
           \A id \in X : Precisa(id, G, y) => Precisa(id, G2, y2)
    PROVE  Segue(a, s, L, X, G, y, G2, y2)
  BY DEF Segue, Vai

(* Requests begin.                                                          *)
LEMMA ConfiguraInv ==
    ASSUME IInv, Nil \notin Credentials, NEW h \in Callers, ConfigureCredential(h)
    PROVE  IInv'
  <1> DEFINE false == FALSE
  <1>1. false \in BOOLEAN
    OBVIOUS
  <1>2. PICK id, k : /\ id \in IF row # Nil THEN {row} ELSE Unused
                     /\ k = (IF "webhook" \in vault[id] THEN {"campos"} ELSE Complete)
                     /\ caller' = [caller EXCEPT ![h] =
                           [Recording("configurar", Event("Configuradas", id, false), "secrets")
                              EXCEPT !.keys = k]]
    BY DEF ConfigureCredential, Set
  <1> HIDE DEF false
  <1>3. row \in Credentials \cup {Nil}
    BY DEF IInv, ICred, TiposCredencial, LinhaCredencialOK
  <1>4. id \in Credentials
    BY <1>2, <1>3 DEF Unused
  <1>5. PICK e : e = Event("Configuradas", id, false)
    OBVIOUS
  <1>6. /\ e.tipo = "Configuradas" /\ e.id = id /\ e \in EventosCredencial
        /\ e \in [tipo : {Nil, "Configuradas", "Rotacionado", "Removidas", "Purgadas"},
                  id : Credentials \cup {Nil}, arquivada : BOOLEAN]
    BY <1>1, <1>4, <1>5, EventoFacts
  <1>7. PICK z : z = Recording("configurar", e, "secrets")
    OBVIOUS
  <1>8. z = Chamada("record", "configurar", e, "secrets", {}, {})
    BY <1>7, ComecaFacts
  <1>9. PICK s : s = [z EXCEPT !.keys = k]
    OBVIOUS
  <1>10. s = Chamada("record", "configurar", e, "secrets", k, {})
    BY <1>8, <1>9, ComKeys
  <1>11. k \in SUBSET Complete
    BY <1>2 DEF Complete
  <1>12. /\ s.pc = "record" /\ s.event = e /\ s.next = "secrets" /\ s.keys = k /\ s.left = {}
         /\ s \in Chamadas
    BY <1>6, <1>10, <1>11, ChamadaFacts DEF PassosCredencial
  <1>13. ChamadaOK(s, events)
    BY <1>6, <1>12 DEF ChamadaOK
  <1>14. VistaOK(s, events, row, vault)
    <2>1. k = {"campos"} => "webhook" \in vault[id]
      BY <1>2 DEF Complete
    <2> QED
      BY <1>6, <1>12, <2>1 DEF VistaOK
  <1>15. caller[h].pc = "idle" /\ UNCHANGED <<events, row, archived, vault, payment, position, faults, raced, synced>>
    BY DEF ConfigureCredential, Call, Unread, rowVars
  <1>16. Segue(caller[h], s, events, archived, payment, synced, payment, synced)
    BY <1>15, NadaPerde
  <1>17. Poupa(s, payment, raced)
    BY <1>6, <1>12 DEF Poupa, Guarda
  <1>18. caller' = [caller EXCEPT ![h] = s]
    BY <1>2, <1>5, <1>7, <1>9
  <1> QED
    BY <1>13, <1>14, <1>15, <1>16, <1>17, <1>18, QuietaInv

(* Likewise. *)
LEMMA RotacionaInv ==
    ASSUME IInv, Nil \notin Credentials, NEW h \in Callers, RotateWebhookSecret(h)
    PROVE  IInv'
  <1> DEFINE false == FALSE
  <1>1. false \in BOOLEAN
    OBVIOUS
  <1>4. PICK k : k = {"webhook"}
    OBVIOUS
  <1>2. caller' = [caller EXCEPT ![h] =
           [Recording("rotacionar", Event("Rotacionado", row, false), "secrets")
              EXCEPT !.keys = k]]
    BY <1>4 DEF RotateWebhookSecret, Set
  <1> HIDE DEF false
  <1>3. row \in Credentials
    BY DEF IInv, ICred, TiposCredencial, LinhaCredencialOK, RotateWebhookSecret
  <1>5. PICK e : e = Event("Rotacionado", row, false)
    OBVIOUS
  <1>6. /\ e.tipo = "Rotacionado" /\ e.id = row /\ e \in EventosCredencial
        /\ e \in [tipo : {Nil, "Configuradas", "Rotacionado", "Removidas", "Purgadas"},
                  id : Credentials \cup {Nil}, arquivada : BOOLEAN]
    BY <1>1, <1>3, <1>5, EventoFacts
  <1>7. PICK z : z = Recording("rotacionar", e, "secrets")
    OBVIOUS
  <1>8. z = Chamada("record", "rotacionar", e, "secrets", {}, {})
    BY <1>7, ComecaFacts
  <1>9. PICK s : s = [z EXCEPT !.keys = k]
    OBVIOUS
  <1>10. s = Chamada("record", "rotacionar", e, "secrets", k, {})
    BY <1>8, <1>9, ComKeys
  <1>11. k \in SUBSET Complete
    BY <1>4 DEF Complete
  <1>12. /\ s.pc = "record" /\ s.event = e /\ s.next = "secrets" /\ s.keys = k /\ s.left = {}
         /\ s \in Chamadas
    BY <1>6, <1>10, <1>11, ChamadaFacts DEF PassosCredencial
  <1>13. ChamadaOK(s, events)
    BY <1>6, <1>12 DEF ChamadaOK
  <1>14. VistaOK(s, events, row, vault)
    <2>1. k # {"campos"}
      BY <1>4
    <2> QED
      BY <1>6, <1>12, <2>1 DEF VistaOK
  <1>15. caller[h].pc = "idle" /\ UNCHANGED <<events, row, archived, vault, payment, position, faults, raced, synced>>
    BY DEF RotateWebhookSecret, Call, Unread, rowVars
  <1>16. Segue(caller[h], s, events, archived, payment, synced, payment, synced)
    BY <1>15, NadaPerde
  <1>17. Poupa(s, payment, raced)
    BY <1>6, <1>12 DEF Poupa, Guarda
  <1>18. caller' = [caller EXCEPT ![h] = s]
    BY <1>2, <1>5, <1>7, <1>9
  <1> QED
    BY <1>13, <1>14, <1>15, <1>16, <1>17, <1>18, QuietaInv

(* A removal keeps the credentials while a charge is pending.               *)
LEMMA RemoveInv ==
    ASSUME IInv, Nil \notin Credentials, NEW h \in Callers, RemoveCredential(h)
    PROVE  IInv'
  <1>1. PICK v \in BOOLEAN : v <=> CobrancasPendentes # {}
    OBVIOUS
  <1>2. PICK x : x = (IF v THEN "list" ELSE "wipe")
    OBVIOUS
  <1>3. row \in Credentials
    BY DEF IInv, ICred, TiposCredencial, LinhaCredencialOK, RemoveCredential
  <1>5. PICK e : e = Event("Removidas", row, v)
    OBVIOUS
  <1>6. /\ e.tipo = "Removidas" /\ e.id = row /\ e.arquivada = v /\ e \in EventosCredencial
        /\ e \in [tipo : {Nil, "Configuradas", "Rotacionado", "Removidas", "Purgadas"},
                  id : Credentials \cup {Nil}, arquivada : BOOLEAN]
    BY <1>3, <1>5, EventoFacts
  <1>7. PICK s : s = Recording("remover", e, x)
    OBVIOUS
  <1>4. caller' = [caller EXCEPT ![h] = s]
    <2>1. (CobrancasPendentes # {}) = v
      BY <1>1
    <2> QED
      BY <1>2, <1>5, <1>7, <2>1 DEF RemoveCredential, Set
  <1>8. s = Chamada("record", "remover", e, x, {}, {})
    BY <1>7, ComecaFacts
  <1>12. /\ s.pc = "record" /\ s.op = "remover" /\ s.event = e /\ s.next = x /\ s.keys = {} /\ s.left = {}
         /\ s \in Chamadas
    BY <1>2, <1>6, <1>8, ChamadaFacts DEF PassosCredencial
  <1>13. ChamadaOK(s, events)
    BY <1>2, <1>6, <1>12 DEF ChamadaOK, Apaga
  <1>14. VistaOK(s, events, row, vault)
    <2>1. {} # {"campos"}
      OBVIOUS
    <2> QED
      BY <1>6, <1>12, <2>1 DEF VistaOK
  <1>15. caller[h].pc = "idle" /\ UNCHANGED <<events, row, archived, vault, payment, position, faults, raced, synced>>
    BY DEF RemoveCredential, Call, Unread, rowVars
  <1>16. Segue(caller[h], s, events, archived, payment, synced, payment, synced)
    BY <1>15, NadaPerde
  <1>17. Poupa(s, payment, raced)
    <2>1. ASSUME NEW c \in Payments, EmDia(c, payment, raced) PROVE v
      BY <1>1, <2>1 DEF EmDia, CobrancasPendentes, Open
    <2> QED
      BY <1>6, <1>12, <2>1 DEF Poupa, Guarda
  <1> QED
    BY <1>4, <1>13, <1>14, <1>15, <1>16, <1>17, QuietaInv

(* A charge begins with the active credentials, which are complete.         *)
LEMMA CarregaInv ==
    ASSUME IInv, Nil \notin Credentials, NEW h \in Callers, loadCredential(h)
    PROVE  IInv'
  <1> DEFINE false == FALSE
  <1>1. false \in BOOLEAN
    OBVIOUS
  <1>2. caller' = [caller EXCEPT ![h] = [Rest EXCEPT !.pc = "charge", !.op = "cobrar",
                                             !.event = Event(Nil, row, false)]]
    BY DEF loadCredential, Set
  <1> HIDE DEF false
  <1>3. row \in Credentials /\ "campos" \in vault[row]
    BY DEF IInv, ICred, TiposCredencial, LinhaCredencialOK, loadCredential,
           loadCredentialAtiva, Usable
  <1>5. PICK e : e = Event(Nil, row, false)
    OBVIOUS
  <1>6. /\ e.tipo = Nil /\ e.id = row
        /\ e \in [tipo : {Nil, "Configuradas", "Rotacionado", "Removidas", "Purgadas"},
                  id : Credentials \cup {Nil}, arquivada : BOOLEAN]
    BY <1>1, <1>3, <1>5, EventoFacts
  <1>7. PICK s : s = [Rest EXCEPT !.pc = "charge", !.op = "cobrar", !.event = e]
    OBVIOUS
  <1>8. s = Chamada("charge", "cobrar", e, "idle", {}, {})
    BY <1>7, ComecaFacts
  <1>12. s.pc = "charge" /\ s.event = e /\ s.keys = {} /\ s.left = {} /\ s \in Chamadas
    BY <1>6, <1>8, ChamadaFacts DEF PassosCredencial
  <1>13. ChamadaOK(s, events)
    BY <1>3, <1>6, <1>12 DEF ChamadaOK, Nil
  <1>14. ASSUME faults = {} PROVE VistaOK(s, events, row, vault)
    <2>1. SegredosOK(caller, events, row, vault)
      BY <1>14 DEF IInv, ICred
    <2>2. ~Removida(row, events) => Complete \subseteq vault[row]
      BY <1>3, <2>1 DEF SegredosOK, Complete
    <2> QED
      BY <1>6, <1>12, <2>2 DEF VistaOK
  <1>15. caller[h].pc = "idle" /\ UNCHANGED <<events, row, archived, vault, payment, position, faults, raced, synced>>
    BY DEF loadCredential, Call, Unread, rowVars
  <1>16. Segue(caller[h], s, events, archived, payment, synced, payment, synced)
    BY <1>15, NadaPerde
  <1>17. Poupa(s, payment, raced)
    BY <1>6, <1>12 DEF Poupa, Guarda, Nil
  <1>18. caller' = [caller EXCEPT ![h] = s]
    BY <1>2, <1>5, <1>7
  <1> QED
    BY <1>13, <1>14, <1>15, <1>16, <1>17, <1>18, QuietaInv

(* A pending charge ends: what it needed is looked at again.                *)
LEMMA EncerraInv ==
    ASSUME IInv, Nil \notin Credentials, NEW h \in Callers, NEW c \in Payments,
           liberarSnapshotsSeCobrancaTerminal(h, c)
    PROVE  IInv'
  <1>1. ICred(events, row, archived, vault, payment, position, caller, faults, raced, synced)
    BY DEF IInv
  <1>2. PICK b : b = caller'
    OBVIOUS
  <1>3. PICK q : q = payment'
    OBVIOUS
  <1>4. PICK s : s = [Rest EXCEPT !.pc = "list", !.op = "encerrar"]
    OBVIOUS
  <1>5. /\ b = [caller EXCEPT ![h] = s] /\ q = [payment EXCEPT ![c].st = "closed"]
        /\ caller[h].pc = "idle"
        /\ UNCHANGED <<events, row, archived, vault, position, faults, raced, synced>>
    BY <1>2, <1>3, <1>4 DEF liberarSnapshotsSeCobrancaTerminal, Call, Set, rowVars
  <1>6. PagamentosOK(payment, synced)
    BY <1>1 DEF ICred, TiposCredencial
  <1>7. /\ q[c].st = "closed" /\ q[c].cred = payment[c].cred
        /\ \A d \in Payments : d # c => q[d] = payment[d]
        /\ q \in [Payments -> [st : {"none", "open", "closed"}, cred : Credentials \cup {Nil}]]
    BY <1>5, <1>6 DEF PagamentosOK
  <1>8. PagamentosOK(q, synced)
    BY <1>6, <1>7 DEF PagamentosOK
  <1>9. PICK e : e = Rest.event
    OBVIOUS
  <1>10. s = Chamada("list", "encerrar", e, "idle", {}, {})
    BY <1>4, <1>9, ComecaFacts
  <1>11. e \in [tipo : {Nil, "Configuradas", "Rotacionado", "Removidas", "Purgadas"},
                id : Credentials \cup {Nil}, arquivada : BOOLEAN]
         /\ e.tipo = Nil
    BY <1>9, DescansoFacts DEF Chamadas
  <1>12. s.pc = "list" /\ s.event = e /\ s \in Chamadas
    BY <1>10, <1>11, ChamadaFacts DEF PassosCredencial
  <1>13. ChamadaOK(s, events)
    BY <1>11, <1>12 DEF ChamadaOK, Nil
  <1>14. VistaOK(s, events, row, vault)
    BY <1>12 DEF VistaOK
  <1>15. faults = {} => CobrancasOK(events, row, archived, vault, q, caller, raced)
    <2>1. ASSUME NEW d \in Payments, EmDia(d, q, raced)
          PROVE  EmDia(d, payment, raced) /\ payment[d].cred = q[d].cred
      BY <1>7, <2>1 DEF EmDia
    <2> QED
      BY <1>1, <2>1 DEF ICred, CobrancasOK
  <1>16. Poupa(s, q, raced)
    BY <1>11, <1>12 DEF Poupa, Guarda, Nil
  <1>17. Segue(caller[h], s, events, archived, payment, synced, q, synced)
    BY <1>12 DEF Segue, Vai
  <1>18. ICred(events, row, archived, vault, q, position, b, faults, raced, synced)
    <2>1. b = [caller EXCEPT ![h] = s] /\ caller[h].pc # "apply"
      BY <1>5
    <2> QED
      BY <1>1, <1>8, <1>13, <1>14, <1>15, <1>16, <1>17, <2>1, ChamadaQuieta
  <1>19. ICred(events', row', archived', vault', payment', position', caller', faults', raced', synced')
    BY <1>2, <1>3, <1>5, <1>18
  <1> QED
    BY <1>19 DEF IInv

(* A charge is recorded with the credentials it has loaded: unless they are *)
(* going away meanwhile, they are those of the row.                         *)
LEMMA CobraInv ==
    ASSUME IInv, Nil \notin Credentials, NEW h \in Callers, comCredencial(h)
    PROVE  IInv'
  <1>1. ICred(events, row, archived, vault, payment, position, caller, faults, raced, synced)
    BY DEF IInv
  <1>2. PICK b, q, v : b = caller' /\ q = payment' /\ v = raced'
    OBVIOUS
  <1>3. PICK id : id = caller[h].event.id
    OBVIOUS
  <1>4. PICK c \in Payments, k \in BOOLEAN :
           /\ payment[c].st = "none" /\ q = [payment EXCEPT ![c] = [st |-> "open", cred |-> id]]
           /\ b = [caller EXCEPT ![h] = IF k THEN [caller[h] EXCEPT !.pc = "created", !.left = {c}]
                                             ELSE Rest]
           /\ v = IF GoingAway(id) THEN raced \cup {c} ELSE raced
    BY <1>2, <1>3 DEF comCredencial, Set
  <1>5. /\ caller[h].pc = "charge"
        /\ UNCHANGED <<events, row, archived, vault, position, faults, synced>>
    BY DEF comCredencial, rowVars
  <1>6. PagamentosOK(payment, synced) /\ TiposCredencial(events, row, archived, vault, payment, position, synced)
    BY <1>1 DEF ICred, TiposCredencial
  <1>7. caller[h] \in Chamadas /\ ChamadaOK(caller[h], events) /\ id \in Credentials
    BY <1>1, <1>3, <1>5 DEF ICred, ChamadasOK, ChamadaOK
  <1>8. /\ q[c].st = "open" /\ q[c].cred = id
        /\ \A d \in Payments : d # c => q[d] = payment[d]
        /\ q \in [Payments -> [st : {"none", "open", "closed"}, cred : Credentials \cup {Nil}]]
    BY <1>4, <1>6, <1>7 DEF PagamentosOK
  <1>9. PagamentosOK(q, synced)
    BY <1>6, <1>8 DEF PagamentosOK
  <1>10. PICK s : s = IF k THEN [caller[h] EXCEPT !.pc = "created", !.left = {c}] ELSE Rest
    OBVIOUS
  <1>11. /\ s \in Chamadas /\ ChamadaOK(s, events) /\ s.pc \in {"idle", "created"}
         /\ s.event \in {caller[h].event, Rest.event}
    <2>1. CASE ~k
      BY <1>10, <2>1, DescansoFacts
    <2>2. CASE k
      <3>1. PICK p, o, e, x, y, d : caller[h] = Chamada(p, o, e, x, y, d)
        BY <1>7, ChamadaPartes
      <3>2. PICK z : z = [caller[h] EXCEPT !.pc = "created"]
        OBVIOUS
      <3>3. z = Chamada("created", o, e, x, y, d)
        BY <3>1, <3>2, ComPc
      <3>4. PICK j : j = {c}
        OBVIOUS
      <3>5. s = [z EXCEPT !.left = j]
        BY <1>10, <2>2, <3>2, <3>4
      <3>6. s = Chamada("created", o, e, x, y, j)
        BY <3>3, <3>5, ComLeft
      <3>7. /\ s.pc = "created" /\ s.event = caller[h].event /\ s.op = caller[h].op
            /\ s \in Chamadas
        BY <1>7, <3>1, <3>4, <3>6, ChamadaFacts DEF PassosCredencial
      <3> QED
        BY <1>7, <3>7 DEF ChamadaOK
    <2> QED
      BY <2>1, <2>2
  <1>12. VistaOK(s, events, row, vault)
    BY <1>11 DEF VistaOK
  <1>13. ASSUME faults = {}, c \notin v
         PROVE  CobrancaOK(id, events, row, archived, vault, caller)
    <2>1. /\ ~\E i \in DOMAIN events : events[i].tipo = "Removidas" /\ events[i].id = id
          /\ ~\E g \in Callers : caller[g].op = "remover"
      BY <1>4, <1>13 DEF GoingAway
    <2>2. ~Removida(id, events)
      BY <2>1 DEF Removida
    <2>3. row = id /\ Complete \subseteq vault[id]
      BY <1>1, <1>3, <1>5, <1>13, <2>2 DEF ICred, SegredosOK, VistaOK
    <2>4. ASSUME NEW i \in DOMAIN events PROVE Guarda(events[i], id)
      BY <1>6, <2>1 DEF TiposCredencial, LogCredencialOK, Guarda
    <2>5. ASSUME NEW g \in Callers PROVE Guarda(caller[g].event, id)
      <3>1. ChamadaOK(caller[g], events)
        BY <1>1 DEF ICred, ChamadasOK
      <3> QED
        BY <2>1, <2>2, <3>1 DEF ChamadaOK, Guarda
    <2> QED
      BY <1>7, <2>3, <2>4, <2>5 DEF CobrancaOK
  <1>14. faults = {} => CobrancasOK(events, row, archived, vault, q, caller, v)
    <2>1. ASSUME faults = {}, NEW d \in Payments, EmDia(d, q, v)
          PROVE  CobrancaOK(q[d].cred, events, row, archived, vault, caller)
      <3>1. CASE d = c
        BY <1>8, <1>13, <2>1, <3>1 DEF EmDia
      <3>2. CASE d # c
        <4>1. EmDia(d, payment, raced) /\ q[d].cred = payment[d].cred
          BY <1>4, <1>8, <2>1, <3>2 DEF EmDia
        <4> QED
          BY <1>1, <2>1, <4>1 DEF ICred, CobrancasOK
      <3> QED
        BY <3>1, <3>2
    <2> QED
      BY <2>1 DEF CobrancasOK
  <1>15. faults = {} => Poupa(s, q, v)
    <2>1. ASSUME faults = {}, NEW d \in Payments, EmDia(d, q, v)
          PROVE  Guarda(s.event, q[d].cred)
      <3>1. PICK a : a = q[d].cred
        OBVIOUS
      <3>2. CobrancaOK(a, events, row, archived, vault, caller)
        BY <1>14, <2>1, <3>1 DEF CobrancasOK
      <3>3. Guarda(caller[h].event, a)
        BY <3>2 DEF CobrancaOK
      <3>4. Guarda(Rest.event, a)
        BY DescansoFacts DEF Guarda, Nil
      <3> QED
        BY <1>11, <3>1, <3>3, <3>4
    <2> QED
      BY <2>1 DEF Poupa
  <1>16. Segue(caller[h], s, events, archived, payment, synced, q, synced)
    <2>1. ASSUME NEW a \in archived, Precisa(a, payment, synced) PROVE Precisa(a, q, synced)
      <3>1. PICK d \in Payments : payment[d].cred = a /\ (payment[d].st = "open" \/ d \in synced)
        BY <2>1 DEF Precisa
      <3>2. d # c
        BY <1>4, <1>6, <3>1 DEF PagamentosOK
      <3> QED
        BY <1>8, <3>1, <3>2 DEF Precisa
    <2> QED
      BY <1>5, <2>1, NadaPerde
  <1>17. b = [caller EXCEPT ![h] = s]
    BY <1>4, <1>10
  <1>18. ICred(events, row, archived, vault, q, position, b, faults, v, synced)
    BY <1>1, <1>5, <1>9, <1>11, <1>12, <1>14, <1>15, <1>16, <1>17, ChamadaQuieta
  <1>19. ICred(events', row', archived', vault', payment', position', caller', faults', raced', synced')
    BY <1>2, <1>5, <1>18
  <1> QED
    BY <1>19 DEF IInv

(* The charge that was paid at once is closed.                              *)
LEMMA CriadaInv ==
    ASSUME IInv, Nil \notin Credentials, NEW h \in Callers, CobrancaCriada(h)
    PROVE  IInv'
  <1>1. ICred(events, row, archived, vault, payment, position, caller, faults, raced, synced)
    BY DEF IInv
  <1>2. PICK b, q, v : b = caller' /\ q = payment' /\ v = synced'
    OBVIOUS
  <1>3. PICK d : d = caller[h].left
    OBVIOUS
  <1>4. PICK s : s = Rest
    OBVIOUS
  <1>5. /\ caller[h].pc = "created" /\ b = [caller EXCEPT ![h] = s]
        /\ q = [c \in Payments |-> IF c \in d THEN [payment[c] EXCEPT !.st = "closed"]
                                               ELSE payment[c]]
        /\ v = synced \cup {c \in d : payment[c].st = "open"}
        /\ UNCHANGED <<events, row, archived, vault, position, faults, raced>>
    BY <1>2, <1>3, <1>4 DEF CobrancaCriada, Set, Open, rowVars
  <1>6. PagamentosOK(payment, synced)
    BY <1>1 DEF ICred, TiposCredencial
  <1>7. ASSUME NEW c \in Payments
        PROVE  /\ q[c].cred = payment[c].cred
               /\ q[c].st = IF c \in d THEN "closed" ELSE payment[c].st
               /\ q[c] \in [st : {"none", "open", "closed"}, cred : Credentials \cup {Nil}]
    BY <1>5, <1>6 DEF PagamentosOK
  <1>8. PagamentosOK(q, v)
    <2>1. q \in [Payments -> [st : {"none", "open", "closed"}, cred : Credentials \cup {Nil}]]
      BY <1>5, <1>7
    <2> QED
      BY <1>5, <1>6, <1>7, <2>1 DEF PagamentosOK
  <1>9. ChamadaOK(s, events) /\ s.pc = "idle" /\ s.event.id = Nil
    BY <1>4, DescansoFacts
  <1>10. VistaOK(s, events, row, vault)
    BY <1>9 DEF VistaOK
  <1>11. faults = {} => CobrancasOK(events, row, archived, vault, q, caller, raced)
    <2>1. ASSUME NEW c \in Payments, EmDia(c, q, raced)
          PROVE  EmDia(c, payment, raced) /\ payment[c].cred = q[c].cred
      BY <1>7, <2>1 DEF EmDia
    <2> QED
      BY <1>1, <2>1 DEF ICred, CobrancasOK
  <1>12. Poupa(s, q, raced)
    BY <1>4, DescansoFacts DEF Poupa, Guarda, Nil
  <1>13. Segue(caller[h], s, events, archived, payment, synced, q, v)
    <2>1. ASSUME NEW a \in archived, Precisa(a, payment, synced) PROVE Precisa(a, q, v)
      <3>1. PICK c \in Payments : payment[c].cred = a /\ (payment[c].st = "open" \/ c \in synced)
        BY <2>1 DEF Precisa
      <3>2. q[c].cred = a /\ (q[c].st = "open" \/ c \in v)
        BY <1>5, <1>7, <3>1
      <3> QED
        BY <3>2 DEF Precisa
    <2> QED
      BY <1>5, <2>1, NadaPerde
  <1>14. ICred(events, row, archived, vault, q, position, b, faults, raced, v)
    <2>1. b = [caller EXCEPT ![h] = s] /\ caller[h].pc # "apply"
      BY <1>5
    <2> QED
      BY <1>1, <1>8, <1>9, <1>10, <1>11, <1>12, <1>13, <2>1, ChamadaQuieta
  <1>15. ICred(events', row', archived', vault', payment', position', caller', faults', raced', synced')
    BY <1>2, <1>5, <1>14
  <1> QED
    BY <1>15 DEF IInv

(* The snapshots are listed: all of them are to be looked at.               *)
LEMMA ListaInv ==
    ASSUME IInv, Nil \notin Credentials, NEW h \in Callers, ListSnapshots(h)
    PROVE  IInv'
  <1>1. ICred(events, row, archived, vault, payment, position, caller, faults, raced, synced)
    BY DEF IInv
  <1>2. /\ caller[h].pc = "list"
        /\ UNCHANGED <<events, row, archived, vault, payment, position, faults, raced, synced>>
    BY DEF ListSnapshots, rowVars
  <1>3. PICK s : s = IF archived = {} THEN Rest
                     ELSE [caller[h] EXCEPT !.pc = "purge", !.left = archived]
    OBVIOUS
  <1>4. caller' = [caller EXCEPT ![h] = s]
    BY <1>3 DEF ListSnapshots, Set
  <1>5. caller[h] \in Chamadas /\ ChamadaOK(caller[h], events)
    BY <1>1 DEF ICred, ChamadasOK
  <1>6. archived \subseteq Credentials /\ \A id \in archived : Removida(id, events)
    BY <1>1 DEF ICred, TiposCredencial, LinhaCredencialOK
  <1>7. /\ ChamadaOK(s, events) /\ s.event \in {caller[h].event, Rest.event}
        /\ s.pc \in {"idle", "purge"} /\ (archived # {} => s.pc = "purge" /\ s.left = archived)
    <2>1. CASE archived = {}
      BY <1>3, <2>1, DescansoFacts
    <2>2. CASE archived # {}
      <3>1. PICK p, o, e, x, y, d : caller[h] = Chamada(p, o, e, x, y, d)
        BY <1>5, ChamadaPartes
      <3>2. PICK z : z = [caller[h] EXCEPT !.pc = "purge"]
        OBVIOUS
      <3>3. z = Chamada("purge", o, e, x, y, d)
        BY <3>1, <3>2, ComPc
      <3>4. PICK j : j = archived
        OBVIOUS
      <3>5. s = [z EXCEPT !.left = j]
        BY <1>3, <2>2, <3>2, <3>4
      <3>6. s = Chamada("purge", o, e, x, y, j)
        BY <3>3, <3>5, ComLeft
      <3>7. /\ s.pc = "purge" /\ s.event = caller[h].event /\ s.op = caller[h].op
            /\ s.left = archived /\ s \in Chamadas
        BY <1>5, <1>6, <3>1, <3>4, <3>6, ChamadaFacts DEF PassosCredencial
      <3> QED
        BY <1>5, <1>6, <3>7 DEF ChamadaOK
    <2> QED
      BY <2>1, <2>2
  <1>8. VistaOK(s, events, row, vault)
    BY <1>7 DEF VistaOK
  <1>9. faults = {} => Poupa(s, payment, raced)
    <2>1. ASSUME faults = {}, NEW c \in Payments, EmDia(c, payment, raced)
          PROVE  Guarda(s.event, payment[c].cred)
      <3>1. PICK a : a = payment[c].cred
        OBVIOUS
      <3>2. CobrancaOK(a, events, row, archived, vault, caller)
        BY <1>1, <2>1, <3>1 DEF ICred, CobrancasOK
      <3>3. Guarda(caller[h].event, a)
        BY <3>2 DEF CobrancaOK
      <3>4. Guarda(Rest.event, a)
        BY DescansoFacts DEF Guarda, Nil
      <3> QED
        BY <1>7, <3>1, <3>3, <3>4
    <2> QED
      BY <2>1 DEF Poupa
  <1>10. Segue(caller[h], s, events, archived, payment, synced, payment, synced)
    BY <1>7 DEF Segue, Vai
  <1>11. caller[h].pc # "apply"
    BY <1>2
  <1> QED
    BY <1>2, <1>4, <1>7, <1>8, <1>9, <1>10, <1>11, QuietaInv

(* A snapshot is purged if no charge is pending with it, and the others are *)
(* left to look at.                                                         *)
LEMMA PurgaInv ==
    ASSUME IInv, Nil \notin Credentials, NEW h \in Callers,
           purgarArquivadasSemPendentes(h)
    PROVE  IInv'
  <1> DEFINE false == FALSE
  <1>1. false \in BOOLEAN
    OBVIOUS
  <1>2. ICred(events, row, archived, vault, payment, position, caller, faults, raced, synced)
    BY DEF IInv
  <1>3. PICK id \in caller[h].left : Set(h,
           IF pendentesDoSnapshot(id) = {}
           THEN [[caller[h] EXCEPT !.left = @ \ {id}]
                    EXCEPT !.pc = "record", !.next = "wipe",
                           !.event = Event("Purgadas", id, false)]
           ELSE IF [caller[h] EXCEPT !.left = @ \ {id}].left = {} THEN Rest
                ELSE [caller[h] EXCEPT !.left = @ \ {id}])
    BY DEF purgarArquivadasSemPendentes
  <1> HIDE DEF false
  <1>4. /\ caller[h].pc = "purge"
        /\ UNCHANGED <<events, row, archived, vault, payment, position, faults, raced, synced>>
    BY DEF purgarArquivadasSemPendentes, rowVars
  <1>5. caller[h] \in Chamadas /\ ChamadaOK(caller[h], events) /\ Removida(id, events)
    BY <1>2, <1>4 DEF ICred, ChamadasOK, ChamadaOK
  <1>6. PICK p, o, e, x, y, d : caller[h] = Chamada(p, o, e, x, y, d)
    BY <1>5, ChamadaPartes
  <1>7. /\ p = "purge" /\ d = caller[h].left /\ e = caller[h].event /\ o = caller[h].op
        /\ o \in {Nil, "configurar", "rotacionar", "remover", "cobrar", "encerrar"}
        /\ e \in [tipo : {Nil, "Configuradas", "Rotacionado", "Removidas", "Purgadas"},
                  id : Credentials \cup {Nil}, arquivada : BOOLEAN]
        /\ x \in {"idle", "secrets", "list", "wipe"} /\ y \in SUBSET Complete
        /\ d \in SUBSET (Credentials \cup Payments)
    BY <1>4, <1>5, <1>6, ChamadaFacts
  <1>8. PICK k : k = d \ {id}
    OBVIOUS
  <1>9. PICK z : z = [caller[h] EXCEPT !.left = k]
    OBVIOUS
  <1>10. /\ z = Chamada("purge", o, e, x, y, k)
         /\ z = [caller[h] EXCEPT !.left = @ \ {id}]
    <2>1. PICK a : a = caller[h]
      OBVIOUS
    <2>2. a = Chamada("purge", o, e, x, y, d) /\ z = [a EXCEPT !.left = k]
      BY <1>6, <1>7, <1>9, <2>1
    <2>3. z = Chamada("purge", o, e, x, y, k)
      BY <2>2, ComLeft
    <2>4. caller[h].left \ {id} = k
      BY <1>7, <1>8
    <2>5. z = [caller[h] EXCEPT !.left = @ \ {id}]
      BY <1>9, <2>4
    <2> QED
      BY <2>3, <2>5
  <1>11. PICK g : g = Event("Purgadas", id, false)
    OBVIOUS
  <1>12. PICK t : t = [z EXCEPT !.pc = "record", !.next = "wipe", !.event = g]
    OBVIOUS
  <1>13. t = Chamada("record", o, g, "wipe", y, k)
    <2>1. PICK t1 : t1 = [z EXCEPT !.pc = "record"]
      OBVIOUS
    <2>2. t1 = Chamada("record", o, e, x, y, k)
      <3>1. z = Chamada("purge", o, e, x, y, k)
        BY <1>10
      <3> QED
        BY <2>1, <3>1, ComPc
    <2>3. PICK t2 : t2 = [t1 EXCEPT !.next = "wipe"]
      OBVIOUS
    <2>4. t2 = Chamada("record", o, e, "wipe", y, k)
      BY <2>2, <2>3, ComNext
    <2>5. t = [t2 EXCEPT !.event = g]
      BY <1>12, <2>1, <2>3
    <2> QED
      BY <2>4, <2>5, ComEvent
  <1>14. z.pc = "purge" /\ z.left = k /\ z.event = e /\ z.op = o /\ z.keys = y /\ z \in Chamadas
    BY <1>7, <1>8, <1>10, ChamadaFacts DEF PassosCredencial
  <1>15. CASE pendentesDoSnapshot(id) = {}
    <2>1. caller' = [caller EXCEPT ![h] = t]
      BY <1>3, <1>10, <1>11, <1>12, <1>15 DEF Set
    <2>2. id \in Credentials
      <3>1. PICK i \in DOMAIN events : events[i].id = id
        BY <1>5 DEF Removida
      <3>2. events \in Seq(EventosCredencial)
        BY <1>2 DEF ICred, TiposCredencial, LogCredencialOK
      <3>3. events[i] \in EventosCredencial
        BY <3>1, <3>2
      <3> QED
        BY <3>1, <3>3 DEF EventosCredencial
    <2>3. /\ g.tipo = "Purgadas" /\ g.id = id /\ g \in EventosCredencial
          /\ g \in [tipo : {Nil, "Configuradas", "Rotacionado", "Removidas", "Purgadas"},
                    id : Credentials \cup {Nil}, arquivada : BOOLEAN]
      BY <1>1, <1>11, <2>2, EventoFacts
    <2>4. /\ t.pc = "record" /\ t.op = o /\ t.event = g /\ t.next = "wipe" /\ t.keys = y
          /\ t.left = k /\ t \in Chamadas
      BY <1>7, <1>8, <1>13, <2>3, ChamadaFacts DEF PassosCredencial
    <2>5. ChamadaOK(t, events)
      BY <1>4, <1>5, <1>7, <1>8, <2>3, <2>4 DEF ChamadaOK, Apaga
    <2>6. VistaOK(t, events, row, vault)
      BY <1>5, <2>3, <2>4 DEF VistaOK
    <2>7. Poupa(t, payment, raced)
      <3>1. ASSUME NEW c \in Payments, EmDia(c, payment, raced) PROVE payment[c].cred # id
        BY <1>15, <3>1 DEF EmDia, pendentesDoSnapshot, CobrancasPendentes, Open
      <3> QED
        BY <2>3, <2>4, <3>1 DEF Poupa, Guarda
    <2>8. Segue(caller[h], t, events, archived, payment, synced, payment, synced)
      BY <1>4, <1>7, <1>8, <2>3, <2>4 DEF Segue, Vai
    <2>9. caller[h].pc # "apply"
      BY <1>4
    <2> QED
      BY <1>4, <2>1, <2>5, <2>6, <2>7, <2>8, <2>9, QuietaInv
  <1>16. CASE pendentesDoSnapshot(id) # {}
    <2>1. PICK s : s = IF k = {} THEN Rest ELSE z
      OBVIOUS
    <2>2. caller' = [caller EXCEPT ![h] = s]
      BY <1>3, <1>10, <1>14, <1>16, <2>1 DEF Set
    <2>3. ChamadaOK(z, events)
      BY <1>4, <1>5, <1>7, <1>8, <1>14 DEF ChamadaOK
    <2>4. /\ ChamadaOK(s, events) /\ s.event \in {caller[h].event, Rest.event}
          /\ s.pc \in {"idle", "purge"}
          /\ k # {} => s.pc = "purge" /\ s.left = k
      BY <1>7, <1>14, <2>1, <2>3, DescansoFacts
    <2>5. VistaOK(s, events, row, vault)
      BY <2>4 DEF VistaOK
    <2>6. faults = {} => Poupa(s, payment, raced)
      <3>1. ASSUME faults = {}, NEW c \in Payments, EmDia(c, payment, raced)
            PROVE  Guarda(s.event, payment[c].cred)
        <4>1. PICK a : a = payment[c].cred
          OBVIOUS
        <4>2. CobrancaOK(a, events, row, archived, vault, caller)
          BY <1>2, <3>1, <4>1 DEF ICred, CobrancasOK
        <4>3. Guarda(caller[h].event, a)
          BY <4>2 DEF CobrancaOK
        <4>4. Guarda(Rest.event, a)
          BY DescansoFacts DEF Guarda, Nil
        <4> QED
          BY <2>4, <4>1, <4>3, <4>4
      <3> QED
        BY <3>1 DEF Poupa
    <2>7. Segue(caller[h], s, events, archived, payment, synced, payment, synced)
      <3>1. Precisa(id, payment, synced)
        BY <1>16 DEF Precisa, pendentesDoSnapshot, CobrancasPendentes, Open
      <3> QED
        BY <1>4, <1>7, <1>8, <2>4, <3>1 DEF Segue, Vai
    <2>8. caller[h].pc # "apply"
      BY <1>4
    <2> QED
      BY <1>4, <2>2, <2>4, <2>5, <2>6, <2>7, <2>8, QuietaInv
  <1> QED
    BY <1>15, <1>16

(* A call fails: only the types are left to say.                            *)
LEMMA FalhaInv ==
    ASSUME IInv, NEW h \in Callers, NEW s, NEW L, NEW r, NEW X, NEW w, NEW k,
           TiposCredencial(L, r, X, w, payment, position, synced),
           \A g \in Callers : ChamadaOK(caller[g], L),
           ChamadaOK(s, L), Fault(k),
           caller' = [caller EXCEPT ![h] = s], events' = L, row' = r, archived' = X, vault' = w,
           UNCHANGED <<payment, position, raced, synced>>
    PROVE  IInv'
  <1>1. caller \in [Callers -> Chamadas] /\ s \in Chamadas
    BY DEF IInv, ICred, ChamadasOK, ChamadaOK
  <1>2. PICK b : b = caller'
    OBVIOUS
  <1>3. b \in [Callers -> Chamadas] /\ b[h] = s /\ \A g \in Callers : g # h => b[g] = caller[g]
    BY <1>1, <1>2
  <1>4. ASSUME NEW g \in Callers PROVE ChamadaOK(b[g], L)
    <2>1. CASE g = h
      BY <1>3, <2>1
    <2>2. CASE g # h
      BY <1>3, <2>2
    <2> QED
      BY <2>1, <2>2
  <1>5. ChamadasOK(b, L)
    BY <1>3, <1>4 DEF ChamadasOK
  <1>6. faults' # {}
    BY DEF Fault
  <1>7. ICred(L, r, X, w, payment, position, b, faults', raced, synced)
    BY <1>5, <1>6 DEF ICred
  <1>8. ICred(events', row', archived', vault', payment', position', caller', faults', raced', synced')
    BY <1>2, <1>7
  <1> QED
    BY <1>8 DEF IInv

(* Secrets that are saved are missed by nobody.                             *)
LEMMA GuardaSegredosInv ==
    ASSUME IInv, Nil \notin Credentials, NEW h \in Callers, saveSecrets(h)
    PROVE  IInv'
  <1>1. ICred(events, row, archived, vault, payment, position, caller, faults, raced, synced)
    BY DEF IInv
  <1>2. PICK id : id = caller[h].event.id
    OBVIOUS
  <1>3. PICK s : s = Rest
    OBVIOUS
  <1>4. /\ caller[h].pc = "secrets" /\ caller' = [caller EXCEPT ![h] = s]
        /\ UNCHANGED <<events, row, archived, payment, position, raced, synced>>
    BY <1>3 DEF saveSecrets, Set, rowVars
  <1>5. /\ ChamadasOK(caller, events) /\ caller[h] \in Chamadas /\ id \in Credentials
        /\ caller[h].keys \in SUBSET Complete
    <2>1. ChamadasOK(caller, events) /\ caller[h] \in Chamadas /\ ChamadaOK(caller[h], events)
      BY <1>1 DEF ICred, ChamadasOK
    <2> QED
      BY <1>2, <1>4, <2>1 DEF ChamadaOK, Chamadas
  <1>6. TiposCredencial(events, row, archived, vault, payment, position, synced)
        /\ vault \in [Credentials -> SUBSET Complete]
    BY <1>1 DEF ICred, TiposCredencial
  <1>7. ChamadaOK(s, events) /\ s.pc = "idle" /\ s.event.id = Nil
    BY <1>3, DescansoFacts
  <1>8. PICK k \in SUBSET caller[h].keys :
           /\ vault' = [vault EXCEPT ![id] = @ \cup k]
           /\ (k = caller[h].keys /\ UNCHANGED faults) \/ Fault("vault")
    BY <1>2 DEF saveSecrets, Sound
  <1>9. PICK w : w = vault'
    OBVIOUS
  <1>10. /\ w \in [Credentials -> SUBSET Complete] /\ w[id] = vault[id] \cup k
         /\ \A a \in Credentials : a # id => w[a] = vault[a]
         /\ \A a \in Credentials : vault[a] \subseteq w[a]
    BY <1>5, <1>6, <1>8, <1>9
  <1>11. TiposCredencial(events, row, archived, w, payment, position, synced)
    BY <1>6, <1>10 DEF TiposCredencial
  <1>12. CASE Fault("vault")
    <2>1. \A g \in Callers : ChamadaOK(caller[g], events)
      BY <1>5 DEF ChamadasOK
    <2> QED
      BY <1>4, <1>7, <1>9, <1>11, <1>12, <2>1, FalhaInv
  <1>13. CASE k = caller[h].keys /\ UNCHANGED faults
    <2>1. ASSUME faults = {} PROVE SegredosOK(caller, events, row, w)
      <3>1. SegredosOK(caller, events, row, vault)
        BY <1>1, <2>1 DEF ICred
      <3>2. ASSUME NEW g \in Callers PROVE VistaOK(caller[g], events, row, w)
        <4>1. VistaOK(caller[g], events, row, vault) /\ ChamadaOK(caller[g], events)
          BY <1>5, <3>1 DEF SegredosOK, ChamadasOK
        <4>2. caller[g].pc \in {"record", "apply", "secrets", "charge"} => caller[g].event.id \in Credentials
          BY <4>1 DEF ChamadaOK, EventosCredencial
        <4> QED
          BY <1>10, <4>1, <4>2 DEF VistaOK
      <3>3. ASSUME NEW a \in Credentials, ~Removida(a, events), "campos" \in w[a]
            PROVE  "webhook" \in w[a]
        <4>1. CASE "campos" \in vault[a]
          BY <1>10, <3>1, <3>3, <4>1 DEF SegredosOK
        <4>2. CASE "campos" \notin vault[a]
          <5>1. a = id /\ "campos" \in caller[h].keys
            BY <1>10, <1>13, <3>3, <4>2
          <5>2. CASE "webhook" \in caller[h].keys
            BY <1>10, <1>13, <5>1, <5>2
          <5>3. CASE "webhook" \notin caller[h].keys
            <6>1. caller[h].keys = {"campos"}
              BY <1>5, <5>1, <5>3 DEF Complete
            <6>2. "webhook" \in vault[id]
              BY <1>2, <1>4, <3>1, <3>3, <5>1, <6>1 DEF SegredosOK, VistaOK
            <6> QED
              BY <1>10, <5>1, <6>2
          <5> QED
            BY <5>2, <5>3
        <4> QED
          BY <4>1, <4>2
      <3> QED
        BY <3>2, <3>3 DEF SegredosOK
    <2>2. ASSUME faults = {}
          PROVE  CobrancasOK(events, row, archived, w, payment, caller, raced)
      <3>1. CobrancasOK(events, row, archived, vault, payment, caller, raced)
        BY <1>1, <2>2 DEF ICred
      <3> QED
        BY <1>10, <3>1 DEF CobrancasOK, CobrancaOK
    <2>3. ICred(events, row, archived, w, payment, position, caller, faults, raced, synced)
      BY <1>1, <1>5, <1>11, <2>1, <2>2 DEF ICred
    <2>4. VistaOK(s, events, row, w)
      BY <1>7 DEF VistaOK
    <2>5. faults = {} => CobrancasOK(events, row, archived, w, payment, caller, raced) /\ Poupa(s, payment, raced)
      BY <1>3, <2>2, DescansoFacts DEF Poupa, Guarda, Nil
    <2>6. Segue(caller[h], s, events, archived, payment, synced, payment, synced)
      BY <1>4, NadaPerde
    <2>7. PICK b : b = caller'
      OBVIOUS
    <2>8. b = [caller EXCEPT ![h] = s] /\ caller[h].pc # "apply" /\ PagamentosOK(payment, synced)
      BY <1>4, <1>6, <2>7 DEF TiposCredencial
    <2>9. ICred(events, row, archived, w, payment, position, b, faults, raced, synced)
      BY <1>7, <2>3, <2>4, <2>5, <2>6, <2>8, ChamadaQuieta
    <2>10. ICred(events', row', archived', vault', payment', position', caller', faults', raced', synced')
      BY <1>4, <1>9, <1>13, <2>7, <2>9
    <2> QED
      BY <2>10 DEF IInv
  <1> QED
    BY <1>8, <1>12, <1>13

(* The secrets that go are those of removed credentials, that no pending    *)
(* charge was made with.                                                    *)
LEMMA ApagaInv ==
    ASSUME IInv, Nil \notin Credentials, NEW h \in Callers, Wipe(h)
    PROVE  IInv'
  <1>1. ICred(events, row, archived, vault, payment, position, caller, faults, raced, synced)
    BY DEF IInv
  <1>2. PICK id : id = caller[h].event.id
    OBVIOUS
  <1>3. PICK z : z = [caller[h] EXCEPT !.pc = "purge"]
    OBVIOUS
  <1>4. /\ caller[h].pc = "wipe"
        /\ UNCHANGED <<events, row, archived, payment, position, raced, synced>>
    BY DEF Wipe, rowVars
  <1>5. /\ ChamadasOK(caller, events) /\ caller[h] \in Chamadas
        /\ ChamadaOK(caller[h], events) /\ id \in Credentials
    <2>1. ChamadasOK(caller, events) /\ caller[h] \in Chamadas /\ ChamadaOK(caller[h], events)
      BY <1>1 DEF ICred, ChamadasOK
    <2> QED
      BY <1>2, <1>4, <2>1 DEF ChamadaOK, EventosCredencial
  <1>6. TiposCredencial(events, row, archived, vault, payment, position, synced)
        /\ vault \in [Credentials -> SUBSET Complete]
    BY <1>1 DEF ICred, TiposCredencial
  <1>7. /\ ChamadaOK(Rest, events) /\ Rest.pc = "idle" /\ Rest.event.id = Nil
        /\ Rest.event.tipo = Nil
    BY DescansoFacts
  <1>8. PICK s : s = IF caller[h].left = {} THEN Rest ELSE z
    OBVIOUS
  <1>9. \/ Fault("vault") /\ UNCHANGED vault /\ caller' = [caller EXCEPT ![h] = Rest]
        \/ UNCHANGED faults /\ vault' = [vault EXCEPT ![id] = {}] /\ caller' = [caller EXCEPT ![h] = s]
    BY <1>2, <1>3, <1>8 DEF Wipe, Sound, Set
  <1>10. CASE Fault("vault") /\ UNCHANGED vault /\ caller' = [caller EXCEPT ![h] = Rest]
    <2>1. \A g \in Callers : ChamadaOK(caller[g], events)
      BY <1>5 DEF ChamadasOK
    <2>2. PICK t : t = Rest
      OBVIOUS
    <2>3. ChamadaOK(t, events) /\ caller' = [caller EXCEPT ![h] = t]
      BY <1>7, <1>10, <2>2
    <2>4. TiposCredencial(events, row, archived, vault, payment, position, synced)
      BY <1>6
    <2>5. events' = events /\ row' = row /\ archived' = archived /\ vault' = vault
          /\ UNCHANGED <<payment, position, raced, synced>>
      BY <1>4, <1>10
    <2> QED
      BY <1>10, <2>1, <2>3, <2>4, <2>5, FalhaInv
  <1>11. CASE UNCHANGED faults /\ vault' = [vault EXCEPT ![id] = {}] /\ caller' = [caller EXCEPT ![h] = s]
    <2>1. PICK w : w = vault'
      OBVIOUS
    <2>2. /\ w \in [Credentials -> SUBSET Complete]
          /\ \A a \in Credentials : a # id => w[a] = vault[a]
      BY <1>5, <1>6, <1>11, <2>1
    <2>3. Removida(id, events) /\ w[id] = {}
      <3>1. PICK i \in DOMAIN events : events[i] = caller[h].event
        BY <1>4, <1>5 DEF ChamadaOK
      <3>2. events[i].tipo \in {"Removidas", "Purgadas"} /\ events[i].id = id
        BY <1>2, <1>4, <1>5, <3>1 DEF ChamadaOK, Apaga
      <3>3. events[i].tipo = "Purgadas" => \E k \in DOMAIN events : events[k].tipo = "Removidas" /\ events[k].id = id
        BY <1>6, <3>1, <3>2 DEF TiposCredencial, LogCredencialOK
      <3> QED
        BY <1>5, <1>6, <1>11, <2>1, <3>1, <3>2, <3>3 DEF Removida
    <2>4. TiposCredencial(events, row, archived, w, payment, position, synced)
      BY <1>6, <2>2 DEF TiposCredencial
    <2>5. ASSUME faults = {} PROVE SegredosOK(caller, events, row, w)
      <3>1. SegredosOK(caller, events, row, vault)
        BY <1>1, <2>5 DEF ICred
      <3>2. ASSUME NEW g \in Callers PROVE VistaOK(caller[g], events, row, w)
        <4>1. VistaOK(caller[g], events, row, vault) /\ ChamadaOK(caller[g], events)
          BY <1>5, <3>1 DEF SegredosOK, ChamadasOK
        <4>2. caller[g].pc \in {"record", "apply", "secrets", "charge"} => caller[g].event.id \in Credentials
          BY <4>1 DEF ChamadaOK, EventosCredencial
        <4> QED
          BY <2>2, <2>3, <4>1, <4>2 DEF VistaOK
      <3> QED
        BY <2>2, <2>3, <3>1, <3>2 DEF SegredosOK
    <2>6. ASSUME faults = {}
          PROVE  CobrancasOK(events, row, archived, w, payment, caller, raced)
      <3>1. ASSUME NEW c \in Payments, EmDia(c, payment, raced)
            PROVE  CobrancaOK(payment[c].cred, events, row, archived, w, caller)
        <4>1. PICK a : a = payment[c].cred
          OBVIOUS
        <4>2. CobrancaOK(a, events, row, archived, vault, caller)
          BY <1>1, <2>6, <3>1, <4>1 DEF ICred, CobrancasOK
        <4>3. Guarda(caller[h].event, a) /\ a \in Credentials
          BY <4>2 DEF CobrancaOK
        <4>4. a # id
          BY <1>2, <1>4, <1>5, <4>3 DEF Guarda, ChamadaOK, Apaga
        <4>5. w[a] = vault[a]
          BY <2>2, <4>3, <4>4
        <4>6. CobrancaOK(a, events, row, archived, w, caller)
          BY <4>2, <4>5 DEF CobrancaOK
        <4> QED
          BY <4>1, <4>6
      <3> QED
        BY <3>1 DEF CobrancasOK
    <2>7. ICred(events, row, archived, w, payment, position, caller, faults, raced, synced)
      BY <1>1, <1>5, <2>4, <2>5, <2>6 DEF ICred
    <2>8. /\ ChamadaOK(z, events) /\ z.pc = "purge" /\ z.left = caller[h].left
          /\ z.event = caller[h].event
      <3>1. PICK p, o, e, x, y, d : caller[h] = Chamada(p, o, e, x, y, d)
        BY <1>5, ChamadaPartes
      <3>2. z = Chamada("purge", o, e, x, y, d)
        BY <1>3, <3>1, ComPc
      <3>3. PICK a : a = caller[h]
        OBVIOUS
      <3>4. a = Chamada(p, o, e, x, y, d) /\ a \in Chamadas
        BY <1>5, <3>1, <3>3
      <3>5. /\ z.pc = "purge" /\ z.event = a.event /\ z.op = a.op /\ z.left = a.left
            /\ z \in Chamadas
        BY <3>2, <3>4, ChamadaFacts DEF PassosCredencial
      <3>6. ChamadaOK(a, events) /\ a.pc = "wipe"
        BY <1>4, <1>5, <3>3
      <3>7. ChamadaOK(z, events)
        BY <3>5, <3>6 DEF ChamadaOK
      <3> QED
        BY <3>3, <3>5, <3>7
    <2>9. /\ ChamadaOK(s, events) /\ s.event \in {caller[h].event, Rest.event}
          /\ s.pc \in {"idle", "purge"}
          /\ caller[h].left # {} => s.pc = "purge" /\ s.left = caller[h].left
      BY <1>7, <1>8, <2>8
    <2>10. VistaOK(s, events, row, w)
      BY <2>9 DEF VistaOK
    <2>11. faults = {} => Poupa(s, payment, raced)
      <3>1. ASSUME faults = {}, NEW c \in Payments, EmDia(c, payment, raced)
            PROVE  Guarda(s.event, payment[c].cred)
        <4>1. PICK a : a = payment[c].cred
          OBVIOUS
        <4>2. CobrancaOK(a, events, row, archived, vault, caller)
          BY <1>1, <3>1, <4>1 DEF ICred, CobrancasOK
        <4>3. Guarda(caller[h].event, a)
          BY <4>2 DEF CobrancaOK
        <4>4. Guarda(Rest.event, a)
          BY <1>7 DEF Guarda, Nil
        <4> QED
          BY <2>9, <4>1, <4>3, <4>4
      <3> QED
        BY <3>1 DEF Poupa
    <2>12. Segue(caller[h], s, events, archived, payment, synced, payment, synced)
      BY <1>4, <2>9 DEF Segue, Vai
    <2>13. PICK b : b = caller'
      OBVIOUS
    <2>14. b = [caller EXCEPT ![h] = s] /\ caller[h].pc # "apply" /\ PagamentosOK(payment, synced)
      BY <1>4, <1>6, <1>11, <2>13 DEF TiposCredencial
    <2>15. faults = {} => CobrancasOK(events, row, archived, w, payment, caller, raced) /\ Poupa(s, payment, raced)
      BY <2>6, <2>11
    <2>16. ICred(events, row, archived, w, payment, position, b, faults, raced, synced)
      BY <2>7, <2>9, <2>10, <2>12, <2>14, <2>15, ChamadaQuieta
    <2>17. ICred(events', row', archived', vault', payment', position', caller', faults', raced', synced')
      BY <1>4, <1>11, <2>1, <2>13, <2>16
    <2> QED
      BY <2>17 DEF IInv
  <1> QED
    BY <1>9, <1>10, <1>11

(* An event is recorded: what was in the log is in it still.                *)
LEMMA LogCresce ==
    ASSUME NEW L \in Seq(EventosCredencial), NEW e \in EventosCredencial, NEW D, D = Append(L, e)
    PROVE  /\ D \in Seq(EventosCredencial) /\ Len(L) \in Nat /\ Len(D) = Len(L) + 1
           /\ DOMAIN L = 1..Len(L) /\ DOMAIN D = 1..(Len(L) + 1) /\ D[Len(L) + 1] = e
           /\ \A i \in DOMAIN L : i \in DOMAIN D /\ D[i] = L[i]
           /\ \A i \in DOMAIN D : i \in DOMAIN L \/ (i = Len(L) + 1 /\ D[i] = e)
           /\ \A id : Removida(id, L) => Removida(id, D)
           /\ \A id : Purgada(id, L) => Purgada(id, D)
           /\ Ultrapassada(L) => Ultrapassada(D)
  <1>1. /\ D \in Seq(EventosCredencial) /\ Len(L) \in Nat /\ Len(D) = Len(L) + 1
        /\ DOMAIN L = 1..Len(L) /\ DOMAIN D = 1..(Len(L) + 1) /\ D[Len(L) + 1] = e
        /\ \A i \in DOMAIN L : i \in DOMAIN D /\ D[i] = L[i]
    OBVIOUS
  <1>2. \A i \in DOMAIN D : i \in DOMAIN L \/ (i = Len(L) + 1 /\ D[i] = e)
    BY <1>1
  <1>3. /\ \A id : Removida(id, L) => Removida(id, D)
        /\ \A id : Purgada(id, L) => Purgada(id, D)
    BY <1>1 DEF Removida, Purgada
  <1>4. Ultrapassada(L) => Ultrapassada(D)
    BY <1>1 DEF Ultrapassada
  <1> QED
    BY <1>1, <1>2, <1>3, <1>4

(* The others see it and lose nothing.                                      *)
LEMMA ChamadaFica ==
    ASSUME NEW L \in Seq(EventosCredencial), NEW e \in EventosCredencial, NEW D, D = Append(L, e),
           NEW s
    PROVE  /\ ChamadaOK(s, L) => ChamadaOK(s, D)
           /\ \A r, w : VistaOK(s, L, r, w) => VistaOK(s, D, r, w)
  <1>0. L \in Seq(EventosCredencial) /\ e \in EventosCredencial /\ D = Append(L, e)
    OBVIOUS
  <1>1. /\ D \in Seq(EventosCredencial) /\ Len(L) \in Nat /\ Len(D) = Len(L) + 1
        /\ DOMAIN L = 1..Len(L) /\ DOMAIN D = 1..(Len(L) + 1) /\ D[Len(L) + 1] = e
        /\ \A i \in DOMAIN L : i \in DOMAIN D /\ D[i] = L[i]
        /\ \A i \in DOMAIN D : i \in DOMAIN L \/ (i = Len(L) + 1 /\ D[i] = e)
        /\ \A id : Removida(id, L) => Removida(id, D)
        /\ \A id : Purgada(id, L) => Purgada(id, D)
        /\ Ultrapassada(L) => Ultrapassada(D)
    BY <1>0, LogCresce
  <1>2. ChamadaOK(s, L) => ChamadaOK(s, D)
    BY <1>1 DEF ChamadaOK
  <1>3. \A r, w : VistaOK(s, L, r, w) => VistaOK(s, D, r, w)
    BY <1>1 DEF VistaOK
  <1> QED
    BY <1>2, <1>3

(* What is recorded agrees with what was.                                   *)
LEMMA LogOKCresce ==
    ASSUME NEW L, LogCredencialOK(L), NEW s, ChamadaOK(s, L), s.pc = "record",
           NEW D, D = Append(L, s.event)
    PROVE  LogCredencialOK(D)
  <1>1. PICK e : e = s.event
    OBVIOUS
  <1>2. /\ L \in Seq(EventosCredencial) /\ e \in EventosCredencial
        /\ e.tipo = "Purgadas" => Removida(e.id, L)
    BY <1>1 DEF ChamadaOK, LogCredencialOK
  <1>3. D = Append(L, e)
    BY <1>1
  <1>4. /\ D \in Seq(EventosCredencial) /\ Len(L) \in Nat /\ DOMAIN L = 1..Len(L)
        /\ \A i \in DOMAIN L : i \in DOMAIN D /\ D[i] = L[i]
        /\ \A i \in DOMAIN D : i \in DOMAIN L \/ (i = Len(L) + 1 /\ D[i] = e)
    BY <1>2, <1>3, LogCresce
  <1>5. ASSUME NEW k \in DOMAIN D, D[k].tipo = "Purgadas"
        PROVE  \E i \in DOMAIN D : i < k /\ D[i].tipo = "Removidas" /\ D[i].id = D[k].id
    <2>1. CASE k \in DOMAIN L
      <3>1. PICK i \in DOMAIN L : i < k /\ L[i].tipo = "Removidas" /\ L[i].id = L[k].id
        BY <1>4, <1>5, <2>1 DEF LogCredencialOK
      <3> QED
        BY <1>4, <2>1, <3>1
    <2>2. CASE k = Len(L) + 1 /\ D[k] = e
      <3>1. PICK i \in DOMAIN L : L[i].tipo = "Removidas" /\ L[i].id = e.id
        BY <1>2, <1>5, <2>2 DEF Removida
      <3>2. i < k
        BY <1>4, <2>2, <3>1
      <3> QED
        BY <1>4, <2>2, <3>1, <3>2
    <2> QED
      BY <1>4, <2>1, <2>2
  <1> QED
    BY <1>4, <1>5 DEF LogCredencialOK

(* An event is recorded, and its request goes on to show it.                *)
LEMMA GravaOK ==
    ASSUME NEW L, NEW r, NEW X, NEW w, NEW G, NEW n, NEW Z, NEW f, NEW u, NEW y,
           NEW h \in Callers, NEW s, NEW b, NEW D, NEW a, a = Z[h],
           ICred(L, r, X, w, G, n, Z, f, u, y),
           a.pc = "record", NEW e, e = a.event, D = Append(L, e), s = [a EXCEPT !.pc = "apply"],
           b = [Z EXCEPT ![h] = s]
    PROVE  ICred(D, r, X, w, G, n, b, f, u, y)
  <1>1. e = a.event
    OBVIOUS
  <1>2. /\ ChamadasOK(Z, L) /\ a \in Chamadas /\ ChamadaOK(a, L) /\ LogCredencialOK(L)
        /\ L \in Seq(EventosCredencial) /\ e \in EventosCredencial /\ D = Append(L, e)
        /\ Z \in [Callers -> Chamadas]
    BY <1>1 DEF ICred, ChamadasOK, TiposCredencial, LogCredencialOK, ChamadaOK
  <1>3. /\ D \in Seq(EventosCredencial) /\ Len(L) \in Nat /\ Len(D) = Len(L) + 1
        /\ DOMAIN L = 1..Len(L) /\ DOMAIN D = 1..(Len(L) + 1) /\ D[Len(L) + 1] = e
        /\ \A i \in DOMAIN L : i \in DOMAIN D /\ D[i] = L[i]
        /\ \A i \in DOMAIN D : i \in DOMAIN L \/ (i = Len(L) + 1 /\ D[i] = e)
        /\ \A id : Removida(id, L) => Removida(id, D)
        /\ \A id : Purgada(id, L) => Purgada(id, D)
        /\ Ultrapassada(L) => Ultrapassada(D)
    BY <1>2, LogCresce
  <1>4. /\ s.pc = "apply" /\ s.event = e /\ s.op = a.op /\ s.next = a.next /\ s.keys = a.keys
        /\ s.left = a.left /\ s \in Chamadas
    <2>1. PICK p, o, g, x, k, d : a = Chamada(p, o, g, x, k, d)
      BY <1>2, ChamadaPartes
    <2>2. s = Chamada("apply", o, g, x, k, d)
      BY <2>1, ComPc
    <2> QED
      BY <1>1, <1>2, <2>1, <2>2, ChamadaFacts DEF PassosCredencial
  <1>5. b \in [Callers -> Chamadas] /\ b[h] = s /\ \A g \in Callers : g # h => b[g] = Z[g]
    BY <1>2, <1>4
  <1>6. TiposCredencial(D, r, X, w, G, n, y)
    <2>1. LogCredencialOK(D)
      BY <1>1, <1>2, LogOKCresce
    <2>2. LinhaCredencialOK(r, X, D)
      BY <1>3 DEF ICred, TiposCredencial, LinhaCredencialOK
    <2>3. n \in Nat /\ n <= Len(D)
      BY <1>3 DEF ICred, TiposCredencial
    <2> QED
      BY <2>1, <2>2, <2>3 DEF ICred, TiposCredencial
  <1>7. ChamadaOK(s, D)
    <2>1. ChamadaOK(a, D)
      BY <1>2, ChamadaFica
    <2>2. \E i \in DOMAIN D : D[i] = s.event
      BY <1>3, <1>4
    <2> QED
      BY <1>1, <1>4, <2>1, <2>2 DEF ChamadaOK
  <1>8. ChamadasOK(b, D)
    <2>1. ASSUME NEW g \in Callers PROVE ChamadaOK(b[g], D)
      <3>1. CASE g = h
        BY <1>5, <1>7, <3>1
      <3>2. CASE g # h
        <4>1. ChamadaOK(Z[g], L)
          BY <1>2 DEF ChamadasOK
        <4> QED
          BY <1>2, <1>5, <3>2, <4>1, ChamadaFica
      <3> QED
        BY <3>1, <3>2
    <2> QED
      BY <1>5, <2>1 DEF ChamadasOK
  <1>9. ASSUME f = {} PROVE SegredosOK(b, D, r, w)
    <2>1. SegredosOK(Z, L, r, w)
      BY <1>9 DEF ICred
    <2>2. VistaOK(a, L, r, w)
      BY <2>1 DEF SegredosOK
    <2>3. VistaOK(s, D, r, w)
      BY <1>1, <1>3, <1>4, <2>2 DEF VistaOK
    <2>4. ASSUME NEW g \in Callers PROVE VistaOK(b[g], D, r, w)
      <3>1. CASE g = h
        BY <1>5, <2>3, <3>1
      <3>2. CASE g # h
        <4>1. VistaOK(Z[g], L, r, w)
          BY <2>1 DEF SegredosOK
        <4> QED
          BY <1>2, <1>5, <3>2, <4>1, ChamadaFica
      <3> QED
        BY <3>1, <3>2
    <2> QED
      BY <1>3, <2>1, <2>4 DEF SegredosOK
  <1>10. ASSUME f = {} PROVE CobrancasOK(D, r, X, w, G, b, u)
    <2>1. ASSUME NEW c \in Payments, EmDia(c, G, u)
          PROVE  CobrancaOK(G[c].cred, D, r, X, w, b)
      <3>1. PICK id : id = G[c].cred
        OBVIOUS
      <3>2. CobrancaOK(id, L, r, X, w, Z)
        BY <1>10, <2>1, <3>1 DEF ICred, CobrancasOK
      <3>3. Guarda(e, id)
        BY <1>1, <3>2 DEF CobrancaOK
      <3>4. ASSUME NEW i \in DOMAIN D PROVE Guarda(D[i], id)
        <4>1. CASE i \in DOMAIN L
          BY <1>3, <3>2, <4>1 DEF CobrancaOK
        <4>2. CASE D[i] = e
          BY <3>3, <4>2
        <4> QED
          BY <1>3, <4>1, <4>2
      <3>5. ASSUME NEW g \in Callers PROVE Guarda(b[g].event, id)
        <4>1. CASE g = h
          BY <1>4, <1>5, <3>3, <4>1
        <4>2. CASE g # h
          BY <1>5, <3>2, <4>2 DEF CobrancaOK
        <4> QED
          BY <4>1, <4>2
      <3>6. CobrancaOK(id, D, r, X, w, b)
        BY <3>2, <3>4, <3>5 DEF CobrancaOK
      <3> QED
        BY <3>1, <3>6
    <2> QED
      BY <2>1 DEF CobrancasOK
  <1>11. ASSUME f = {}, ~Ultrapassada(D) PROVE ArquivosOK(D, r, X, G, n, b, y)
    <2>1. ArquivosOK(L, r, X, G, n, Z, y)
      BY <1>3, <1>11 DEF ICred
    <2>2. ASSUME NEW id \in Credentials PROVE SairaOK(id, D, X, G, b, y)
      <3>1. SairaOK(id, L, X, G, Z, y)
        BY <2>1 DEF ArquivosOK
      <3>2. ASSUME id \in X, ~Purgada(id, D), NEW g \in Callers, Vai(Z[g], id)
            PROVE  Vai(b[g], id)
        <4>1. CASE g # h
          BY <1>5, <3>2, <4>1
        <4>2. CASE g = h
          <5>1. e.tipo = "Purgadas" => e.id # id
            BY <1>3, <3>2 DEF Purgada
          <5>2. Vai(s, id)
            BY <1>1, <1>4, <3>2, <4>2, <5>1 DEF Vai
          <5> QED
            BY <1>5, <4>2, <5>2
        <4> QED
          BY <4>1, <4>2
      <3> QED
        BY <1>3, <3>1, <3>2 DEF SairaOK
    <2>3. ASSUME NEW id \in Credentials PROVE PurgaVem(id, D, X, n)
      <3>1. SUFFICES ASSUME id \in X, Purgada(id, D)
                     PROVE  \E k \in DOMAIN D : k > n /\ D[k].tipo = "Purgadas" /\ D[k].id = id
        BY DEF PurgaVem
      <3>2. CASE Purgada(id, L)
        <4>1. PICK k \in DOMAIN L : k > n /\ L[k].tipo = "Purgadas" /\ L[k].id = id
          BY <2>1, <3>1, <3>2 DEF ArquivosOK, PurgaVem
        <4> QED
          BY <1>3, <4>1
      <3>3. CASE ~Purgada(id, L)
        <4>1. e.tipo = "Purgadas" /\ e.id = id
          BY <1>3, <3>1, <3>3 DEF Purgada
        <4>2. n \in Nat /\ n <= Len(L)
          BY DEF ICred, TiposCredencial
        <4>3. Len(L) + 1 \in DOMAIN D /\ Len(L) + 1 > n
          BY <1>3, <4>2
        <4> QED
          BY <1>3, <4>1, <4>3
      <3> QED
        BY <3>2, <3>3
    <2>4. ASSUME NEW i \in DOMAIN D, D[i].tipo = "Removidas", D[i].arquivada
          PROVE  RemocaoOK(D[i], D, r, X, b)
      <3>1. PICK v : v = D[i]
        OBVIOUS
      <3>2. CASE i \in DOMAIN L
        <4>1. RemocaoOK(v, L, r, X, Z)
          BY <1>3, <2>1, <2>4, <3>1, <3>2 DEF ArquivosOK
        <4>2. ASSUME NEW g \in Callers, Z[g].pc = "apply", Z[g].event = v
              PROVE  b[g].pc = "apply" /\ b[g].event = v
          BY <1>5, <4>2
        <4>3. RemocaoOK(v, D, r, X, b)
          BY <1>3, <4>1, <4>2 DEF RemocaoOK
        <4> QED
          BY <3>1, <4>3
      <3>3. CASE i = Len(L) + 1 /\ D[i] = e
        <4>1. ~Removida(e.id, L)
          <5>1. SUFFICES ASSUME NEW k \in DOMAIN L, L[k].tipo = "Removidas", L[k].id = e.id
                         PROVE  FALSE
            BY DEF Removida
          <5>2. k < i /\ k \in DOMAIN D /\ D[k] = L[k]
            BY <1>3, <3>3
          <5>3. D[k].id = D[i].id /\ D[k].tipo = "Removidas" /\ D[i].tipo # "Purgadas"
            BY <2>4, <3>3, <5>1, <5>2
          <5> QED
            BY <1>11, <5>2, <5>3 DEF Ultrapassada
        <4>2. VistaOK(a, L, r, w)
          BY <1>11 DEF ICred, SegredosOK
        <4>3. r = e.id
          BY <1>1, <2>4, <3>3, <4>1, <4>2 DEF VistaOK
        <4>4. RemocaoOK(e, D, r, X, b)
          BY <1>4, <1>5, <4>3 DEF RemocaoOK
        <4> QED
          BY <3>3, <4>4
      <3> QED
        BY <1>3, <3>2, <3>3
    <2> QED
      BY <2>2, <2>3, <2>4 DEF ArquivosOK
  <1> QED
    BY <1>6, <1>8, <1>9, <1>10, <1>11 DEF ICred

(* Record.                                                                  *)
LEMMA GravaInv ==
    ASSUME IInv, Nil \notin Credentials, NEW h \in Callers, Record(h)
    PROVE  IInv'
  <1>1. ICred(events, row, archived, vault, payment, position, caller, faults, raced, synced)
    BY DEF IInv
  <1>2. PICK a : a = caller[h]
    OBVIOUS
  <1>3. PICK D : D = Append(events, a.event)
    OBVIOUS
  <1>4. PICK s : s = [a EXCEPT !.pc = "apply"]
    OBVIOUS
  <1>5. a.pc = "record" /\ UNCHANGED <<row, archived, vault, payment, position, raced, synced>>
    BY <1>2 DEF Record, rowVars
  <1>6. \/ events' = D /\ caller' = [caller EXCEPT ![h] = s] /\ UNCHANGED faults
        \/ Fault("ledger") /\ events' \in {D, events} /\ caller' = [caller EXCEPT ![h] = Rest]
    BY <1>2, <1>3, <1>4 DEF Record, Sound, Set
  <1>7. CASE events' = D /\ caller' = [caller EXCEPT ![h] = s] /\ UNCHANGED faults
    <2>1. PICK b : b = caller'
      OBVIOUS
    <2>2. b = [caller EXCEPT ![h] = s]
      BY <1>7, <2>1
    <2>3. ICred(D, row, archived, vault, payment, position, b, faults, raced, synced)
      <3>1. a.pc = "record"
        BY <1>5
      <3>2. PICK e : e = a.event
        OBVIOUS
      <3>3. D = Append(events, e)
        BY <1>3, <3>2
      <3> QED
        BY <1>1, <1>2, <1>4, <2>2, <3>1, <3>2, <3>3, GravaOK
    <2>4. ICred(events', row', archived', vault', payment', position', caller', faults', raced', synced')
      BY <1>5, <1>7, <2>1, <2>3
    <2> QED
      BY <2>4 DEF IInv
  <1>8. CASE Fault("ledger") /\ events' \in {D, events} /\ caller' = [caller EXCEPT ![h] = Rest]
    <2>1. PICK v : v = events'
      OBVIOUS
    <2>2. /\ ChamadasOK(caller, events) /\ ChamadaOK(a, events) /\ LogCredencialOK(events)
          /\ events \in Seq(EventosCredencial) /\ a.event \in EventosCredencial
          /\ TiposCredencial(events, row, archived, vault, payment, position, synced)
      BY <1>1, <1>2, <1>5 DEF ICred, ChamadasOK, TiposCredencial, LogCredencialOK, ChamadaOK
    <2>3. PICK e : e = a.event
      OBVIOUS
    <2>4. e \in EventosCredencial /\ D = Append(events, e)
      BY <1>3, <2>2, <2>3
    <2>5. \A id : Removida(id, events) => Removida(id, v)
      BY <1>8, <2>1, <2>2, <2>4, LogCresce
    <2>6. TiposCredencial(v, row, archived, vault, payment, position, synced)
      <3>1. CASE v = events
        BY <2>2, <3>1
      <3>2. CASE v = D
        <4>1. LogCredencialOK(D)
          BY <1>3, <1>5, <2>2, LogOKCresce
        <4>2. Len(D) = Len(events) + 1 /\ Len(events) \in Nat
          BY <2>2, <2>4, LogCresce
        <4>3. position \in Nat /\ position <= Len(D)
          BY <2>2, <4>2 DEF TiposCredencial
        <4>4. LinhaCredencialOK(row, archived, D)
          BY <2>2, <2>5, <3>2 DEF TiposCredencial, LinhaCredencialOK
        <4> QED
          BY <2>2, <3>2, <4>1, <4>3, <4>4 DEF TiposCredencial
      <3> QED
        BY <1>8, <2>1, <3>1, <3>2
    <2>7. ASSUME NEW g \in Callers PROVE ChamadaOK(caller[g], v)
      <3>1. ChamadaOK(caller[g], events)
        BY <2>2 DEF ChamadasOK
      <3>2. ChamadaOK(caller[g], D)
        BY <2>2, <2>4, <3>1, ChamadaFica
      <3> QED
        BY <1>8, <2>1, <3>1, <3>2
    <2>8. PICK t : t = Rest
      OBVIOUS
    <2>9. ChamadaOK(t, v) /\ caller' = [caller EXCEPT ![h] = t]
      BY <1>8, <2>8, DescansoFacts
    <2>10. events' = v /\ row' = row /\ archived' = archived /\ vault' = vault
           /\ UNCHANGED <<payment, position, raced, synced>>
      BY <1>5, <2>1
    <2> QED
      BY <1>8, <2>6, <2>7, <2>9, <2>10, FalhaInv
  <1> QED
    BY <1>6, <1>7, <1>8

(* What an event does to the row and to the snapshots.                      *)
Trata(e, r, X, r2, X2) ==
    /\ e.tipo = "Configuradas" => r2 = e.id /\ X2 = X
    /\ e.tipo = "Rotacionado" => r2 = r /\ X2 = X
    /\ e.tipo = "Removidas" /\ r # e.id => r2 = r /\ X2 = X
    /\ e.tipo = "Removidas" /\ r = e.id =>
          r2 = Nil /\ X2 = IF e.arquivada THEN X \cup {e.id} ELSE X
    /\ e.tipo = "Purgadas" => r2 = r /\ X2 = X \ {e.id}
Aplicavel(e, r) == e.tipo = "Configuradas" => r = Nil \/ r = e.id

(* The handler does just that.                                              *)
LEMMA TrataFacts ==
    ASSUME NEW e \in EventosCredencial, Applicable(e), Handle(e)
    PROVE  Aplicavel(e, row) /\ Trata(e, row, archived, row', archived')
  <1>1. Aplicavel(e, row)
    BY DEF Applicable, Aplicavel
  <1>2. CASE e.tipo = "Configuradas"
    BY <1>1, <1>2 DEF Handle, Trata
  <1>3. CASE e.tipo = "Rotacionado"
    BY <1>1, <1>3 DEF Handle, rowVars, Trata
  <1>4. CASE e.tipo = "Removidas" /\ row = e.id
    BY <1>1, <1>4 DEF Handle, Trata
  <1>5. CASE e.tipo = "Removidas" /\ row # e.id
    BY <1>1, <1>5 DEF Handle, rowVars, Trata
  <1>6. CASE e.tipo = "Purgadas"
    BY <1>1, <1>6 DEF Handle, Trata
  <1> QED
    BY <1>1, <1>2, <1>3, <1>4, <1>5, <1>6 DEF EventosCredencial

(* While no event follows a removal but its purge, a removal has one event, *)
(* the purge comes after it and nothing else does.                          *)
LEMMA UmaRemocao ==
    ASSUME NEW L, LogCredencialOK(L), ~Ultrapassada(L), NEW i \in DOMAIN L, L[i].tipo = "Removidas"
    PROVE  /\ \A k \in DOMAIN L : L[k].tipo = "Removidas" /\ L[k].id = L[i].id => k = i
           /\ \A k \in DOMAIN L : k > i /\ L[k].id = L[i].id => L[k].tipo = "Purgadas"
           /\ \A k \in DOMAIN L : L[k].tipo = "Purgadas" /\ L[k].id = L[i].id => k > i
  <1>1. \A k \in DOMAIN L : k \in Int
    BY DEF LogCredencialOK
  <1>2. \A k \in DOMAIN L : L[k].tipo = "Removidas" /\ L[k].id = L[i].id => k = i
    BY <1>1 DEF Ultrapassada
  <1>3. \A k \in DOMAIN L : k > i /\ L[k].id = L[i].id => L[k].tipo = "Purgadas"
    BY <1>1 DEF Ultrapassada
  <1>4. ASSUME NEW k \in DOMAIN L, L[k].tipo = "Purgadas", L[k].id = L[i].id
        PROVE  k > i
    <2>1. PICK d \in DOMAIN L : d < k /\ L[d].tipo = "Removidas" /\ L[d].id = L[k].id
      BY <1>4 DEF LogCredencialOK
    <2>2. d = i
      BY <1>2, <1>4, <2>1
    <2> QED
      BY <1>1, <2>1, <2>2
  <1> QED
    BY <1>2, <1>3, <1>4

(* An event of the log is shown: what the requests and the charges count on *)
(* stays.                                                                   *)
LEMMA TrataOK ==
    ASSUME Nil \notin Credentials,
           NEW L, NEW r, NEW X, NEW w, NEW G, NEW n, NEW Z, NEW f, NEW u, NEW y,
           NEW j \in DOMAIN L, NEW e, e = L[j], NEW r2, NEW X2, NEW m \in Nat, m <= Len(L),
           ICred(L, r, X, w, G, n, Z, f, u, y),
           Aplicavel(e, r), Trata(e, r, X, r2, X2),
           f = {} /\ ~Ultrapassada(L) => \A id \in Credentials : PurgaVem(id, L, X2, m)
    PROVE  ICred(L, r2, X2, w, G, m, Z, f, u, y)
  <1>1. /\ LogCredencialOK(L) /\ LinhaCredencialOK(r, X, L) /\ ChamadasOK(Z, L)
        /\ L \in Seq(EventosCredencial)
        /\ TiposCredencial(L, r, X, w, G, n, y)
    BY DEF ICred, TiposCredencial, LogCredencialOK
  <1>2. e \in EventosCredencial
    BY <1>1
  <1>3. /\ e.id \in Credentials /\ e.id # Nil
        /\ e.tipo \in {"Configuradas", "Rotacionado", "Removidas", "Purgadas"}
    BY <1>2 DEF EventosCredencial
  <1>4. LinhaCredencialOK(r2, X2, L)
    <2>1. r2 \in Credentials \cup {Nil} /\ X2 \subseteq Credentials
      BY <1>1, <1>3 DEF LinhaCredencialOK, Trata
    <2>2. ASSUME NEW id \in X2 PROVE Removida(id, L)
      <3>1. CASE id \in X
        BY <1>1, <3>1 DEF LinhaCredencialOK
      <3>2. CASE id \notin X
        <4>1. e.tipo = "Removidas" /\ id = e.id
          BY <1>3, <2>2, <3>2 DEF Trata
        <4> QED
          BY <4>1 DEF Removida
      <3> QED
        BY <3>1, <3>2
    <2> QED
      BY <2>1, <2>2 DEF LinhaCredencialOK
  <1>5. TiposCredencial(L, r2, X2, w, G, m, y)
    BY <1>1, <1>4 DEF TiposCredencial
  <1>6. ASSUME NEW id \in Credentials, r = id, ~Removida(id, L) PROVE r2 = id
    <2>1. ~(e.tipo = "Removidas" /\ e.id = id)
      BY <1>6 DEF Removida
    <2> QED
      BY <1>3, <1>6, <2>1 DEF Trata, Aplicavel
  <1>7. ASSUME f = {} PROVE SegredosOK(Z, L, r2, w)
    <2>1. SegredosOK(Z, L, r, w)
      BY <1>7 DEF ICred
    <2>2. ASSUME NEW g \in Callers PROVE VistaOK(Z[g], L, r2, w)
      <3>1. VistaOK(Z[g], L, r, w) /\ ChamadaOK(Z[g], L)
        BY <1>1, <2>1 DEF SegredosOK, ChamadasOK
      <3>2. Z[g].pc \in {"record", "charge"} => Z[g].event.id \in Credentials
        BY <3>1 DEF ChamadaOK, EventosCredencial
      <3> QED
        BY <1>6, <3>1, <3>2 DEF VistaOK
    <2> QED
      BY <2>1, <2>2 DEF SegredosOK
  <1>8. ASSUME f = {} PROVE CobrancasOK(L, r2, X2, w, G, Z, u)
    <2>1. ASSUME NEW c \in Payments, EmDia(c, G, u)
          PROVE  CobrancaOK(G[c].cred, L, r2, X2, w, Z)
      <3>1. PICK id : id = G[c].cred
        OBVIOUS
      <3>2. CobrancaOK(id, L, r, X, w, Z)
        BY <1>8, <2>1, <3>1 DEF ICred, CobrancasOK
      <3>3. Guarda(e, id)
        BY <3>2 DEF CobrancaOK
      <3>4. id = r2 \/ id \in X2
        BY <1>3, <3>2, <3>3 DEF CobrancaOK, Guarda, Trata, Aplicavel
      <3>5. CobrancaOK(id, L, r2, X2, w, Z)
        BY <3>2, <3>4 DEF CobrancaOK
      <3> QED
        BY <3>1, <3>5
    <2> QED
      BY <2>1 DEF CobrancasOK
  <1>9. ASSUME f = {}, ~Ultrapassada(L) PROVE ArquivosOK(L, r2, X2, G, m, Z, y)
    <2>1. ArquivosOK(L, r, X, G, n, Z, y)
      BY <1>9 DEF ICred
    <2>2. ASSUME NEW id \in Credentials PROVE SairaOK(id, L, X2, G, Z, y)
      <3>1. CASE id \in X
        BY <2>1, <3>1 DEF ArquivosOK, SairaOK
      <3>2. CASE id \notin X
        <4>1. SUFFICES ASSUME id \in X2, ~Purgada(id, L)
                       PROVE  \E g \in Callers : Vai(Z[g], id)
          BY DEF SairaOK
        <4>2. e.tipo = "Removidas" /\ id = e.id /\ e.arquivada
          BY <1>3, <3>2, <4>1 DEF Trata
        <4>3. RemocaoOK(e, L, r, X, Z)
          BY <2>1, <4>2 DEF ArquivosOK
        <4>4. PICK g \in Callers : Z[g].pc = "apply" /\ Z[g].event = e
          BY <3>2, <4>1, <4>2, <4>3 DEF RemocaoOK
        <4>5. ChamadaOK(Z[g], L)
          BY <1>1 DEF ChamadasOK
        <4>6. Z[g].next \in {"idle", "secrets", "list", "wipe"}
          BY <4>5 DEF ChamadaOK, Chamadas
        <4>7. Z[g].next = "list"
          BY <4>2, <4>4, <4>5, <4>6 DEF ChamadaOK, Apaga
        <4> QED
          BY <4>4, <4>7 DEF Vai
      <3> QED
        BY <3>1, <3>2
    <2>3. ASSUME NEW i \in DOMAIN L, L[i].tipo = "Removidas", L[i].arquivada
          PROVE  RemocaoOK(L[i], L, r2, X2, Z)
      <3>1. PICK v : v = L[i]
        OBVIOUS
      <3>2. RemocaoOK(v, L, r, X, Z)
        BY <2>1, <2>3, <3>1 DEF ArquivosOK
      <3>3. v \in EventosCredencial /\ v.tipo = "Removidas" /\ v.arquivada
        BY <1>1, <2>3, <3>1
      <3>4. v.id # Nil
        BY <3>3 DEF EventosCredencial
      <3>5. e.tipo = "Removidas" /\ e.id = v.id => e = v
        BY <1>1, <1>9, <2>3, <3>1, UmaRemocao
      <3>6. e.tipo = "Purgadas" /\ e.id = v.id => Purgada(v.id, L)
        BY DEF Purgada
      <3>7. r = v.id \/ v.id \in X \/ Purgada(v.id, L) => r2 = v.id \/ v.id \in X2 \/ Purgada(v.id, L)
        BY <1>3, <3>3, <3>4, <3>5, <3>6 DEF Trata, Aplicavel
      <3>8. v.id \in X => v.id \in X2 \/ Purgada(v.id, L)
        BY <1>3, <3>6 DEF Trata
      <3>9. RemocaoOK(v, L, r2, X2, Z)
        BY <3>2, <3>7, <3>8 DEF RemocaoOK
      <3> QED
        BY <3>1, <3>9
    <2> QED
      BY <1>9, <2>2, <2>3 DEF ArquivosOK
  <1> QED
    BY <1>1, <1>5, <1>7, <1>8, <1>9 DEF ICred

(* The manager shows the next event.                                        *)
LEMMA ProjectaInv ==
    ASSUME IInv, Nil \notin Credentials, Project
    PROVE  IInv'
  <1>1. ICred(events, row, archived, vault, payment, position, caller, faults, raced, synced)
    BY DEF IInv
  <1>2. PICK j : j = position + 1
    OBVIOUS
  <1>3. PICK e : e = events[j]
    OBVIOUS
  <1>4. PICK r2, X2 : r2 = row' /\ X2 = archived'
    OBVIOUS
  <1>5. /\ position < Len(events) /\ position' = j /\ Applicable(e) /\ Handle(e)
        /\ UNCHANGED <<events, vault, payment, caller, faults, raced, synced>>
    BY <1>2, <1>3 DEF Project
  <1>6. /\ LogCredencialOK(events) /\ events \in Seq(EventosCredencial)
        /\ position \in Nat
    BY <1>1 DEF ICred, TiposCredencial, LogCredencialOK
  <1>7. j \in DOMAIN events /\ j \in Nat /\ j <= Len(events)
    BY <1>2, <1>5, <1>6
  <1>8. e \in EventosCredencial
    BY <1>3, <1>6, <1>7
  <1>9. Aplicavel(e, row) /\ Trata(e, row, archived, r2, X2)
    BY <1>4, <1>5, <1>8, TrataFacts
  <1>10. ASSUME faults = {}, ~Ultrapassada(events), NEW id \in Credentials
         PROVE  PurgaVem(id, events, X2, j)
    <2>1. SUFFICES ASSUME id \in X2, Purgada(id, events)
                   PROVE  \E k \in DOMAIN events : k > j /\ events[k].tipo = "Purgadas" /\ events[k].id = id
      BY DEF PurgaVem
    <2>2. CASE id \in archived
      <3>1. PurgaVem(id, events, archived, position)
        BY <1>1, <1>10 DEF ICred, ArquivosOK
      <3>2. PICK k \in DOMAIN events : k > position /\ events[k].tipo = "Purgadas" /\ events[k].id = id
        BY <2>1, <2>2, <3>1 DEF PurgaVem
      <3>3. k # j
        BY <1>3, <1>9, <2>1, <3>2 DEF Trata
      <3>4. k > j
        BY <1>2, <1>6, <3>2, <3>3
      <3> QED
        BY <3>2, <3>4
    <2>3. CASE id \notin archived
      <3>1. e.tipo = "Removidas" /\ e.id = id
        BY <1>8, <1>9, <2>1, <2>3 DEF Trata, EventosCredencial
      <3>2. PICK k \in DOMAIN events : events[k].tipo = "Purgadas" /\ events[k].id = id
        BY <2>1 DEF Purgada
      <3>3. k > j
        BY <1>3, <1>6, <1>7, <1>10, <3>1, <3>2, UmaRemocao
      <3> QED
        BY <3>2, <3>3
    <2> QED
      BY <2>2, <2>3
  <1>11. faults = {} /\ ~Ultrapassada(events) => \A id \in Credentials : PurgaVem(id, events, X2, j)
    BY <1>10
  <1>12. ICred(events, r2, X2, vault, payment, j, caller, faults, raced, synced)
    BY <1>1, <1>3, <1>7, <1>9, <1>11, TrataOK
  <1>13. ICred(events', row', archived', vault', payment', position', caller', faults', raced', synced')
    BY <1>4, <1>5, <1>12
  <1> QED
    BY <1>13 DEF IInv

(* A set of numbers that is bounded has a greatest one.                     *)
LEMMA GreatestExists ==
    ASSUME NEW n \in Nat, NEW S \in SUBSET (1..n), S # {}
    PROVE  \E m \in S : \A k \in S : k <= m
  <1> DEFINE NN == {n - k : k \in S}
  <1>0. \A k \in S : k \in Nat /\ k <= n /\ n - k \in Nat
    OBVIOUS
  <1>1. NN \subseteq Nat /\ NN # {}
    BY <1>0
  <1>2. PICK x \in NN : \A y \in NN : <<y, x>> \notin OpToRel(<, Nat)
    <2> HIDE DEF NN
    <2> QED
      BY <1>1, WFMin, NatLessThanWellFounded
  <1>3. \A y \in NN : ~(y < x)
    <2> HIDE DEF NN
    <2> QED
      BY <1>1, <1>2, Zenon DEF OpToRel
  <1>4. PICK m \in S : x = n - m
    OBVIOUS
  <1>5. \A k \in S : k <= m
    BY <1>0, <1>3, <1>4
  <1> QED
    BY <1>5

(* The latest event of credentials that have one.                           *)
LEMMA UltimoFacts ==
    ASSUME events \in Seq(EventosCredencial), NEW i \in DOMAIN events, NEW id, events[i].id = id
    PROVE  \E k \in DOMAIN events :
              /\ Latest(id) = events[k] /\ events[k].id = id
              /\ \A d \in DOMAIN events : events[d].id = id => d <= k
  <1>1. PICK D : D = {d \in DOMAIN events : events[d].id = id}
    OBVIOUS
  <1>2. Len(events) \in Nat /\ DOMAIN events = 1..Len(events)
    OBVIOUS
  <1>3. D \in SUBSET (1..Len(events)) /\ D # {}
    BY <1>1, <1>2
  <1>4. PICK k \in D : \A d \in D : d <= k
    BY <1>2, <1>3, GreatestExists
  <1>5. \E x \in DOMAIN events :
           events[x].id = id /\ \A d \in DOMAIN events : events[d].id = id => d <= x
    BY <1>1, <1>4
  <1> QED
    BY <1>5 DEF Latest

(* What a removal or a purge that was recorded meets when it is shown: the  *)
(* latest event is itself or a purge.                                       *)
LEMMA UltimoApaga ==
    ASSUME NEW L, LogCredencialOK(L), ~Ultrapassada(L), NEW i \in DOMAIN L, NEW k \in DOMAIN L,
           L[k].id = L[i].id, i <= k, L[i].tipo \in {"Removidas", "Purgadas"}
    PROVE  k = i \/ L[k].tipo = "Purgadas"
  <1>1. \A d \in DOMAIN L : d \in Int
    BY DEF LogCredencialOK
  <1>2. PICK d \in DOMAIN L : d <= i /\ L[d].tipo = "Removidas" /\ L[d].id = L[i].id
    BY <1>1 DEF LogCredencialOK
  <1>3. d < k => L[k].tipo = "Purgadas"
    BY <1>2 DEF Ultrapassada
  <1> QED
    BY <1>1, <1>2, <1>3

(* A request shows the latest event of its credentials.                     *)
LEMMA AplicaInv ==
    ASSUME IInv, Nil \notin Credentials, NEW h \in Callers, Apply(h)
    PROVE  IInv'
  <1>1. ICred(events, row, archived, vault, payment, position, caller, faults, raced, synced)
    BY DEF IInv
  <1>2. PICK a : a = caller[h]
    OBVIOUS
  <1>3. PICK id : id = a.event.id
    OBVIOUS
  <1>4. PICK e : e = Latest(id)
    OBVIOUS
  <1>5. PICK z : z = [a EXCEPT !.pc = a.next]
    OBVIOUS
  <1>6. PICK t : t = Rest
    OBVIOUS
  <1>7. a.pc = "apply" /\ UNCHANGED <<events, vault, payment, position, raced, synced>>
    BY <1>2 DEF Apply
  <1>8. /\ ChamadasOK(caller, events) /\ ChamadaOK(a, events) /\ LogCredencialOK(events)
        /\ events \in Seq(EventosCredencial) /\ a \in Chamadas /\ a.event \in EventosCredencial
        /\ TiposCredencial(events, row, archived, vault, payment, position, synced)
        /\ LinhaCredencialOK(row, archived, events) /\ PagamentosOK(payment, synced)
        /\ position \in Nat /\ position <= Len(events)
    BY <1>1, <1>2, <1>7 DEF ICred, ChamadasOK, TiposCredencial, LogCredencialOK, ChamadaOK
  <1>9. id \in Credentials /\ a.next # "idle"
    BY <1>3, <1>7, <1>8 DEF ChamadaOK, EventosCredencial
  <1>10. PICK i \in DOMAIN events : events[i] = a.event
    BY <1>7, <1>8 DEF ChamadaOK
  <1>11. PICK k \in DOMAIN events : /\ e = events[k] /\ events[k].id = id
                                    /\ \A d \in DOMAIN events : events[d].id = id => d <= k
    BY <1>3, <1>4, <1>8, <1>10, UltimoFacts
  <1>12. e \in EventosCredencial /\ i <= k
    BY <1>3, <1>8, <1>10, <1>11
  <1>13. /\ ChamadaOK(t, events) /\ t.pc = "idle" /\ t.event.id = Nil /\ t.event.tipo = Nil
    BY <1>6, DescansoFacts
  <1>14. /\ z.pc = a.next /\ z.event = a.event /\ z.op = a.op /\ z.next = a.next
         /\ z.keys = a.keys /\ z.left = a.left /\ z \in Chamadas
         /\ z.pc \in {"secrets", "list", "wipe"}
    <2>1. PICK p, o, g, x, y, d : a = Chamada(p, o, g, x, y, d)
      BY <1>8, ChamadaPartes
    <2>2. a.next = x /\ x \in {"secrets", "list", "wipe"} /\ x \in PassosCredencial
      BY <1>8, <1>9, <2>1, ChamadaFacts DEF PassosCredencial
    <2>3. z = [a EXCEPT !.pc = x]
      BY <1>5, <2>2
    <2>4. z = Chamada(x, o, g, x, y, d)
      BY <2>1, <2>3, ComPc
    <2> QED
      BY <1>8, <2>1, <2>2, <2>4, ChamadaFacts
  <1>15. ChamadaOK(z, events)
    BY <1>7, <1>8, <1>9, <1>10, <1>14, <1>3 DEF ChamadaOK
  <1>16. ASSUME faults = {}, ~Ultrapassada(events), a.event.tipo \in {"Removidas", "Purgadas"}
         PROVE  k = i \/ events[k].tipo = "Purgadas"
    BY <1>3, <1>8, <1>10, <1>11, <1>12, <1>16, UltimoApaga
  <1>17. \/ Applicable(e) /\ Handle(e) /\ caller' = [caller EXCEPT ![h] = z] /\ UNCHANGED faults
         \/ ~Applicable(e) /\ caller' = [caller EXCEPT ![h] = t] /\ UNCHANGED <<faults, row, archived>>
         \/ CutShort(e) /\ Fault("cut") /\ caller' = [caller EXCEPT ![h] = t]
    BY <1>2, <1>3, <1>4, <1>5, <1>6, <1>9 DEF Apply, Set, Sound, rowVars
  <1>18. CASE Applicable(e) /\ Handle(e) /\ caller' = [caller EXCEPT ![h] = z] /\ UNCHANGED faults
    <2>1. PICK r2, X2, b : r2 = row' /\ X2 = archived' /\ b = caller'
      OBVIOUS
    <2>2. Aplicavel(e, row) /\ Trata(e, row, archived, r2, X2)
      BY <1>12, <1>18, <2>1, TrataFacts
    <2>3. ASSUME faults = {}, ~Ultrapassada(events), NEW x \in Credentials
          PROVE  PurgaVem(x, events, X2, position)
      <3>1. CASE x \in archived
        BY <1>1, <2>3, <3>1 DEF ICred, ArquivosOK, PurgaVem
      <3>2. CASE x \notin archived
        <4>1. SUFFICES ASSUME x \in X2, Purgada(x, events) PROVE FALSE
          BY DEF PurgaVem
        <4>2. e.tipo = "Removidas" /\ e.id = x
          BY <1>12, <2>2, <3>2, <4>1 DEF Trata, EventosCredencial
        <4>3. PICK d \in DOMAIN events : events[d].tipo = "Purgadas" /\ events[d].id = x
          BY <4>1 DEF Purgada
        <4>4. d > k
          BY <1>8, <1>11, <2>3, <4>2, <4>3, UmaRemocao
        <4>5. d <= k /\ d \in Int /\ k \in Int
          BY <1>8, <1>11, <4>2, <4>3
        <4> QED
          BY <4>4, <4>5
      <3> QED
        BY <3>1, <3>2
    <2>4. ICred(events, r2, X2, vault, payment, position, caller, faults, raced, synced)
      <3>1. faults = {} /\ ~Ultrapassada(events)
               => \A x \in Credentials : PurgaVem(x, events, X2, position)
        BY <2>3
      <3> QED
        BY <1>1, <1>8, <1>11, <2>2, <3>1, TrataOK
    <2>5. faults = {} => VistaOK(z, events, r2, vault)
      <3>1. SUFFICES ASSUME faults = {} PROVE VistaOK(z, events, r2, vault)
        OBVIOUS
      <3>2. VistaOK(a, events, row, vault)
        BY <1>1, <1>2, <3>1 DEF ICred, SegredosOK
      <3> QED
        BY <1>7, <1>14, <3>2 DEF VistaOK
    <2>6. faults = {} => CobrancasOK(events, r2, X2, vault, payment, caller, raced) /\ Poupa(z, payment, raced)
      <3>1. SUFFICES ASSUME faults = {}
                     PROVE  /\ CobrancasOK(events, r2, X2, vault, payment, caller, raced)
                            /\ Poupa(z, payment, raced)
        OBVIOUS
      <3>2. CobrancasOK(events, r2, X2, vault, payment, caller, raced)
        BY <2>4, <3>1 DEF ICred
      <3>3. ASSUME NEW c \in Payments, EmDia(c, payment, raced)
            PROVE  Guarda(z.event, payment[c].cred)
        <4>1. PICK x : x = payment[c].cred
          OBVIOUS
        <4>2. CobrancaOK(x, events, r2, X2, vault, caller)
          BY <3>2, <3>3, <4>1 DEF CobrancasOK
        <4>3. Guarda(a.event, x)
          BY <1>2, <4>2 DEF CobrancaOK
        <4> QED
          BY <1>14, <4>1, <4>3
      <3> QED
        BY <3>2, <3>3 DEF Poupa
    <2>7. ASSUME faults = {}, ~Ultrapassada(events)
          PROVE  Segue(a, z, events, X2, payment, synced, payment, synced) /\ Mostrada(a, events, X2)
      <3>1. Segue(a, z, events, X2, payment, synced, payment, synced)
        BY <1>7, <1>14 DEF Segue, Vai
      <3>2. ASSUME a.event.tipo = "Removidas", a.event.arquivada
            PROVE  id \in X2 \/ Purgada(id, events)
        <4>1. CASE events[k].tipo = "Purgadas"
          BY <1>11, <4>1 DEF Purgada
        <4>2. CASE k = i
          <5>1. e = a.event /\ e.id = id
            BY <1>3, <1>10, <1>11, <4>2
          <5>2. RemocaoOK(e, events, row, archived, caller)
            BY <1>1, <1>11, <2>7, <3>2, <5>1 DEF ICred, ArquivosOK
          <5>3. row = id \/ id \in archived \/ Purgada(id, events)
            BY <5>1, <5>2 DEF RemocaoOK
          <5> QED
            BY <2>2, <3>2, <5>1, <5>3 DEF Trata
        <4> QED
          BY <1>16, <2>7, <3>2, <4>1, <4>2
      <3> QED
        BY <1>3, <3>1, <3>2 DEF Mostrada
    <2>8. /\ b = [caller EXCEPT ![h] = z]
          /\ faults = {} /\ ~Ultrapassada(events) =>
                /\ Segue(caller[h], z, events, X2, payment, synced, payment, synced)
                /\ Mostrada(caller[h], events, X2)
      BY <1>2, <1>18, <2>1, <2>7
    <2>9. ICred(events, r2, X2, vault, payment, position, b, faults, raced, synced)
      BY <1>8, <1>15, <2>4, <2>5, <2>6, <2>8, ChamadaMuda
    <2>10. ICred(events', row', archived', vault', payment', position', caller', faults', raced', synced')
      BY <1>7, <1>18, <2>1, <2>9
    <2> QED
      BY <2>10 DEF IInv
  <1>19. CASE ~Applicable(e) /\ caller' = [caller EXCEPT ![h] = t] /\ UNCHANGED <<faults, row, archived>>
    <2>1. e.tipo = "Configuradas"
      BY <1>19 DEF Applicable
    <2>2. ASSUME faults = {}, ~Ultrapassada(events)
          PROVE  a.event.tipo \notin {"Removidas", "Purgadas"}
      BY <1>10, <1>11, <1>16, <2>1, <2>2
    <2>3. ASSUME faults = {}, ~Ultrapassada(events)
          PROVE  /\ Segue(caller[h], t, events, archived, payment, synced, payment, synced)
                 /\ Mostrada(caller[h], events, archived)
      <3>1. a.next \notin {"list", "wipe"}
        BY <1>7, <1>8, <2>2, <2>3 DEF ChamadaOK, Apaga
      <3>2. ASSUME NEW x PROVE ~Vai(a, x)
        BY <1>7, <3>1 DEF Vai
      <3> QED
        BY <1>2, <2>2, <2>3, <3>2 DEF Segue, Mostrada
    <2>4. VistaOK(t, events, row, vault)
      BY <1>13 DEF VistaOK
    <2>5. faults = {} => CobrancasOK(events, row, archived, vault, payment, caller, raced) /\ Poupa(t, payment, raced)
      BY <1>1, <1>13 DEF ICred, Poupa, Guarda, Nil
    <2>6. PICK b : b = caller'
      OBVIOUS
    <2>7. b = [caller EXCEPT ![h] = t]
      BY <1>19, <2>6
    <2>8. ICred(events, row, archived, vault, payment, position, b, faults, raced, synced)
      BY <1>1, <1>8, <1>13, <2>3, <2>4, <2>5, <2>7, ChamadaMuda
    <2>9. ICred(events', row', archived', vault', payment', position', caller', faults', raced', synced')
      BY <1>7, <1>19, <2>6, <2>8
    <2> QED
      BY <2>9 DEF IInv
  <1>20. CASE CutShort(e) /\ Fault("cut") /\ caller' = [caller EXCEPT ![h] = t]
    <2>1. PICK r2 : r2 = row'
      OBVIOUS
    <2>2. r2 = Nil /\ archived' = archived
      BY <1>20, <2>1 DEF CutShort
    <2>3. TiposCredencial(events, r2, archived, vault, payment, position, synced)
      BY <1>8, <2>2 DEF TiposCredencial, LinhaCredencialOK
    <2>4. \A g \in Callers : ChamadaOK(caller[g], events)
      BY <1>8 DEF ChamadasOK
    <2>5. events' = events /\ row' = r2 /\ archived' = archived /\ vault' = vault
          /\ UNCHANGED <<payment, position, raced, synced>>
      BY <1>7, <2>1, <2>2
    <2> QED
      BY <1>13, <1>20, <2>3, <2>4, <2>5, FalhaInv
  <1> QED
    BY <1>17, <1>18, <1>19, <1>20

(* Nothing is recorded at first.                                            *)
LEMMA InitInv ==
    ASSUME Hipoteses, Init
    PROVE  IInv
  <1>1. /\ events = <<>> /\ row = Nil /\ archived = {} /\ position = 0
        /\ vault = [id \in Credentials |-> {}]
        /\ payment = [c \in Payments |-> [st |-> "none", cred |-> Nil]]
        /\ caller = [h \in Callers |-> Rest] /\ synced = {}
    BY DEF Init
  <1>2. events \in Seq(EventosCredencial) /\ DOMAIN events = {} /\ Len(events) = 0
    BY <1>1
  <1>3. LogCredencialOK(events) /\ LinhaCredencialOK(row, archived, events)
    BY <1>1, <1>2 DEF LogCredencialOK, LinhaCredencialOK
  <1>4. PagamentosOK(payment, synced)
    BY <1>1 DEF PagamentosOK
  <1>5. vault \in [Credentials -> SUBSET Complete] /\ position \in Nat /\ position <= Len(events)
    BY <1>1, <1>2
  <1>6. TiposCredencial(events, row, archived, vault, payment, position, synced)
    BY <1>3, <1>4, <1>5 DEF TiposCredencial
  <1>7. PICK t : t = Rest
    OBVIOUS
  <1>8. /\ t \in Chamadas /\ ChamadaOK(t, events) /\ t.pc = "idle" /\ t.event.id = Nil
    BY <1>7, DescansoFacts
  <1>9. ChamadasOK(caller, events)
    BY <1>1, <1>7, <1>8 DEF ChamadasOK
  <1>10. SegredosOK(caller, events, row, vault)
    BY <1>1, <1>7, <1>8 DEF SegredosOK, VistaOK
  <1>11. CobrancasOK(events, row, archived, vault, payment, caller, raced)
    BY <1>1 DEF CobrancasOK, EmDia
  <1>12. ArquivosOK(events, row, archived, payment, position, caller, synced)
    BY <1>1, <1>2 DEF ArquivosOK, SairaOK, PurgaVem
  <1>13. ICred(events, row, archived, vault, payment, position, caller, faults, raced, synced)
    BY <1>6, <1>9, <1>10, <1>11, <1>12 DEF ICred
  <1> QED
    BY <1>13 DEF IInv

(* Every step keeps the invariant.                                          *)
LEMMA NextInv ==
    ASSUME Hipoteses, IInv, [Next]_vars
    PROVE  IInv'
  <1> USE DEF Hipoteses
  <1>1. CASE Project
    BY <1>1, ProjectaInv
  <1>2. ASSUME NEW h \in Callers, Step(h) PROVE IInv'
    <2>1. CASE ConfigureCredential(h)
      BY <2>1, ConfiguraInv
    <2>2. CASE RotateWebhookSecret(h)
      BY <2>2, RotacionaInv
    <2>3. CASE RemoveCredential(h)
      BY <2>3, RemoveInv
    <2>4. CASE loadCredential(h)
      BY <2>4, CarregaInv
    <2>5. ASSUME NEW c \in Payments, liberarSnapshotsSeCobrancaTerminal(h, c) PROVE IInv'
      BY <2>5, EncerraInv
    <2>6. CASE comCredencial(h)
      BY <2>6, CobraInv
    <2>7. CASE CobrancaCriada(h)
      BY <2>7, CriadaInv
    <2>8. CASE Record(h)
      BY <2>8, GravaInv
    <2>9. CASE Apply(h)
      BY <2>9, AplicaInv
    <2>10. CASE saveSecrets(h)
      BY <2>10, GuardaSegredosInv
    <2>11. CASE Wipe(h)
      BY <2>11, ApagaInv
    <2>12. CASE ListSnapshots(h)
      BY <2>12, ListaInv
    <2>13. CASE purgarArquivadasSemPendentes(h)
      BY <2>13, PurgaInv
    <2> QED
      BY <1>2, <2>1, <2>2, <2>3, <2>4, <2>5, <2>6, <2>7, <2>8, <2>9, <2>10, <2>11, <2>12, <2>13
         DEF Step
  <1>3. CASE UNCHANGED vars
    <2>1. ICred(events, row, archived, vault, payment, position, caller, faults, raced, synced)
      BY DEF IInv
    <2>2. ICred(events', row', archived', vault', payment', position', caller', faults', raced', synced')
      BY <1>3, <2>1 DEF vars, rowVars
    <2> QED
      BY <2>2 DEF IInv
  <1> QED
    BY <1>1, <1>2, <1>3 DEF Next

(* What the invariant says of a pending charge, and of a snapshot when all  *)
(* is quiet.                                                                *)
LEMMA IInvImplies ==
    ASSUME IInv
    PROVE  PendingChargeIsReachable /\ SnapshotIsNeeded
  <1>1. ICred(events, row, archived, vault, payment, position, caller, faults, raced, synced)
    BY DEF IInv
  <1>2. PendingChargeIsReachable
    <2>1. SUFFICES ASSUME faults = {}, NEW c \in Payments, payment[c].st = "open", c \notin raced
                   PROVE  credencialDaCobranca(c) /\ AuthenticateWebhook(c)
      BY DEF PendingChargeIsReachable, CobrancasPendentes, Open
    <2>2. PICK id : id = payment[c].cred
      OBVIOUS
    <2>3. CobrancaOK(id, events, row, archived, vault, caller)
      BY <1>1, <2>1, <2>2 DEF ICred, CobrancasOK, EmDia
    <2>4. (id = row \/ id \in archived) /\ "campos" \in vault[id] /\ "webhook" \in vault[id]
      BY <2>3 DEF CobrancaOK, Complete
    <2> QED
      BY <2>2, <2>4 DEF credencialDaCobranca, AuthenticateWebhook, Usable
  <1>3. SnapshotIsNeeded
    <2>1. SUFFICES ASSUME \A h \in Callers : caller[h].pc = "idle", position = Len(events),
                          faults = {}, ~Overtaken, NEW id \in archived
                   PROVE  \E c \in Payments : payment[c].cred = id /\ (payment[c].st = "open" \/ c \in synced)
      BY DEF SnapshotIsNeeded, Open
    <2>2. ~Ultrapassada(events)
      BY <2>1 DEF Overtaken, Ultrapassada
    <2>3. ArquivosOK(events, row, archived, payment, position, caller, synced)
      BY <1>1, <2>1, <2>2 DEF ICred
    <2>4. id \in Credentials /\ events \in Seq(EventosCredencial)
      BY <1>1 DEF ICred, TiposCredencial, LinhaCredencialOK, LogCredencialOK
    <2>5. \A k \in DOMAIN events : ~(k > position)
      BY <2>1, <2>4
    <2>6. ~Purgada(id, events)
      BY <2>3, <2>4, <2>5 DEF ArquivosOK, PurgaVem
    <2>7. \A h \in Callers : ~Vai(caller[h], id)
      BY <2>1 DEF Vai
    <2>8. Precisa(id, payment, synced)
      BY <2>3, <2>4, <2>6, <2>7 DEF ArquivosOK, SairaOK
    <2> QED
      BY <2>8 DEF Precisa
  <1> QED
    BY <1>2, <1>3

(* The types that the argument does without: the calls, the faults, what    *)
(* was recorded of the charges.  The charge a request has just created is   *)
(* what it still has to look at.                                            *)
ICriadas == \A h \in Callers : caller[h].pc = "created" => caller[h].left \subseteq Payments
ITipos ==
    /\ ativo \in BOOLEAN /\ calls \in 0..MaxCalls
    /\ faults \subseteq Faults /\ raced \subseteq Payments /\ synced \subseteq Payments
    /\ ICriadas

(* They hold at first.                                                      *)
LEMMA TiposInit ==
    ASSUME Hipoteses, Init
    PROVE  ITipos
  <1>1. \A h \in Callers : caller[h].pc = "idle"
    BY DEF Init, Rest
  <1>2. 0 \in 0..MaxCalls
    BY DEF Hipoteses
  <1> QED
    BY <1>1, <1>2 DEF Init, ITipos, ICriadas

(* What a request does next, when it did not create a charge.               *)
LEMMA SegueTipo ==
    ASSUME ICriadas, caller \in [Callers -> Chamadas], NEW h \in Callers, NEW s,
           caller' = [caller EXCEPT ![h] = s], s.pc # "created"
    PROVE  ICriadas'
  <1>1. ASSUME NEW g \in Callers PROVE caller'[g] = IF g = h THEN s ELSE caller[g]
    OBVIOUS
  <1> QED
    BY <1>1 DEF ICriadas

(* A step keeps them.                                                       *)
LEMMA TiposNext ==
    ASSUME Hipoteses, IInv, ITipos, [Next]_vars
    PROVE  ITipos'
  <1>0. caller \in [Callers -> Chamadas]
    BY DEF IInv, ICred, ChamadasOK
  <1>1. CASE Project
    BY <1>1 DEF Project, Handle, rowVars, ITipos, ICriadas
  <1>2. CASE UNCHANGED vars
    BY <1>2 DEF vars, rowVars, ITipos, ICriadas
  <1>3. ASSUME NEW h \in Callers, Call(h) PROVE calls' \in 0..MaxCalls
    BY <1>3 DEF Call, ITipos, Hipoteses
  <1>4. ASSUME NEW h \in Callers, NEW s, Set(h, s), s.pc # "created" PROVE ICriadas'
    BY <1>0, <1>4, SegueTipo DEF Set, ITipos
  <1>5. Rest.pc = "idle"
    BY DEF Rest
  <1>6. ASSUME NEW h \in Callers, NEW op, NEW e, NEW n, Set(h, Recording(op, e, n)) PROVE ICriadas'
    <2>1. Recording(op, e, n).pc = "record"
      BY DEF Recording, Rest
    <2> QED
      BY <1>4, <1>6, <2>1
  <1>7. ASSUME NEW k \in {"ledger", "vault", "cut"}, Fault(k) PROVE faults' \subseteq Faults
    BY <1>7 DEF Fault, Faults, ITipos
  <1>8. ASSUME NEW h \in Callers, Step(h) PROVE ITipos'
    <2>0. caller[h] \in Chamadas
      BY <1>0
    <2>a. PICK s : s = caller[h]
      OBVIOUS
    <2>b. s \in Chamadas
      BY <2>0, <2>a
    <2>c. ASSUME NEW p, p # "created" PROVE [s EXCEPT !.pc = p].pc # "created"
      BY <2>b, <2>c DEF Chamadas
    <2>1. CASE ConfigureCredential(h)
      <3>1. PICK id, y : Set(h, [Recording("configurar", Event("Configuradas", id, FALSE), "secrets")
                                   EXCEPT !.keys = y])
        BY <2>1 DEF ConfigureCredential
      <3>2. [Recording("configurar", Event("Configuradas", id, FALSE), "secrets")
               EXCEPT !.keys = y].pc = "record"
        BY DEF Recording, Rest
      <3>3. ICriadas'
        BY <1>4, <3>1, <3>2
      <3> QED
        BY <1>3, <2>1, <3>3 DEF ConfigureCredential, Unread, rowVars, ITipos
    <2>2. CASE RotateWebhookSecret(h)
      <3>1. [Recording("rotacionar", Event("Rotacionado", row, FALSE), "secrets")
               EXCEPT !.keys = {"webhook"}].pc = "record"
        BY DEF Recording, Rest
      <3>2. PICK t : t = [Recording("rotacionar", Event("Rotacionado", row, FALSE), "secrets")
                            EXCEPT !.keys = {"webhook"}]
        OBVIOUS
      <3>3. Set(h, t) /\ t.pc = "record"
        BY <2>2, <3>1, <3>2 DEF RotateWebhookSecret, Set
      <3>4. ICriadas'
        BY <1>4, <3>3
      <3> QED
        BY <1>3, <2>2, <3>4 DEF RotateWebhookSecret, Unread, rowVars, ITipos
    <2>3. CASE RemoveCredential(h)
      <3>1. PICK e, n : e = Event("Removidas", row, CobrancasPendentes # {})
                        /\ n = IF CobrancasPendentes # {} THEN "list" ELSE "wipe"
        OBVIOUS
      <3>2. Set(h, Recording("remover", e, n))
        BY <2>3, <3>1 DEF RemoveCredential
      <3>3. ICriadas'
        BY <1>6, <3>2
      <3> QED
        BY <1>3, <2>3, <3>3 DEF RemoveCredential, Unread, rowVars, ITipos
    <2>4. CASE loadCredential(h)
      <3>1. PICK t : t = [Rest EXCEPT !.pc = "charge", !.op = "cobrar", !.event = Event(Nil, row, FALSE)]
        OBVIOUS
      <3>2. Set(h, t) /\ t.pc = "charge"
        BY <2>4, <3>1 DEF loadCredential, Rest, Set
      <3>3. ICriadas'
        BY <1>4, <3>2
      <3> QED
        BY <1>3, <2>4, <3>3 DEF loadCredential, Unread, rowVars, ITipos
    <2>5. ASSUME NEW c \in Payments, liberarSnapshotsSeCobrancaTerminal(h, c) PROVE ITipos'
      <3>1. PICK t : t = [Rest EXCEPT !.pc = "list", !.op = "encerrar"]
        OBVIOUS
      <3>2. Set(h, t) /\ t.pc = "list"
        BY <2>5, <3>1 DEF liberarSnapshotsSeCobrancaTerminal, Rest, Set
      <3>3. ICriadas'
        BY <1>4, <3>2
      <3> QED
        BY <1>3, <2>5, <3>3 DEF liberarSnapshotsSeCobrancaTerminal, rowVars, ITipos
    <2>6. CASE comCredencial(h)
      <3>1. PICK c \in Payments, atOnce \in BOOLEAN :
                /\ Set(h, IF atOnce THEN [s EXCEPT !.pc = "created", !.left = {c}] ELSE Rest)
                /\ raced' \in {raced, raced \cup {c}}
        BY <2>6, <2>a DEF comCredencial
      <3>2. ICriadas'
        <4>1. CASE atOnce
          <5>1. PICK t : t = [s EXCEPT !.pc = "created", !.left = {c}]
            OBVIOUS
          <5>2. t.left = {c} /\ caller' = [caller EXCEPT ![h] = t]
            BY <2>b, <3>1, <4>1, <5>1 DEF Chamadas, Set
          <5>3. ASSUME NEW g \in Callers PROVE caller'[g] = IF g = h THEN t ELSE caller[g]
            BY <1>0, <5>2
          <5> QED
            BY <5>2, <5>3 DEF ICriadas, ITipos
        <4>2. CASE ~atOnce
          BY <1>4, <1>5, <3>1, <4>2
        <4> QED
          BY <4>1, <4>2
      <3> QED
        BY <2>6, <3>1, <3>2 DEF comCredencial, rowVars, ITipos
    <2>7. CASE CobrancaCriada(h)
      <3>1. ICriadas'
        BY <1>4, <1>5, <2>7 DEF CobrancaCriada
      <3>2. s.left \subseteq Payments
        BY <2>7, <2>a DEF CobrancaCriada, ITipos, ICriadas
      <3>3. synced' \subseteq Payments
        BY <2>7, <2>a, <3>2 DEF CobrancaCriada, ITipos
      <3> QED
        BY <2>7, <3>1, <3>3 DEF CobrancaCriada, rowVars, ITipos
    <2>8. CASE Record(h)
      <3>1. PICK t : t = [s EXCEPT !.pc = "apply"]
        OBVIOUS
      <3>2. t.pc # "created"
        BY <2>c, <3>1
      <3>3. Set(h, t) \/ Set(h, Rest)
        BY <2>8, <2>a, <3>1 DEF Record
      <3>4. ICriadas'
        BY <1>4, <1>5, <3>2, <3>3
      <3>5. faults' \subseteq Faults
        BY <1>7, <2>8 DEF Record, Sound, ITipos
      <3> QED
        BY <2>8, <3>4, <3>5 DEF Record, rowVars, ITipos
    <2>9. CASE Apply(h)
      <3>1. PICK t : t = [s EXCEPT !.pc = s.next]
        OBVIOUS
      <3>2. s.next # "created"
        BY <2>b DEF Chamadas
      <3>3. t.pc # "created"
        BY <2>c, <3>1, <3>2
      <3>4. Set(h, t) \/ Set(h, Rest)
        BY <2>9, <2>a, <3>1 DEF Apply
      <3>5. ICriadas'
        BY <1>4, <1>5, <3>3, <3>4
      <3>6. faults' \subseteq Faults
        BY <1>7, <2>9 DEF Apply, Sound, ITipos
      <3>7. ativo' \in BOOLEAN
        BY <2>9 DEF Apply, Handle, CutShort, rowVars, ITipos
      <3> QED
        BY <2>9, <3>5, <3>6, <3>7 DEF Apply, ITipos
    <2>10. CASE saveSecrets(h)
      <3>1. ICriadas'
        BY <1>4, <1>5, <2>10 DEF saveSecrets
      <3>2. faults' \subseteq Faults
        BY <1>7, <2>10 DEF saveSecrets, Sound, ITipos
      <3> QED
        BY <2>10, <3>1, <3>2 DEF saveSecrets, rowVars, ITipos
    <2>11. CASE Wipe(h)
      <3>1. PICK t : t = [s EXCEPT !.pc = "purge"]
        OBVIOUS
      <3>2. t.pc # "created"
        BY <2>c, <3>1
      <3>3. Set(h, t) \/ Set(h, Rest)
        BY <2>11, <2>a, <3>1 DEF Wipe
      <3>4. ICriadas'
        BY <1>4, <1>5, <3>2, <3>3
      <3>5. faults' \subseteq Faults
        BY <1>7, <2>11 DEF Wipe, Sound, ITipos
      <3> QED
        BY <2>11, <3>4, <3>5 DEF Wipe, rowVars, ITipos
    <2>12. CASE ListSnapshots(h)
      <3>1. PICK t : t = [s EXCEPT !.pc = "purge", !.left = archived]
        OBVIOUS
      <3>2. t.pc = "purge"
        BY <2>b, <3>1 DEF Chamadas
      <3>3. Set(h, t) \/ Set(h, Rest)
        BY <2>12, <2>a, <3>1 DEF ListSnapshots
      <3>4. ICriadas'
        BY <1>4, <1>5, <3>2, <3>3
      <3> QED
        BY <2>12, <3>4 DEF ListSnapshots, rowVars, ITipos
    <2>13. CASE purgarArquivadasSemPendentes(h)
      <3>1. s.pc = "purge"
        BY <2>13, <2>a DEF purgarArquivadasSemPendentes
      <3>2. PICK id, t : /\ Set(h, t)
                         /\ \/ t = [[s EXCEPT !.left = @ \ {id}] EXCEPT !.pc = "record", !.next = "wipe",
                                        !.event = Event("Purgadas", id, FALSE)]
                            \/ t = Rest
                            \/ t = [s EXCEPT !.left = @ \ {id}]
        BY <2>13, <2>a DEF purgarArquivadasSemPendentes
      <3>3. t.pc # "created"
        BY <1>5, <2>b, <3>1, <3>2 DEF Chamadas
      <3>4. ICriadas'
        BY <1>4, <3>2, <3>3
      <3> QED
        BY <2>13, <3>4 DEF purgarArquivadasSemPendentes, rowVars, ITipos
    <2> QED
      BY <1>8, <2>1, <2>2, <2>3, <2>4, <2>5, <2>6, <2>7, <2>8, <2>9, <2>10, <2>11, <2>12, <2>13
         DEF Step
  <1> QED
    BY <1>1, <1>2, <1>8 DEF Next

(* With the invariant, they are the types of the variables.                 *)
LEMMA TiposImplies ==
    ASSUME Hipoteses, IInv, ITipos
    PROVE  TypeOK
  <1>1. TiposCredencial(events, row, archived, vault, payment, position, synced)
    BY DEF IInv, ICred
  <1>2. \A i \in DOMAIN events : events[i].id \in Credentials \cup {Nil}
    <2>1. events \in Seq(EventosCredencial)
      BY <1>1 DEF TiposCredencial, LogCredencialOK
    <2>2. ASSUME NEW i \in DOMAIN events PROVE events[i] \in EventosCredencial
      BY <2>1
    <2> QED
      BY <2>2 DEF EventosCredencial
  <1>3. position \in 0..Len(events)
    <2>1. events \in Seq(EventosCredencial) /\ position \in Nat /\ position <= Len(events)
      BY <1>1 DEF TiposCredencial, LogCredencialOK
    <2> QED
      BY <2>1
  <1> QED
    BY <1>1, <1>2, <1>3 DEF TypeOK, ITipos, TiposCredencial, LinhaCredencialOK, PagamentosOK
=============================================================================
