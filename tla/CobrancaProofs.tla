--------------------------- MODULE CobrancaProofs ---------------------------
(***************************************************************************)
(* Proofs about Cobranca, for any charges and any number of requests at a  *)
(* time.  The invariant says what each request may still record: an event  *)
(* that agrees with the row it was computed from and with the provider,    *)
(* whatever the others have recorded meanwhile.                            *)
(***************************************************************************)
EXTENDS Cobranca, WellFoundedInduction, TLAPS

Payload == [tipo : DaCobranca \cup DaObrigacao \cup {"Webhook"}, c : Charges \cup {None},
            st : Estados, ext : BOOLEAN, pago : BOOLEAN, mes : BOOLEAN, seen : Nat]
Nexts == {"idle", "provider", "confirm", "webhook", "guard", "cancelopen"}
Ops == {None, "criar", "externo", "consultar", "cancelar", "webhook", "anular", "reativar"}
Pcs == Nexts \cup {"save", "apply", "ask", "note"}
Msgs == {None, "Pending", "Success", "Expired"}
Handling == [pc : Pcs, op : Ops, c : Charges \cup {None}, seen : Nat, todo : Seq(Payload),
             next : Nexts, left : SUBSET Charges, msg : Msgs]
Is(s, pc, op, c, seen, todo, next, left, msg) ==
    /\ s \in Handling /\ s.pc = pc /\ s.op = op /\ s.c = c /\ s.seen = seen
    /\ s.todo = todo /\ s.next = next /\ s.left = left /\ s.msg = msg

\* The parts of the state are parameters, L of the ledger, T of the table of charges
\* and P of the provider, so that the facts can be said of the state after a step.
OfCharge(e) == e.tipo \in DaCobranca

\* Nobody writes away an external payment or turns a cancellation into a payment.
Stands(r, e) ==
    /\ cobrancaPagaExternamente(r) => Success(e.st)
    /\ r.st = "cancelada" => ~Success(e.st)

EventOK(e, L, P) ==
    /\ e \in Payload
    /\ OfCharge(e) => e.c \in Charges /\ (Success(e.st) => e.ext \/ P[e.c] = "Success")
    /\ e.seen # 0 =>
          /\ e.seen \in DOMAIN L /\ OfCharge(L[e.seen]) /\ L[e.seen].c = e.c
          /\ OfCharge(e) => Stands(L[e.seen], e)
    /\ e.tipo \in {"Confirmada", "Webhook"} => e.c \in Charges
    /\ e.tipo = "Solicitada" => e.st = "aguardando"

\* The events of a charge agree on what it pays.
SameMonth(e, L) == \A j \in DOMAIN L :
    OfCharge(e) /\ OfCharge(L[j]) /\ L[j].c = e.c => L[j].mes = e.mes

LogOK(L, P) == \A i \in DOMAIN L :
    EventOK(L[i], L, P) /\ L[i].seen < i /\ SameMonth(L[i], L)

\* The events a request has still to record.
TodoOK(s, e, L, P) ==
    /\ EventOK(e, L, P) /\ SameMonth(e, L)
    /\ OfCharge(e) => e.c = s.c /\ (Success(e.st) => s.next = "confirm")
    /\ OfCharge(e) /\ e.seen = 0 => Len(s.todo) = 1
    /\ e.c \in {s.c, None}

Saving(s) == s.pc \in {"save", "apply"}
At(s, pc) == s.pc = pc \/ (Saving(s) /\ s.next = pc)

\* What a request was computed from stays true until it has recorded it.
HandlerOK(s, L, T, P) ==
    /\ s \in Handling
    /\ \A c \in s.left : T[c] # 0
    /\ s.op = "webhook" /\ s.pc # "idle" =>
          s.c \in Charges /\ P[s.c] # "none" /\ s.msg # None
          /\ (s.msg = "Success" => P[s.c] = "Success")
    /\ Saving(s) => s.todo # <<>> /\ \A k \in DOMAIN s.todo : TodoOK(s, s.todo[k], L, P)
    /\ s.pc = "apply" => \E k \in DOMAIN L : L[k] = s.todo[1]
    /\ At(s, "confirm") => s.c \in Charges
    /\ At(s, "webhook") => s.op = "webhook" /\ s.next = "webhook"
    /\ At(s, "provider") => s.c \in Charges /\ P[s.c] = "none" /\ s.op = "criar"
    /\ Saving(s) /\ s.next = "provider" => Len(s.todo) = 1 /\ s.todo[1].tipo = "Solicitada"
    /\ s.pc = "provider" => \E k \in DOMAIN L : L[k].c = s.c /\ L[k].tipo = "Solicitada"
    /\ At(s, "guard") \/ At(s, "cancelopen") \/ (s.pc = "ask" /\ s.next = "guard") =>
          s.op \in {"anular", "reativar"}
    /\ s.pc \in {"ask", "note"} =>
          /\ s.c \in Charges /\ s.seen \in DOMAIN L
          /\ OfCharge(L[s.seen]) /\ L[s.seen].c = s.c
          /\ ~cobrancaPagaExternamente(L[s.seen])
          /\ s.op = "externo" => ~isTerminalChargeStatus(L[s.seen].st)
          /\ s.pc = "note" => s.op = "webhook"

\* A charge begins with a request that no other knows of, and one request creates it.
Begins(s) == s.pc = "save" /\ OfCharge(s.todo[1]) /\ s.todo[1].seen = 0
Logged(c, L) == \E i \in DOMAIN L : L[i].c = c
BeginsOK == \A h \in Handlers : Begins(handler[h]) =>
    /\ ~Logged(handler[h].c, log)
    /\ \A g \in Handlers \ {h} : handler[g].c # handler[h].c
CreatesOK == \A g, h \in Handlers :
    At(handler[g], "provider") /\ At(handler[h], "provider") /\ handler[g].c = handler[h].c
        => g = h
ProviderOK ==
    /\ provider \in [Charges -> {"none", "Pending", "Success", "Expired"}]
    /\ \A c \in Charges : provider[c] # "none" => Logged(c, log)

RowsOK ==
    /\ table \in [Charges -> Nat]
    /\ \A c \in Charges : table[c] # 0 =>
          table[c] \in DOMAIN log /\ log[table[c]].c = c /\ OfCharge(log[table[c]])
    /\ obligations \subseteq {i \in DOMAIN log : log[i].tipo \in DaObrigacao}
    /\ webhooks \subseteq Charges /\ shared \in Charges \cup {None}
    /\ cursor \in Nat /\ cursor <= Len(log) /\ ops \in Nat /\ ops <= MaxOps
    /\ failed \subseteq Kinds /\ rewound \in BOOLEAN

\* A payment that is on record and is not confirmed has a request that will confirm it:
\* one that is about to show the payment in the table, or one that has found it there.
Confirmed(c) == \E i \in DOMAIN log : log[i].tipo = "Confirmada" /\ log[i].c = c
Shows(s, e) == s.pc = "apply" /\ s.next = "confirm" /\ s.todo[1] = e
Confirms(s, c) ==
    s.c = c /\ (At(s, "confirm") \/ (s.pc = "save" /\ s.todo[1].tipo = "Confirmada"))
Unconfirmed(i) ==
    OfCharge(log[i]) /\ log[i].mes /\ Success(log[i].st) /\ ~Confirmed(log[i].c)
ConfirmOK ==
    failed = {} /\ ~rewound =>
        \A i \in DOMAIN log : Unconfirmed(i) =>
            /\ i > table[log[i].c] => \E h \in Handlers : Shows(handler[h], log[i])
            /\ i = table[log[i].c] => \E h \in Handlers : Confirms(handler[h], log[i].c)

HandlersOK == \A h \in Handlers : HandlerOK(handler[h], log, table, provider)

IInv ==
    /\ log \in Seq(Payload) /\ handler \in [Handlers -> Handling]
    /\ LogOK(log, provider) /\ HandlersOK /\ BeginsOK /\ CreatesOK /\ ProviderOK
    /\ RowsOK /\ ConfirmOK

-----------------------------------------------------------------------------
(* What a request was computed from stays true.                             *)

(* An event is recorded: what others have still to record agrees with it.   *)
LEMMA LogGrows ==
    ASSUME NEW L \in Seq(Payload), NEW e \in Payload, NEW M, M = Append(L, e),
           NEW s, NEW T, NEW P, HandlerOK(s, L, T, P),
           \A k \in DOMAIN s.todo : SameMonth(s.todo[k], <<e>>)
    PROVE  HandlerOK(s, M, T, P)
  <1>1. /\ DOMAIN L = 1..Len(L) /\ DOMAIN M = 1..(Len(L) + 1) /\ Len(L) \in Nat
        /\ \A i \in DOMAIN L : i \in DOMAIN M /\ M[i] = L[i]
        /\ \A i \in DOMAIN M : i \in DOMAIN L \/ M[i] = e
    OBVIOUS
  <1>2. ASSUME NEW k \in DOMAIN s.todo, TodoOK(s, s.todo[k], L, P)
        PROVE  TodoOK(s, s.todo[k], M, P)
    <2>1. EventOK(s.todo[k], M, P)
      BY <1>1, <1>2 DEF TodoOK, EventOK
    <2>2. SameMonth(s.todo[k], M)
      <3>1. DOMAIN <<e>> = {1} /\ <<e>>[1] = e
        OBVIOUS
      <3> QED
        BY <1>1, <1>2, <3>1 DEF TodoOK, SameMonth
    <2> QED
      BY <1>2, <2>1, <2>2 DEF TodoOK
  <1> QED
    BY <1>1, <1>2 DEF HandlerOK

(* Rows do not disappear.                                                   *)
LEMMA TableGrows ==
    ASSUME NEW L, NEW s, NEW T, NEW U, NEW P, HandlerOK(s, L, T, P),
           \A c \in Charges : T[c] # 0 => U[c] # 0
    PROVE  HandlerOK(s, L, U, P)
  BY DEF HandlerOK, Handling

(* A charge that was paid stays paid at the provider.                       *)
LEMMA ProviderGrows ==
    ASSUME NEW L, NEW s, NEW T, NEW P, NEW Q, HandlerOK(s, L, T, P),
           \A c \in Charges : /\ P[c] = "Success" => Q[c] = "Success"
                              /\ P[c] # "none" => Q[c] # "none",
           At(s, "provider") => Q[s.c] = "none"
    PROVE  HandlerOK(s, L, T, Q)
  <1>1. ASSUME NEW k \in DOMAIN s.todo, TodoOK(s, s.todo[k], L, P)
        PROVE  TodoOK(s, s.todo[k], L, Q)
    <2>1. EventOK(s.todo[k], L, Q)
      BY <1>1 DEF TodoOK, EventOK
    <2> QED
      BY <1>1, <2>1 DEF TodoOK
  <1> QED
    BY <1>1 DEF HandlerOK

(* The ledger too.                                                          *)
LEMMA LogOKProvider ==
    ASSUME NEW L, NEW P, NEW Q, LogOK(L, P),
           \A c \in Charges : P[c] = "Success" => Q[c] = "Success"
    PROVE  LogOK(L, Q)
  BY DEF LogOK, EventOK

(* A step of a request that records nothing.                                *)
LEMMA HandlerStep ==
    ASSUME IInv, NEW h \in Handlers, NEW s, handler' = [handler EXCEPT ![h] = s],
           HandlerOK(s, log, table, provider'),
           UNCHANGED <<log, table, obligations, cursor, rewound>>,
           webhooks' \subseteq Charges, shared' \in Charges \cup {None},
           ops' \in Nat, ops' <= MaxOps, failed \subseteq failed', failed' \subseteq Kinds,
           provider' \in [Charges -> {"none", "Pending", "Success", "Expired"}],
           \A c \in Charges :
              /\ provider[c] = "Success" => provider'[c] = "Success"
              /\ provider[c] # "none" => provider'[c] # "none"
              /\ provider'[c] # provider[c] /\ provider[c] = "none" =>
                    At(handler[h], "provider") /\ handler[h].c = c /\ Logged(c, log),
           s.c = handler[h].c \/ s.c = None \/ Logged(s.c, log) \/ s.c \in Fresh,
           Begins(s) \/ At(s, "provider") => s.c \in Fresh,
           failed' = {} => \A i \in DOMAIN log : Unconfirmed(i) =>
              /\ ~Shows(handler[h], log[i])
              /\ i = table[log[i].c] /\ Confirms(handler[h], log[i].c) =>
                    Confirms(s, log[i].c),
           None \notin Charges
    PROVE  IInv'
  <1>1. /\ handler' \in [Handlers -> Handling] /\ handler'[h] = s
        /\ \A g \in Handlers \ {h} : handler'[g] = handler[g]
    BY DEF IInv, HandlerOK
  <1>2. log' \in Seq(Payload) /\ LogOK(log', provider')
    BY LogOKProvider DEF IInv
  <1>3. HandlersOK'
    <2>1. ASSUME NEW g \in Handlers \ {h} PROVE HandlerOK(handler[g], log, table, provider')
      <3>1. HandlerOK(handler[g], log, table, provider)
        BY DEF IInv, HandlersOK
      <3>2. At(handler[g], "provider") => provider'[handler[g].c] = "none"
        <4> SUFFICES ASSUME At(handler[g], "provider"), provider'[handler[g].c] # "none"
                     PROVE  FALSE
          OBVIOUS
        <4>1. handler[g].c \in Charges /\ provider[handler[g].c] = "none"
          BY <3>1 DEF HandlerOK
        <4>2. At(handler[h], "provider") /\ handler[h].c = handler[g].c
          BY <4>1
        <4> QED
          BY <4>2 DEF IInv, CreatesOK
      <3> QED
        BY <3>1, <3>2, ProviderGrows
    <2> QED
      BY <1>1, <2>1 DEF HandlersOK
  <1>4. BeginsOK'
    <2>1. ASSUME NEW g \in Handlers \ {h}, Begins(handler[g])
          PROVE  ~Logged(handler[g].c, log) /\ \A f \in Handlers \ {g} : handler'[f].c # handler[g].c
      <3>1. ~Logged(handler[g].c, log) /\ \A f \in Handlers \ {g} : handler[f].c # handler[g].c
        BY <2>1 DEF IInv, BeginsOK
      <3>2. handler[g].c \in Charges
        <4>1. HandlerOK(handler[g], log, table, provider)
          BY DEF IInv, HandlersOK
        <4>2. 1 \in DOMAIN handler[g].todo
          BY <2>1, <4>1 DEF Begins, HandlerOK, Saving, Handling
        <4> QED
          BY <2>1, <4>1, <4>2 DEF Begins, HandlerOK, Saving, TodoOK, EventOK
      <3>3. s.c # handler[g].c
        BY <3>1, <3>2 DEF Fresh
      <3> QED
        BY <1>1, <3>1, <3>3
    <2>2. Begins(s) => ~Logged(s.c, log) /\ \A g \in Handlers : handler[g].c # s.c
      BY DEF Fresh, Logged
    <2> QED
      BY <1>1, <2>1, <2>2 DEF BeginsOK
  <1>5. CreatesOK'
    <2>1. At(s, "provider") => \A g \in Handlers : handler[g].c # s.c
      BY DEF Fresh
    <2> QED
      BY <1>1, <2>1 DEF IInv, CreatesOK
  <1>6. ProviderOK'
    BY DEF IInv, ProviderOK
  <1>7. RowsOK'
    BY DEF IInv, RowsOK
  <1>8. ConfirmOK'
    <2> SUFFICES ASSUME failed' = {}, ~rewound', NEW i \in DOMAIN log, Unconfirmed(i)'
                 PROVE  /\ i > table[log[i].c] => \E g \in Handlers : Shows(handler'[g], log[i])
                        /\ i = table[log[i].c] => \E g \in Handlers : Confirms(handler'[g], log[i].c)
      BY DEF ConfirmOK
    <2>1. failed = {} /\ ~rewound /\ Unconfirmed(i)
      BY DEF Unconfirmed, Confirmed
    <2>2. /\ i > table[log[i].c] => \E g \in Handlers : Shows(handler[g], log[i])
          /\ i = table[log[i].c] => \E g \in Handlers : Confirms(handler[g], log[i].c)
      BY <2>1 DEF IInv, ConfirmOK
    <2> QED
      BY <1>1, <2>1, <2>2
  <1> QED
    BY <1>1, <1>2, <1>3, <1>4, <1>5, <1>6, <1>7, <1>8 DEF IInv

-----------------------------------------------------------------------------
(* Steps that no request makes.                                             *)

(* The payer pays, or does not.                                             *)
LEMMA SettleInv ==
    ASSUME IInv, NEW c \in Charges, NEW outcome \in {"Success", "Expired"}, Settle(c, outcome)
    PROVE  IInv'
  <1>1. /\ provider' \in [Charges -> {"none", "Pending", "Success", "Expired"}]
        /\ \A d \in Charges : /\ provider[d] = "Success" => provider'[d] = "Success"
                              /\ provider[d] # "none" <=> provider'[d] # "none"
        /\ UNCHANGED <<log, table, obligations, webhooks, shared, cursor, handler, ops, failed,
                       rewound>>
    BY DEF Settle, IInv, ProviderOK, readModel
  <1>2. HandlersOK'
    <2>1. ASSUME NEW g \in Handlers PROVE HandlerOK(handler[g], log, table, provider')
      <3>1. HandlerOK(handler[g], log, table, provider)
        BY DEF IInv, HandlersOK
      <3>2. At(handler[g], "provider") => provider'[handler[g].c] = "none"
        BY <1>1, <3>1 DEF HandlerOK
      <3> QED
        BY <1>1, <3>1, <3>2, ProviderGrows
    <2> QED
      BY <1>1, <2>1 DEF HandlersOK
  <1>3. LogOK(log', provider') /\ log' \in Seq(Payload) /\ handler' \in [Handlers -> Handling]
    BY <1>1, LogOKProvider DEF IInv
  <1>4. BeginsOK' /\ CreatesOK' /\ ProviderOK' /\ RowsOK'
    BY <1>1 DEF IInv, BeginsOK, CreatesOK, ProviderOK, RowsOK
  <1>5. ConfirmOK'
    BY <1>1 DEF IInv, ConfirmOK, Unconfirmed, Confirmed
  <1> QED
    BY <1>2, <1>3, <1>4, <1>5 DEF IInv

(* A request that is not in progress.                                       *)
LEMMA IdleOK ==
    ASSUME NEW L, NEW T, NEW P
    PROVE  HandlerOK(Idle, L, T, P) /\ ~Begins(Idle) /\ Idle.c = None
           /\ \A pc : At(Idle, pc) => pc = "idle"
  <1>1. Idle \in Handling
    BY DEF Idle, Handling, Pcs, Msgs, Nexts, Ops
  <1>2. Idle.pc = "idle" /\ Idle.op = None /\ Idle.left = {} /\ Idle.c = None
    BY DEF Idle
  <1> QED
    BY <1>1, <1>2 DEF HandlerOK, At, Saving, Begins

(* One field of a request is changed.                                       *)
LEMMA With ==
    ASSUME NEW r \in Handling
    PROVE  /\ \A v \in Pcs : Is([r EXCEPT !.pc = v],
                      v, r.op, r.c, r.seen, r.todo, r.next, r.left, r.msg)
           /\ \A v \in Ops : Is([r EXCEPT !.op = v],
                      r.pc, v, r.c, r.seen, r.todo, r.next, r.left, r.msg)
           /\ \A v \in Charges \cup {None} : Is([r EXCEPT !.c = v],
                      r.pc, r.op, v, r.seen, r.todo, r.next, r.left, r.msg)
           /\ \A v \in Nat : Is([r EXCEPT !.seen = v],
                      r.pc, r.op, r.c, v, r.todo, r.next, r.left, r.msg)
           /\ \A v \in Seq(Payload) : Is([r EXCEPT !.todo = v],
                      r.pc, r.op, r.c, r.seen, v, r.next, r.left, r.msg)
           /\ \A v \in Nexts : Is([r EXCEPT !.next = v],
                      r.pc, r.op, r.c, r.seen, r.todo, v, r.left, r.msg)
           /\ \A v \in SUBSET Charges : Is([r EXCEPT !.left = v],
                      r.pc, r.op, r.c, r.seen, r.todo, r.next, v, r.msg)
           /\ \A v \in Msgs : Is([r EXCEPT !.msg = v],
                      r.pc, r.op, r.c, r.seen, r.todo, r.next, r.left, v)
  <1>1. ASSUME NEW v \in Pcs
        PROVE  Is([r EXCEPT !.pc = v], v, r.op, r.c, r.seen, r.todo, r.next, r.left, r.msg)
    <2>1. [r EXCEPT !.pc = v] =
           [pc |-> v, op |-> r.op, c |-> r.c, seen |-> r.seen, todo |-> r.todo,
            next |-> r.next, left |-> r.left, msg |-> r.msg]
      BY DEF Handling
    <2> QED
      BY <2>1 DEF Is, Handling, Pcs, Msgs
  <1>2. ASSUME NEW v \in Ops
        PROVE  Is([r EXCEPT !.op = v], r.pc, v, r.c, r.seen, r.todo, r.next, r.left, r.msg)
    <2>1. [r EXCEPT !.op = v] =
           [pc |-> r.pc, op |-> v, c |-> r.c, seen |-> r.seen, todo |-> r.todo,
            next |-> r.next, left |-> r.left, msg |-> r.msg]
      BY DEF Handling
    <2> QED
      BY <2>1 DEF Is, Handling, Pcs, Msgs
  <1>3. ASSUME NEW v \in Charges \cup {None}
        PROVE  Is([r EXCEPT !.c = v], r.pc, r.op, v, r.seen, r.todo, r.next, r.left, r.msg)
    <2>1. [r EXCEPT !.c = v] =
           [pc |-> r.pc, op |-> r.op, c |-> v, seen |-> r.seen, todo |-> r.todo,
            next |-> r.next, left |-> r.left, msg |-> r.msg]
      BY DEF Handling
    <2> QED
      BY <2>1 DEF Is, Handling, Pcs, Msgs
  <1>4. ASSUME NEW v \in Nat
        PROVE  Is([r EXCEPT !.seen = v], r.pc, r.op, r.c, v, r.todo, r.next, r.left, r.msg)
    <2>1. [r EXCEPT !.seen = v] =
           [pc |-> r.pc, op |-> r.op, c |-> r.c, seen |-> v, todo |-> r.todo,
            next |-> r.next, left |-> r.left, msg |-> r.msg]
      BY DEF Handling
    <2> QED
      BY <2>1 DEF Is, Handling, Pcs, Msgs
  <1>5. ASSUME NEW v \in Seq(Payload)
        PROVE  Is([r EXCEPT !.todo = v], r.pc, r.op, r.c, r.seen, v, r.next, r.left, r.msg)
    <2>1. [r EXCEPT !.todo = v] =
           [pc |-> r.pc, op |-> r.op, c |-> r.c, seen |-> r.seen, todo |-> v,
            next |-> r.next, left |-> r.left, msg |-> r.msg]
      BY DEF Handling
    <2> QED
      BY <2>1 DEF Is, Handling, Pcs, Msgs
  <1>6. ASSUME NEW v \in Nexts
        PROVE  Is([r EXCEPT !.next = v], r.pc, r.op, r.c, r.seen, r.todo, v, r.left, r.msg)
    <2>1. [r EXCEPT !.next = v] =
           [pc |-> r.pc, op |-> r.op, c |-> r.c, seen |-> r.seen, todo |-> r.todo,
            next |-> v, left |-> r.left, msg |-> r.msg]
      BY DEF Handling
    <2> QED
      BY <2>1 DEF Is, Handling, Pcs, Msgs
  <1>7. ASSUME NEW v \in SUBSET Charges
        PROVE  Is([r EXCEPT !.left = v], r.pc, r.op, r.c, r.seen, r.todo, r.next, v, r.msg)
    <2>1. [r EXCEPT !.left = v] =
           [pc |-> r.pc, op |-> r.op, c |-> r.c, seen |-> r.seen, todo |-> r.todo,
            next |-> r.next, left |-> v, msg |-> r.msg]
      BY DEF Handling
    <2> QED
      BY <2>1 DEF Is, Handling, Pcs, Msgs
  <1>8. ASSUME NEW v \in Msgs
        PROVE  Is([r EXCEPT !.msg = v], r.pc, r.op, r.c, r.seen, r.todo, r.next, r.left, v)
    <2>1. [r EXCEPT !.msg = v] =
           [pc |-> r.pc, op |-> r.op, c |-> r.c, seen |-> r.seen, todo |-> r.todo,
            next |-> r.next, left |-> r.left, msg |-> v]
      BY DEF Handling
    <2> QED
      BY <2>1 DEF Is, Handling, Pcs, Msgs
  <1> QED
    BY <1>1, <1>2, <1>3, <1>4, <1>5, <1>6, <1>7, <1>8

(* A request that has got its state.                                        *)
LEMMA StateFacts ==
    ASSUME NEW op \in Ops, NEW c \in Charges \cup {None}, NEW pc \in Pcs
    PROVE  Is(State(op, c, pc), pc, op, c, 0, <<>>, "idle", {}, None)
  <1>0. Is(Idle, "idle", None, None, 0, <<>>, "idle", {}, None)
    BY IdleOK DEF Idle, HandlerOK, Is
  <1>1. PICK i \in Handling : i = Idle
    BY <1>0 DEF Is
  <1>2. Is([i EXCEPT !.op = op], i.pc, op, i.c, i.seen, i.todo, i.next, i.left, i.msg)
    BY With
  <1>3. PICK a \in Handling : a = [i EXCEPT !.op = op]
    BY <1>2 DEF Is
  <1>4. Is([a EXCEPT !.c = c], a.pc, a.op, c, a.seen, a.todo, a.next, a.left, a.msg)
    BY With
  <1>5. PICK b \in Handling : b = [a EXCEPT !.c = c]
    BY <1>4 DEF Is
  <1>6. Is([b EXCEPT !.pc = pc], pc, b.op, b.c, b.seen, b.todo, b.next, b.left, b.msg)
    BY With
  <1>7. State(op, c, pc) = [b EXCEPT !.pc = pc]
    BY <1>1, <1>3, <1>5 DEF State
  <1> QED
    BY <1>0, <1>1, <1>2, <1>3, <1>4, <1>5, <1>6, <1>7 DEF Is

(* A crash ends every request.                                              *)
LEMMA CrashInv == ASSUME IInv, Crash PROVE IInv'
  <1>1. /\ UNCHANGED <<provider, log, table, obligations, webhooks, shared, cursor, ops, rewound>>
        /\ handler' = [h \in Handlers |-> Idle] /\ "crash" \in failed' /\ failed' \subseteq Kinds
    BY DEF Crash, Fails, readModel, Kinds, IInv, RowsOK
  <1>2. \A h \in Handlers : handler'[h] = Idle
    BY <1>1
  <1>3. /\ HandlersOK' /\ BeginsOK' /\ CreatesOK' /\ handler' \in [Handlers -> Handling]
    BY <1>1, <1>2, IdleOK DEF HandlersOK, BeginsOK, CreatesOK, HandlerOK
  <1>4. log' \in Seq(Payload) /\ LogOK(log', provider') /\ ProviderOK' /\ RowsOK'
    BY <1>1 DEF IInv, ProviderOK, RowsOK
  <1>5. ConfirmOK'
    BY <1>1 DEF ConfirmOK
  <1> QED
    BY <1>3, <1>4, <1>5 DEF IInv

-----------------------------------------------------------------------------
(* Events are recorded and applied.                                         *)

(* A set of numbers that is bounded has a greatest one.                     *)
LEMMA GreatestExists ==
    ASSUME NEW n \in Nat, NEW S \in SUBSET (1..n), S # {}
    PROVE  \E m \in S : \A k \in S : k <= m
  <1> DEFINE NN == {n - k : k \in S}
  <1>0. \A k \in S : k \in Nat /\ k <= n /\ n - k \in Nat
    OBVIOUS
  <1>1. NN \subseteq Nat /\ NN # {}
    BY <1>0
  <1>2. PICK x \in NN : \A y \in NN : <<y, x>> \notin OpToRel(<, Nat)
    <2> HIDE DEF NN
    <2> QED
      BY <1>1, WFMin, NatLessThanWellFounded
  <1>3. \A y \in NN : ~(y < x)
    <2> HIDE DEF NN
    <2> QED
      BY <1>1, <1>2, Zenon DEF OpToRel
  <1>4. PICK m \in S : x = n - m
    OBVIOUS
  <1>5. \A k \in S : k <= m
    BY <1>0, <1>3, <1>4
  <1> QED
    BY <1>5

(* The latest event of a stream that has one.                               *)
LEMMA LatestFacts ==
    ASSUME log \in Seq(Payload), NEW k \in DOMAIN log, NEW e, log[k] = e
    PROVE  /\ Latest(e) \in DOMAIN log
           /\ Stream(log[Latest(e)]) = Stream(e) /\ log[Latest(e)].c = e.c
           /\ \A i \in DOMAIN log : Stream(log[i]) = Stream(e) /\ log[i].c = e.c => i <= Latest(e)
  <1> DEFINE S == {i \in DOMAIN log : Stream(log[i]) = Stream(e) /\ log[i].c = e.c}
  <1>1. Len(log) \in Nat /\ DOMAIN log = 1..Len(log) /\ S \in SUBSET (1..Len(log)) /\ k \in S
    OBVIOUS
  <1>2. \E m \in S : \A i \in S : i <= m
    <2> HIDE DEF S
    <2> QED
      BY <1>1, GreatestExists
  <1>3. \E m \in DOMAIN log : /\ Stream(log[m]) = Stream(e) /\ log[m].c = e.c
                              /\ \A i \in DOMAIN log :
                                    Stream(log[i]) = Stream(e) /\ log[i].c = e.c => i <= m
    BY <1>2
  <1> QED
    BY <1>3 DEF Latest

(* What the read model shows after an event.                                *)
LEMMA HandleFacts ==
    ASSUME IInv, NEW i \in DOMAIN log, Handle(i)
    PROVE  /\ table' \in [Charges -> Nat]
           /\ OfCharge(log[i]) => log[i].c \in Charges /\ table'[log[i].c] = i
           /\ \A c \in Charges : table'[c] = table[c] \/ (OfCharge(log[i]) /\ c = log[i].c)
           /\ \A c \in Charges : table[c] # 0 => table'[c] # 0
           /\ \A c \in Charges : table'[c] # 0 =>
                 table'[c] \in DOMAIN log /\ log[table'[c]].c = c /\ OfCharge(log[table'[c]])
           /\ obligations' \subseteq {k \in DOMAIN log : log[k].tipo \in DaObrigacao}
           /\ webhooks' \subseteq Charges
  <1>0. table \in [Charges -> Nat] /\ i \in Nat \ {0}
    BY DEF IInv, RowsOK
  <1>1. OfCharge(log[i]) => log[i].c \in Charges
    BY DEF IInv, LogOK, EventOK
  <1>2. table' = IF OfCharge(log[i]) THEN [table EXCEPT ![log[i].c] = i] ELSE table
    BY DEF Handle, OfCharge
  <1>3. /\ table' \in [Charges -> Nat]
        /\ OfCharge(log[i]) => table'[log[i].c] = i
        /\ \A c \in Charges : table'[c] = table[c] \/ (OfCharge(log[i]) /\ c = log[i].c)
    BY <1>0, <1>1, <1>2
  <1>4. \A c \in Charges : table[c] # 0 => table'[c] # 0
    BY <1>0, <1>3
  <1>5. ASSUME NEW c \in Charges, table'[c] # 0
        PROVE  table'[c] \in DOMAIN log /\ log[table'[c]].c = c /\ OfCharge(log[table'[c]])
    BY <1>3, <1>5 DEF IInv, RowsOK
  <1>6. obligations' \subseteq {k \in DOMAIN log : log[k].tipo \in DaObrigacao}
    BY DEF Handle, IInv, RowsOK
  <1>7. webhooks' \subseteq Charges
    <2>1. log[i].tipo = "Webhook" => log[i].c \in Charges
      BY DEF IInv, LogOK, EventOK
    <2> QED
      BY <2>1 DEF Handle, IInv, RowsOK
  <1> QED
    BY <1>1, <1>3, <1>4, <1>5, <1>6, <1>7

(* The manager handles the next event; a payment that it shows has still a  *)
(* request that has not shown it.                                           *)
LEMMA ProjectInv == ASSUME IInv, Project PROVE IInv'
  <1> DEFINE n == cursor + 1
  <1>0. /\ cursor < Len(log) /\ Handle(n) /\ cursor' = n
        /\ rewound' = (rewound \/ \E c \in Charges : table'[c] < table[c])
        /\ UNCHANGED <<provider, log, shared, handler, ops, failed>>
    BY DEF Project
  <1>1. n \in DOMAIN log /\ cursor' \in Nat /\ cursor' <= Len(log)
    BY <1>0 DEF IInv, RowsOK
  <1> HIDE DEF n
  <1>2. /\ table' \in [Charges -> Nat]
        /\ OfCharge(log[n]) => log[n].c \in Charges /\ table'[log[n].c] = n
        /\ \A c \in Charges : table'[c] = table[c] \/ (OfCharge(log[n]) /\ c = log[n].c)
        /\ \A c \in Charges : table[c] # 0 => table'[c] # 0
        /\ \A c \in Charges : table'[c] # 0 =>
              table'[c] \in DOMAIN log /\ log[table'[c]].c = c /\ OfCharge(log[table'[c]])
        /\ obligations' \subseteq {k \in DOMAIN log : log[k].tipo \in DaObrigacao}
        /\ webhooks' \subseteq Charges
    BY <1>0, <1>1, HandleFacts
  <1>3. HandlersOK'
    <2>1. ASSUME NEW g \in Handlers PROVE HandlerOK(handler[g], log, table', provider)
      BY <1>2, TableGrows DEF IInv, HandlersOK
    <2> QED
      BY <1>0, <2>1 DEF HandlersOK
  <1>4. /\ log' \in Seq(Payload) /\ handler' \in [Handlers -> Handling]
        /\ LogOK(log', provider') /\ BeginsOK' /\ CreatesOK' /\ ProviderOK'
    BY <1>0 DEF IInv, BeginsOK, CreatesOK, ProviderOK
  <1>5. RowsOK'
    <2>1. rewound' \in BOOLEAN
      BY <1>0 DEF IInv, RowsOK
    <2> HIDE DEF IInv
    <2>2. shared' \in Charges \cup {None} /\ ops' \in Nat /\ ops' <= MaxOps /\ failed' \subseteq Kinds
      BY <1>0 DEF IInv, RowsOK
    <2> QED
      BY <1>0, <1>1, <1>2, <2>1, <2>2 DEF RowsOK
  <1>6. ConfirmOK'
    <2> SUFFICES ASSUME failed' = {}, ~rewound', NEW i \in DOMAIN log, Unconfirmed(i)'
                 PROVE  /\ i > table'[log[i].c] => \E g \in Handlers : Shows(handler[g], log[i])
                        /\ i = table'[log[i].c] =>
                              \E g \in Handlers : Confirms(handler[g], log[i].c)
      BY <1>0 DEF ConfirmOK
    <2>1. failed = {} /\ ~rewound /\ Unconfirmed(i) /\ \A c \in Charges : ~(table'[c] < table[c])
      BY <1>0 DEF Unconfirmed, Confirmed
    <2>2. /\ i > table[log[i].c] => \E g \in Handlers : Shows(handler[g], log[i])
          /\ i = table[log[i].c] => \E g \in Handlers : Confirms(handler[g], log[i].c)
      BY <2>1 DEF IInv, ConfirmOK
    <2>3. ASSUME NEW g \in Handlers, Shows(handler[g], log[i]) PROVE Confirms(handler[g], log[i].c)
      <3>1. TodoOK(handler[g], handler[g].todo[1], log, provider)
        <4>1. HandlerOK(handler[g], log, table, provider)
          BY DEF IInv, HandlersOK
        <4>2. 1 \in DOMAIN handler[g].todo
          BY <2>3, <4>1 DEF Shows, HandlerOK, Saving, Handling
        <4> QED
          BY <2>3, <4>1, <4>2 DEF Shows, HandlerOK, Saving
      <3> QED
        BY <2>1, <2>3, <3>1 DEF Shows, Confirms, At, Saving, TodoOK, Unconfirmed
    <2>4. log[i].c \in Charges /\ i \in Nat /\ table[log[i].c] \in Nat
          /\ table'[log[i].c] \in Nat /\ table'[log[i].c] >= table[log[i].c]
      <3>1. log[i].c \in Charges
        BY <2>1 DEF IInv, LogOK, EventOK, Unconfirmed
      <3>2. i \in Nat /\ table[log[i].c] \in Nat /\ table'[log[i].c] \in Nat
        BY <1>2, <3>1 DEF IInv, RowsOK
      <3> QED
        BY <2>1, <3>1, <3>2
    <2>5. i > table'[log[i].c] => i > table[log[i].c]
      BY <2>4
    <2>6. i = table'[log[i].c] => i > table[log[i].c] \/ i = table[log[i].c]
      BY <2>4
    <2> QED
      BY <2>2, <2>3, <2>5, <2>6
  <1> QED
    BY <1>3, <1>4, <1>5, <1>6 DEF IInv

(* What Go does with a request.                                             *)
LEMMA GoStep ==
    ASSUME IInv, NEW h \in Handlers, NEW todo \in Seq(Payload), NEW next \in Nexts,
           Go(h, todo, next)
    PROVE  \E s \in Handling :
             /\ handler' = [handler EXCEPT ![h] = s]
             /\ Is(s, IF todo = <<>> THEN next ELSE "save", handler[h].op, handler[h].c,
                   handler[h].seen, todo, next, handler[h].left, handler[h].msg)
  <1> DEFINE pc == IF todo = <<>> THEN next ELSE "save"
  <1>1. pc \in Pcs
    BY DEF Pcs
  <1> HIDE DEF pc
  <1>2. PICK r \in Handling : r = handler[h]
    BY DEF IInv
  <1>3. Is([r EXCEPT !.todo = todo], r.pc, r.op, r.c, r.seen, todo, r.next, r.left, r.msg)
    BY With
  <1>4. PICK a \in Handling : a = [r EXCEPT !.todo = todo]
    BY <1>3 DEF Is
  <1>5. Is([a EXCEPT !.next = next], a.pc, a.op, a.c, a.seen, a.todo, next, a.left, a.msg)
    BY With
  <1>6. PICK b \in Handling : b = [a EXCEPT !.next = next]
    BY <1>5 DEF Is
  <1>7. Is([b EXCEPT !.pc = pc], pc, b.op, b.c, b.seen, b.todo, b.next, b.left, b.msg)
    BY <1>1, With
  <1>8. handler' = [handler EXCEPT ![h] = [b EXCEPT !.pc = pc]]
    BY <1>2, <1>4, <1>6 DEF Go, Set, pc
  <1>9. PICK s \in Handling : s = [b EXCEPT !.pc = pc]
    BY <1>7 DEF Is
  <1>10. Is(s, pc, r.op, r.c, r.seen, todo, next, r.left, r.msg)
    BY <1>3, <1>4, <1>5, <1>6, <1>7, <1>9 DEF Is
  <1> QED
    BY <1>2, <1>8, <1>9, <1>10 DEF pc

(* What a request that saves or applies knows of its first event.           *)
LEMMA HeadFacts ==
    ASSUME IInv, NEW h \in Handlers, Saving(handler[h])
    PROVE  /\ handler[h].todo \in Seq(Payload) /\ handler[h].todo # <<>>
           /\ 1 \in DOMAIN handler[h].todo
           /\ Head(handler[h].todo) = handler[h].todo[1]
           /\ handler[h].todo[1] \in Payload
           /\ TodoOK(handler[h], handler[h].todo[1], log, provider)
           /\ handler[h].next \in Nexts
  <1>1. HandlerOK(handler[h], log, table, provider)
    BY DEF IInv, HandlersOK
  <1>2. handler[h].todo \in Seq(Payload) /\ handler[h].todo # <<>> /\ handler[h].next \in Nexts
    BY <1>1 DEF HandlerOK, Handling
  <1>3. /\ 1 \in DOMAIN handler[h].todo /\ Head(handler[h].todo) = handler[h].todo[1]
        /\ handler[h].todo[1] \in Payload
    BY <1>2
  <1> QED
    BY <1>1, <1>2, <1>3 DEF HandlerOK

(* What two requests have still to record of a charge pays the same.        *)
LEMMA SameAsOthers ==
    ASSUME CobrancaAssumption, IInv, NEW h \in Handlers, NEW g \in Handlers,
           handler[h].pc = "save", Saving(handler[g]), NEW k \in DOMAIN handler[g].todo
    PROVE  SameMonth(handler[g].todo[k], <<handler[h].todo[1]>>)
  <1> DEFINE e == handler[h].todo[1]
  <1> DEFINE f == handler[g].todo[k]
  <1>0. TodoOK(handler[h], e, log, provider)
    BY HeadFacts DEF Saving
  <1>1. TodoOK(handler[g], f, log, provider)
    BY DEF IInv, HandlersOK, HandlerOK
  <1>2. ASSUME OfCharge(f), OfCharge(e), e.c = f.c PROVE e.mes = f.mes
    <2>1. e.c = handler[h].c /\ f.c = handler[g].c /\ e.c \in Charges
      BY <1>0, <1>1, <1>2, CobrancaAssumption DEF TodoOK, EventOK
    <2>2. CASE e.seen = 0
      <3>1. Begins(handler[h]) /\ Len(handler[h].todo) = 1
        BY <1>0, <1>2, <2>2 DEF Begins, TodoOK
      <3>2. g = h
        BY <1>2, <2>1, <3>1 DEF IInv, BeginsOK
      <3>3. k = 1
        BY <3>1, <3>2, HeadFacts DEF Saving
      <3> QED
        BY <3>2, <3>3
    <2>3. CASE e.seen # 0
      <3>1. e.seen \in DOMAIN log /\ OfCharge(log[e.seen]) /\ log[e.seen].c = e.c
        BY <1>0, <2>3 DEF TodoOK, EventOK
      <3> HIDE DEF e, f
      <3>2. log[e.seen].mes = e.mes
        BY <1>0, <1>2, <3>1 DEF TodoOK, SameMonth
      <3>3. log[e.seen].mes = f.mes
        BY <1>1, <1>2, <3>1 DEF TodoOK, SameMonth
      <3> QED
        BY <3>2, <3>3
    <2> QED
      BY <2>2, <2>3
  <1>3. DOMAIN <<e>> = {1} /\ <<e>>[1] = e
    OBVIOUS
  <1> HIDE DEF e, f
  <1>4. SameMonth(f, <<e>>)
    BY <1>2, <1>3 DEF SameMonth
  <1> QED
    BY <1>4 DEF e, f

(* A failure: the request ends, and gives back what it had reserved.        *)
LEMMA AbandonInv ==
    ASSUME CobrancaAssumption, IInv, NEW h \in Handlers, Saving(handler[h]), Abandon(h),
           UNCHANGED <<log, table, obligations, cursor, rewound, provider, ops>>,
           failed \subseteq failed', failed' \subseteq Kinds,
           webhooks' \subseteq webhooks,
           failed' = {} => \A i \in DOMAIN log : Unconfirmed(i) =>
               ~Shows(handler[h], log[i]) /\ ~Confirms(handler[h], log[i].c)
    PROVE  IInv'
  <1>1. handler' = [handler EXCEPT ![h] = Idle]
    BY DEF Abandon, Set
  <1>2. shared' \in Charges \cup {None}
    BY DEF Abandon, IInv, RowsOK
  <1>3. ops' \in Nat /\ ops' <= MaxOps /\ webhooks' \subseteq Charges
        /\ provider' \in [Charges -> {"none", "Pending", "Success", "Expired"}]
    BY DEF IInv, RowsOK, ProviderOK
  <1>4. None \notin Charges
    BY CobrancaAssumption
  <1>5. HandlerOK(Idle, log, table, provider') /\ ~Begins(Idle) /\ Idle.c = None
        /\ ~At(Idle, "provider")
    BY IdleOK
  <1> QED
    BY <1>1, <1>2, <1>3, <1>4, <1>5, HandlerStep

(* The event is in the ledger.                                              *)
LEMMA AppendInv ==
    ASSUME CobrancaAssumption, IInv, NEW h \in Handlers, handler[h].pc = "save",
           log' = Append(log, Head(handler[h].todo)),
           Set(h, [handler[h] EXCEPT !.pc = "apply"]),
           UNCHANGED <<provider, table, obligations, webhooks, shared, cursor, ops, failed, rewound>>
    PROVE  IInv'
  <1> DEFINE e == handler[h].todo[1]
  <1> DEFINE r == handler[h]
  <1>0. /\ e \in Payload /\ TodoOK(r, e, log, provider) /\ log' = Append(log, e)
        /\ r.todo # <<>> /\ 1 \in DOMAIN r.todo /\ Saving(r) /\ r \in Handling
    BY HeadFacts DEF Saving, IInv
  <1>1. PICK s \in Handling :
          /\ handler' = [handler EXCEPT ![h] = s] /\ s.pc = "apply"
          /\ s.op = r.op /\ s.c = r.c /\ s.seen = r.seen /\ s.todo = r.todo /\ s.next = r.next
          /\ s.left = r.left /\ s.msg = r.msg
    <2>1. Is([r EXCEPT !.pc = "apply"], "apply", r.op, r.c, r.seen, r.todo, r.next, r.left, r.msg)
      BY <1>0, With DEF Pcs
    <2> QED
      BY <2>1 DEF Set, Is
  <1>2. /\ handler' \in [Handlers -> Handling] /\ handler'[h] = s
        /\ \A g \in Handlers \ {h} : handler'[g] = handler[g]
    BY <1>1 DEF IInv
  <1>3. /\ log \in Seq(Payload) /\ log' \in Seq(Payload)
        /\ DOMAIN log = 1..Len(log) /\ DOMAIN log' = 1..(Len(log) + 1) /\ Len(log) \in Nat
        /\ Len(log') = Len(log) + 1
        /\ \A i \in DOMAIN log : i \in DOMAIN log' /\ log'[i] = log[i]
        /\ \A i \in DOMAIN log' : i \in DOMAIN log \/ (i = Len(log) + 1 /\ log'[i] = e)
        /\ Len(log) + 1 \in DOMAIN log' /\ log'[Len(log) + 1] = e
    BY <1>0 DEF IInv
  <1>4. \A p \in Nexts : At(s, p) <=> At(r, p)
    BY <1>1 DEF At, Saving, Nexts
  <1>5. \A g \in Handlers : Saving(handler[g]) =>
           \A k \in DOMAIN handler[g].todo : SameMonth(handler[g].todo[k], <<e>>)
    BY <1>0, SameAsOthers
  <1>6. \A c \in Charges : Logged(c, log) => Logged(c, log')
    BY <1>3 DEF Logged
  <1> HIDE DEF e, r
  <1>7. LogOK(log', provider)
    <2>1. ASSUME NEW i \in DOMAIN log PROVE EventOK(log[i], log', provider) /\ log[i].seen < i
      BY <1>3 DEF IInv, LogOK, EventOK
    <2>2. EventOK(e, log', provider)
      BY <1>0, <1>3 DEF TodoOK, EventOK
    <2>3. e.seen < Len(log) + 1
      <3>1. e.seen = 0 \/ e.seen \in DOMAIN log
        BY <1>0 DEF TodoOK, EventOK
      <3> QED
        BY <1>3, <3>1
    <2>4. \A i, j \in DOMAIN log : OfCharge(log[i]) /\ OfCharge(log[j]) /\ log[j].c = log[i].c
             => log[j].mes = log[i].mes
      BY DEF IInv, LogOK, SameMonth
    <2>5. \A j \in DOMAIN log : OfCharge(e) /\ OfCharge(log[j]) /\ log[j].c = e.c
             => log[j].mes = e.mes
      BY <1>0 DEF TodoOK, SameMonth
    <2>6. \A i \in DOMAIN log' : SameMonth(log'[i], log')
      BY <1>3, <2>4, <2>5 DEF SameMonth
    <2>7. \A i \in DOMAIN log' : EventOK(log'[i], log', provider) /\ log'[i].seen < i
      BY <1>3, <2>1, <2>2, <2>3
    <2> QED
      BY <2>6, <2>7 DEF LogOK
  <1>8. HandlersOK'
    <2>1. ASSUME NEW g \in Handlers, Saving(handler[g])
          PROVE  HandlerOK(handler[g], log', table, provider)
      <3>1. HandlerOK(handler[g], log, table, provider)
        BY DEF IInv, HandlersOK
      <3> QED
        BY <1>0, <1>3, <1>5, <2>1, <3>1, LogGrows
    <2>2. ASSUME NEW g \in Handlers, ~Saving(handler[g])
          PROVE  HandlerOK(handler[g], log', table, provider)
      <3>1. HandlerOK(handler[g], log, table, provider)
        BY DEF IInv, HandlersOK
      <3> QED
        BY <1>3, <2>2, <3>1 DEF HandlerOK, Saving
    <2>3. HandlerOK(s, log', table, provider)
      <3>1. HandlerOK(r, log', table, provider)
        BY <1>0, <2>1 DEF r
      <3>2. \A k \in DOMAIN s.todo : TodoOK(s, s.todo[k], log', provider)
        BY <1>0, <1>1, <3>1 DEF HandlerOK, TodoOK
      <3>3. \E k \in DOMAIN log' : log'[k] = s.todo[1]
        BY <1>1, <1>3 DEF e, r
      <3>4. /\ At(s, "confirm") <=> At(r, "confirm")
            /\ At(s, "webhook") <=> At(r, "webhook")
            /\ At(s, "provider") <=> At(r, "provider")
            /\ At(s, "guard") <=> At(r, "guard")
            /\ At(s, "cancelopen") <=> At(r, "cancelopen")
        BY <1>4 DEF Nexts
      <3>5. Saving(s) /\ s.pc # "idle" /\ s.pc # "provider" /\ s.pc # "ask" /\ s.pc # "note"
            /\ r.pc # "idle" /\ Saving(r)
        BY <1>0, <1>1 DEF Saving
      <3> QED
        BY <1>1, <3>1, <3>2, <3>3, <3>4, <3>5 DEF HandlerOK
    <2>4. ASSUME NEW g \in Handlers PROVE HandlerOK(handler'[g], log', table', provider')
      BY <1>2, <2>1, <2>2, <2>3
    <2> QED
      BY <2>4 DEF HandlersOK
  <1>9. BeginsOK'
    <2>1. ~Begins(s)
      BY <1>1 DEF Begins
    <2>2. ASSUME NEW g \in Handlers \ {h}, Begins(handler[g])
          PROVE  /\ ~Logged(handler[g].c, log')
                 /\ \A f \in Handlers \ {g} : handler'[f].c # handler[g].c
      <3>1. ~Logged(handler[g].c, log) /\ \A f \in Handlers \ {g} : handler[f].c # handler[g].c
        BY <2>2 DEF IInv, BeginsOK
      <3>2. handler[g].c \in Charges
        BY <2>2, HeadFacts DEF Begins, Saving, TodoOK, EventOK
      <3>3. e.c # handler[g].c
        BY <1>0, <3>1, <3>2, CobrancaAssumption DEF TodoOK, r
      <3>4. ~Logged(handler[g].c, log')
        BY <1>3, <3>1, <3>3 DEF Logged
      <3> QED
        BY <1>1, <1>2, <3>1, <3>4 DEF r
    <2> QED
      BY <1>2, <2>1, <2>2 DEF BeginsOK
  <1>10. CreatesOK'
    <2>1. At(s, "provider") <=> At(handler[h], "provider")
      BY <1>4 DEF Nexts, r
    <2>2. s.c = handler[h].c
      BY <1>1 DEF r
    <2>3. \A g \in Handlers : /\ At(handler'[g], "provider") <=> At(handler[g], "provider")
                              /\ handler'[g].c = handler[g].c
      BY <1>2, <2>1, <2>2
    <2> QED
      BY <2>3 DEF IInv, CreatesOK
  <1>11. ProviderOK'
    BY <1>6 DEF IInv, ProviderOK
  <1>12. RowsOK'
    BY <1>3 DEF IInv, RowsOK
  <1>13. ConfirmOK'
    <2> SUFFICES ASSUME failed' = {}, ~rewound', NEW i \in DOMAIN log', Unconfirmed(i)'
                 PROVE  /\ i > table[log'[i].c] => \E g \in Handlers : Shows(handler'[g], log'[i])
                        /\ i = table[log'[i].c] =>
                              \E g \in Handlers : Confirms(handler'[g], log'[i].c)
      BY DEF ConfirmOK
    <2>1. CASE i \in DOMAIN log
      <3>1. log'[i] = log[i] /\ Unconfirmed(i)
        BY <1>3, <2>1 DEF Unconfirmed, Confirmed
      <3>2. /\ i > table[log[i].c] => \E g \in Handlers : Shows(handler[g], log[i])
            /\ i = table[log[i].c] => \E g \in Handlers : Confirms(handler[g], log[i].c)
        BY <2>1, <3>1 DEF IInv, ConfirmOK
      <3>3. ASSUME NEW g \in Handlers, Shows(handler[g], log[i]) PROVE Shows(handler'[g], log[i])
        BY <1>2, <3>3 DEF Shows
      <3>4. ASSUME NEW g \in Handlers, Confirms(handler[g], log[i].c)
            PROVE  Confirms(handler'[g], log[i].c)
        <4>1. CASE g # h
          BY <1>2, <3>4, <4>1
        <4>2. CASE g = h
          <5>1. e.tipo # "Confirmada" \/ e.c # log[i].c
            BY <1>3, <3>1 DEF Unconfirmed, Confirmed
          <5>2. e.tipo = "Confirmada" => e.c = r.c
            BY <1>0, CobrancaAssumption DEF TodoOK, EventOK
          <5>3. At(r, "confirm") /\ r.c = log[i].c
            BY <3>4, <4>2, <5>1, <5>2 DEF Confirms, e, r
          <5>4. At(s, "confirm") /\ s.c = log[i].c
            BY <1>1, <1>4, <5>3 DEF Nexts
          <5> QED
            BY <1>2, <4>2, <5>4 DEF Confirms
        <4> QED
          BY <4>1, <4>2
      <3> QED
        BY <3>1, <3>2, <3>3, <3>4
    <2>2. CASE i \notin DOMAIN log
      <3>1. i = Len(log) + 1 /\ log'[i] = e
        BY <1>3, <2>2
      <3>2. OfCharge(e) /\ Success(e.st)
        BY <3>1 DEF Unconfirmed
      <3>3. s.next = "confirm" /\ s.todo[1] = e
        BY <1>0, <1>1, <3>2 DEF TodoOK, e, r
      <3>4. Shows(handler'[h], e)
        BY <1>1, <1>2, <3>3 DEF Shows
      <3>5. e.c \in Charges
        BY <1>0, <3>2 DEF TodoOK, EventOK
      <3>6. table[e.c] <= Len(log)
        BY <1>3, <3>5 DEF IInv, RowsOK
      <3>7. i # table[e.c]
        BY <1>3, <3>1, <3>5, <3>6 DEF IInv, RowsOK
      <3> QED
        BY <3>1, <3>4, <3>7
    <2> QED
      BY <2>1, <2>2
  <1> QED
    BY <1>2, <1>3, <1>7, <1>8, <1>9, <1>10, <1>11, <1>12, <1>13 DEF IInv

(* The event is saved, or the request gives up.                             *)
LEMMA SaveInv ==
    ASSUME CobrancaAssumption, IInv, NEW h \in Handlers, Save(h) PROVE IInv'
  <1>1. handler[h].pc = "save" /\ Saving(handler[h])
        /\ UNCHANGED <<provider, table, obligations, cursor, ops, rewound>>
    BY DEF Save, Saving
  <1>2. CASE /\ log' = Append(log, Head(handler[h].todo))
             /\ Set(h, [handler[h] EXCEPT !.pc = "apply"])
             /\ Works /\ UNCHANGED <<webhooks, shared>>
    BY <1>1, <1>2, AppendInv DEF Works
  <1>3. CASE Fails("save") /\ Abandon(h) /\ UNCHANGED log
    <2>1. failed \subseteq failed' /\ failed' \subseteq Kinds /\ "save" \in failed'
      BY <1>3 DEF Fails, Kinds, IInv, RowsOK
    <2>2. webhooks' \subseteq webhooks
      BY <1>3 DEF Abandon
    <2> QED
      BY <1>1, <1>3, <2>1, <2>2, AbandonInv
  <1> QED
    BY <1>2, <1>3 DEF Save

(* A step of a request that was not about to confirm a payment.             *)
LEMMA QuietStep ==
    ASSUME CobrancaAssumption, IInv, NEW h \in Handlers, NEW s,
           handler' = [handler EXCEPT ![h] = s],
           HandlerOK(s, log, table, provider'),
           handler[h].pc \notin {"save", "apply", "confirm"},
           UNCHANGED <<log, table, obligations, cursor, rewound>>,
           webhooks' \subseteq Charges, shared' \in Charges \cup {None},
           ops' \in Nat, ops' <= MaxOps, failed \subseteq failed', failed' \subseteq Kinds,
           provider' \in [Charges -> {"none", "Pending", "Success", "Expired"}],
           \A c \in Charges :
              /\ provider[c] = "Success" => provider'[c] = "Success"
              /\ provider[c] # "none" => provider'[c] # "none"
              /\ provider'[c] # provider[c] /\ provider[c] = "none" =>
                    At(handler[h], "provider") /\ handler[h].c = c /\ Logged(c, log),
           s.c = handler[h].c \/ s.c = None \/ Logged(s.c, log) \/ s.c \in Fresh,
           Begins(s) \/ At(s, "provider") => s.c \in Fresh
    PROVE  IInv'
  <1>1. None \notin Charges
    BY CobrancaAssumption
  <1>2. ASSUME NEW i \in DOMAIN log
        PROVE  ~Shows(handler[h], log[i]) /\ ~Confirms(handler[h], log[i].c)
    BY DEF Shows, Confirms, At, Saving
  <1> QED
    BY <1>1, <1>2, HandlerStep

(* A new request.                                                           *)
LEMMA BeginStep ==
    ASSUME CobrancaAssumption, IInv, NEW h \in Handlers, NEW s, Begin(h),
           handler' = [handler EXCEPT ![h] = s],
           HandlerOK(s, log, table, provider),
           UNCHANGED <<provider, log, table, obligations, cursor, failed, rewound>>,
           webhooks' \subseteq Charges, shared' \in Charges \cup {None},
           s.c = None \/ Logged(s.c, log) \/ s.c \in Fresh,
           Begins(s) \/ At(s, "provider") => s.c \in Fresh
    PROVE  IInv'
  <1>1. handler[h].pc \notin {"save", "apply", "confirm"}
    BY DEF Begin
  <1>2. ops' \in Nat /\ ops' <= MaxOps /\ failed \subseteq failed' /\ failed' \subseteq Kinds
    BY CobrancaAssumption DEF IInv, RowsOK, Begin
  <1>3. provider' \in [Charges -> {"none", "Pending", "Success", "Expired"}]
        /\ provider' = provider
    BY DEF IInv, ProviderOK
  <1>4. \A c \in Charges :
              /\ provider[c] = "Success" => provider'[c] = "Success"
              /\ provider[c] # "none" => provider'[c] # "none"
              /\ provider'[c] # provider[c] /\ provider[c] = "none" =>
                    At(handler[h], "provider") /\ handler[h].c = c /\ Logged(c, log)
    BY <1>3
  <1> QED
    BY <1>1, <1>2, <1>3, <1>4, QuietStep

(* A request goes on without a failure, or with one, and nothing else       *)
(* happens.                                                                 *)
LEMMA GoesOn ==
    ASSUME CobrancaAssumption, IInv, NEW h \in Handlers, NEW s,
           handler' = [handler EXCEPT ![h] = s],
           HandlerOK(s, log, table, provider),
           handler[h].pc \notin {"save", "apply", "confirm"},
           UNCHANGED <<provider, log, table, obligations, webhooks, shared, cursor, ops, rewound>>,
           failed \subseteq failed', failed' \subseteq Kinds,
           s.c = handler[h].c \/ s.c = None \/ Logged(s.c, log),
           ~Begins(s), ~At(s, "provider")
    PROVE  IInv'
  <1>2. ops' \in Nat /\ ops' <= MaxOps /\ webhooks' \subseteq Charges
        /\ shared' \in Charges \cup {None}
    BY DEF IInv, RowsOK
  <1>3. provider' \in [Charges -> {"none", "Pending", "Success", "Expired"}]
        /\ provider' = provider
    BY DEF IInv, ProviderOK
  <1>4. \A c \in Charges :
              /\ provider[c] = "Success" => provider'[c] = "Success"
              /\ provider[c] # "none" => provider'[c] # "none"
              /\ provider'[c] # provider[c] /\ provider[c] = "none" =>
                    At(handler[h], "provider") /\ handler[h].c = c /\ Logged(c, log)
    BY <1>3
  <1> QED
    BY <1>2, <1>3, <1>4, QuietStep

(* The event that begins a charge.                                          *)
LEMMA BeginsCharge ==
    ASSUME CobrancaAssumption, IInv, NEW c \in Fresh, NEW s, s.c = c, Len(s.todo) = 1,
           NEW e \in Payload, e.c = c, e.seen = 0, e.tipo \in DaCobranca,
           Success(e.st) => e.ext /\ s.next = "confirm",
           e.tipo = "Solicitada" => e.st = "aguardando"
    PROVE  TodoOK(s, e, log, provider)
  <1>1. c \in Charges /\ \A i \in DOMAIN log : log[i].c # c
    BY DEF Fresh
  <1>2. e.tipo # "Confirmada" /\ e.tipo # "Webhook"
    BY DEF DaCobranca
  <1> QED
    BY <1>1, <1>2 DEF TodoOK, EventOK, SameMonth, OfCharge, Stands

(* A request with one event to record.                                      *)
LEMMA StartRecord ==
    ASSUME NEW op \in Ops, NEW c \in Charges \cup {None}, NEW e \in Payload, NEW next \in Nexts
    PROVE  Is([State(op, c, "save") EXCEPT !.todo = <<e>>, !.next = next],
              "save", op, c, 0, <<e>>, next, {}, None)
  <1>1. Is(State(op, c, "save"), "save", op, c, 0, <<>>, "idle", {}, None)
    BY StateFacts DEF Pcs
  <1>2. PICK r \in Handling : r = State(op, c, "save")
    BY <1>1 DEF Is
  <1>0. <<e>> \in Seq(Payload)
    OBVIOUS
  <1>3. Is([r EXCEPT !.todo = <<e>>], r.pc, r.op, r.c, r.seen, <<e>>, r.next, r.left, r.msg)
    BY <1>0, With
  <1>4. PICK a \in Handling : a = [r EXCEPT !.todo = <<e>>]
    BY <1>3 DEF Is
  <1>5. Is([a EXCEPT !.next = next], a.pc, a.op, a.c, a.seen, a.todo, next, a.left, a.msg)
    BY With
  <1>6. [State(op, c, "save") EXCEPT !.todo = <<e>>, !.next = next] = [a EXCEPT !.next = next]
    BY <1>2, <1>4
  <1> QED
    BY <1>1, <1>2, <1>3, <1>4, <1>5, <1>6 DEF Is

(* A request that is about to ask, or to confirm.                           *)
LEMMA StartSeen ==
    ASSUME NEW op \in Ops, NEW c \in Charges \cup {None}, NEW pc \in Pcs, NEW seen \in Nat
    PROVE  Is([State(op, c, pc) EXCEPT !.seen = seen], pc, op, c, seen, <<>>, "idle", {}, None)
  <1>1. Is(State(op, c, pc), pc, op, c, 0, <<>>, "idle", {}, None)
    BY StateFacts
  <1>2. PICK r \in Handling : r = State(op, c, pc)
    BY <1>1 DEF Is
  <1>3. Is([r EXCEPT !.seen = seen], r.pc, r.op, r.c, seen, r.todo, r.next, r.left, r.msg)
    BY With
  <1> QED
    BY <1>1, <1>2, <1>3 DEF Is

(* An event that is not computed from another.                              *)
LEMMA NewFacts ==
    ASSUME NEW tipo \in DaCobranca \cup DaObrigacao \cup {"Webhook"},
           NEW c \in Charges \cup {None}, NEW st \in Estados, NEW mes \in BOOLEAN
    PROVE  LET e == NewEvent(tipo, c, st, mes)
           IN  /\ e \in Payload /\ e.tipo = tipo /\ e.c = c /\ e.st = st
               /\ e.mes = mes /\ e.seen = 0 /\ ~e.ext
  <1>1. [tipo |-> tipo, c |-> c, st |-> st, ext |-> FALSE, pago |-> FALSE,
         mes |-> mes, seen |-> 0] \in Payload
    BY DEF Payload
  <1> QED
    BY <1>1 DEF NewEvent

(* One field of an event is changed.                                        *)
LEMMA WithEvent ==
    ASSUME NEW r \in Payload
    PROVE  /\ \A v \in BOOLEAN : \E e \in Payload :
                 /\ e = [r EXCEPT !.ext = v] /\ (e.ext <=> v) /\ e.tipo = r.tipo /\ e.c = r.c
                 /\ e.st = r.st /\ e.mes = r.mes /\ e.seen = r.seen
           /\ \A v \in BOOLEAN : \E e \in Payload :
                 /\ e = [r EXCEPT !.pago = v] /\ e.ext = r.ext /\ e.tipo = r.tipo /\ e.c = r.c
                 /\ e.st = r.st /\ e.mes = r.mes /\ e.seen = r.seen
           /\ \A v \in DaCobranca : \E e \in Payload :
                 /\ e = [r EXCEPT !.tipo = v] /\ e.ext = r.ext /\ e.tipo = v /\ e.c = r.c
                 /\ e.st = r.st /\ e.mes = r.mes /\ e.seen = r.seen
  <1>1. ASSUME NEW v \in BOOLEAN
        PROVE  [r EXCEPT !.ext = v] = [tipo |-> r.tipo, c |-> r.c, st |-> r.st, ext |-> v,
                                       pago |-> r.pago, mes |-> r.mes, seen |-> r.seen]
    BY DEF Payload
  <1>2. ASSUME NEW v \in BOOLEAN
        PROVE  [r EXCEPT !.pago = v] = [tipo |-> r.tipo, c |-> r.c, st |-> r.st, ext |-> r.ext,
                                        pago |-> v, mes |-> r.mes, seen |-> r.seen]
    BY DEF Payload
  <1>3. ASSUME NEW v \in DaCobranca
        PROVE  [r EXCEPT !.tipo = v] = [tipo |-> v, c |-> r.c, st |-> r.st, ext |-> r.ext,
                                        pago |-> r.pago, mes |-> r.mes, seen |-> r.seen]
    BY DEF Payload
  <1>4. ASSUME NEW v \in BOOLEAN
        PROVE  \E e \in Payload :
                 /\ e = [r EXCEPT !.ext = v] /\ (e.ext <=> v) /\ e.tipo = r.tipo /\ e.c = r.c
                 /\ e.st = r.st /\ e.mes = r.mes /\ e.seen = r.seen
    <2> DEFINE e == [tipo |-> r.tipo, c |-> r.c, st |-> r.st, ext |-> v,
                 pago |-> r.pago, mes |-> r.mes, seen |-> r.seen]
    <2>1. e \in Payload
      BY DEF Payload
    <2>2. e.tipo = r.tipo /\ e.c = r.c /\ e.st = r.st /\ e.seen = r.seen
      OBVIOUS
    <2>3. e.mes = r.mes
      OBVIOUS
    <2>4. (e.ext <=> v)
      OBVIOUS
    <2>5. e = [r EXCEPT !.ext = v]
      BY <1>1
    <2> HIDE DEF e
    <2> QED
      BY <2>1, <2>2, <2>3, <2>4, <2>5
  <1>5. ASSUME NEW v \in BOOLEAN
        PROVE  \E e \in Payload :
                 /\ e = [r EXCEPT !.pago = v] /\ e.ext = r.ext /\ e.tipo = r.tipo /\ e.c = r.c
                 /\ e.st = r.st /\ e.mes = r.mes /\ e.seen = r.seen
    <2> DEFINE e == [tipo |-> r.tipo, c |-> r.c, st |-> r.st, ext |-> r.ext,
                 pago |-> v, mes |-> r.mes, seen |-> r.seen]
    <2>1. e \in Payload
      BY DEF Payload
    <2>2. e.tipo = r.tipo /\ e.c = r.c /\ e.st = r.st /\ e.seen = r.seen
      OBVIOUS
    <2>3. e.mes = r.mes
      OBVIOUS
    <2>4. e.ext = r.ext
      OBVIOUS
    <2>5. e = [r EXCEPT !.pago = v]
      BY <1>2
    <2> HIDE DEF e
    <2> QED
      BY <2>1, <2>2, <2>3, <2>4, <2>5
  <1>6. ASSUME NEW v \in DaCobranca
        PROVE  \E e \in Payload :
                 /\ e = [r EXCEPT !.tipo = v] /\ e.ext = r.ext /\ e.tipo = v /\ e.c = r.c
                 /\ e.st = r.st /\ e.mes = r.mes /\ e.seen = r.seen
    <2> DEFINE e == [tipo |-> v, c |-> r.c, st |-> r.st, ext |-> r.ext,
                 pago |-> r.pago, mes |-> r.mes, seen |-> r.seen]
    <2>1. e \in Payload
      BY DEF Payload
    <2>2. e.tipo = v /\ e.c = r.c /\ e.st = r.st /\ e.seen = r.seen
      OBVIOUS
    <2>3. e.mes = r.mes
      OBVIOUS
    <2>4. e.ext = r.ext
      OBVIOUS
    <2>5. e = [r EXCEPT !.tipo = v]
      BY <1>3
    <2> HIDE DEF e
    <2> QED
      BY <2>1, <2>2, <2>3, <2>4, <2>5
  <1> QED
    BY <1>4, <1>5, <1>6

(* The request that begins a charge, and the fact of a payment outside.     *)
LEMMA FirstEvents ==
    ASSUME NEW c \in Charges
    PROVE  /\ \A mes \in BOOLEAN : \E e \in Payload :
                 /\ e = NewEvent("Solicitada", c, "aguardando", mes)
                 /\ e.tipo = "Solicitada" /\ e.c = c /\ e.st = "aguardando" /\ e.seen = 0
           /\ \E e \in Payload :
                 /\ e = [NewEvent("Externo", c, "Success", TRUE) EXCEPT !.ext = TRUE]
                 /\ e.tipo = "Externo" /\ e.c = c /\ e.st = "Success" /\ e.seen = 0 /\ e.ext
  <1>1. /\ "Solicitada" \in DaCobranca \cup DaObrigacao \cup {"Webhook"}
        /\ "Externo" \in DaCobranca \cup DaObrigacao \cup {"Webhook"}
        /\ c \in Charges \cup {None} /\ "aguardando" \in Estados /\ "Success" \in Estados
    BY DEF DaCobranca, Estados
  <1>2. ASSUME NEW mes \in BOOLEAN
        PROVE  \E e \in Payload :
                 /\ e = NewEvent("Solicitada", c, "aguardando", mes)
                 /\ e.tipo = "Solicitada" /\ e.c = c /\ e.st = "aguardando" /\ e.seen = 0
    BY <1>1, NewFacts
  <1>3. ASSUME NEW v \in BOOLEAN, v
        PROVE  \E e \in Payload :
                 /\ e = [NewEvent("Externo", c, "Success", v) EXCEPT !.ext = v]
                 /\ e.tipo = "Externo" /\ e.c = c /\ e.st = "Success" /\ e.seen = 0 /\ e.ext
    <2>1. PICK r \in Payload : /\ r = NewEvent("Externo", c, "Success", v) /\ r.tipo = "Externo"
                               /\ r.c = c /\ r.st = "Success" /\ r.seen = 0
      BY <1>1, NewFacts
    <2>2. PICK e \in Payload :
                 /\ e = [r EXCEPT !.ext = v] /\ (e.ext <=> v) /\ e.tipo = r.tipo /\ e.c = r.c
                 /\ e.st = r.st /\ e.mes = r.mes /\ e.seen = r.seen
      BY WithEvent
    <2> QED
      BY <1>3, <2>1, <2>2
  <1> DEFINE true == TRUE
  <1>4. true \in BOOLEAN /\ true
    OBVIOUS
  <1> HIDE DEF true
  <1>5. \E e \in Payload :
                 /\ e = [NewEvent("Externo", c, "Success", true) EXCEPT !.ext = true]
                 /\ e.tipo = "Externo" /\ e.c = c /\ e.st = "Success" /\ e.seen = 0 /\ e.ext
    BY <1>3, <1>4
  <1> QED
    BY <1>2, <1>5 DEF true

(* What a charge that is about to begin is: a request that records one      *)
(* event of a charge nobody knows.                                          *)
LEMMA BeginsOne ==
    ASSUME CobrancaAssumption, IInv, NEW h \in Handlers, Begin(h), NEW c \in Fresh,
           NEW op \in Ops, op # "webhook", NEW e \in Payload, NEW next \in {"provider", "confirm"},
           handler' = [handler EXCEPT ![h] =
                          [State(op, c, "save") EXCEPT !.todo = <<e>>, !.next = next]],
           e.c = c, e.seen = 0, e.tipo \in DaCobranca,
           Success(e.st) => e.ext /\ next = "confirm",
           e.tipo = "Solicitada" => e.st = "aguardando",
           next = "provider" => op = "criar" /\ e.tipo = "Solicitada",
           UNCHANGED <<provider, log, table, obligations, webhooks, cursor, failed, rewound>>,
           shared' \in Charges \cup {None}
    PROVE  IInv'
  <1>0. c \in Charges /\ next \in Nexts /\ provider[c] = "none"
    BY DEF Fresh, Nexts, IInv, ProviderOK, Logged
  <1>1. Is([State(op, c, "save") EXCEPT !.todo = <<e>>, !.next = next],
            "save", op, c, 0, <<e>>, next, {}, None)
    BY <1>0, StartRecord
  <1>2. PICK s \in Handling : /\ handler' = [handler EXCEPT ![h] = s]
                              /\ Is(s, "save", op, c, 0, <<e>>, next, {}, None)
    BY <1>1 DEF Is
  <1>3. s.todo # <<>> /\ s.todo[1] = e /\ DOMAIN s.todo = {1} /\ Len(s.todo) = 1
    BY <1>2 DEF Is
  <1>4. TodoOK(s, e, log, provider)
    BY <1>2, <1>3, BeginsCharge DEF Is
  <1>5. HandlerOK(s, log, table, provider)
    <2>1. s.pc = "save" /\ s.next = next /\ s.op = op /\ s.c = c /\ s.left = {}
      BY <1>2 DEF Is
    <2>2. /\ At(s, "confirm") => next = "confirm"
          /\ At(s, "provider") => next = "provider"
          /\ ~At(s, "webhook") /\ ~At(s, "guard") /\ ~At(s, "cancelopen")
      BY <2>1 DEF At, Saving
    <2> QED
      BY <1>0, <1>3, <1>4, <2>1, <2>2 DEF HandlerOK
  <1>6. webhooks' \subseteq Charges
    BY DEF IInv, RowsOK
  <1>7. s.c \in Fresh
    BY <1>2 DEF Is
  <1> QED
    BY <1>2, <1>5, <1>6, <1>7, BeginStep

(* A payment of the month is begun, at the provider or outside it, or a     *)
(* single charge is.                                                        *)
LEMMA StartsInv ==
    ASSUME CobrancaAssumption, IInv, NEW h \in Handlers,
           IniciarPagamentoMensalidades(h) \/ reserveCharge(h)
              \/ RegistrarPagamentoExternoMensalidades(h)
    PROVE  IInv'
  <1>1. CASE IniciarPagamentoMensalidades(h)
    <2>1. PICK c \in Fresh : Set(h, [State("criar", c, "save") EXCEPT
                    !.todo = <<NewEvent("Solicitada", c, "aguardando", TRUE)>>,
                    !.next = "provider"])
      BY <1>1 DEF IniciarPagamentoMensalidades
    <2>2. PICK e \in Payload :
              /\ e = NewEvent("Solicitada", c, "aguardando", TRUE) /\ e.tipo = "Solicitada"
              /\ e.c = c /\ e.st = "aguardando" /\ e.seen = 0
      BY FirstEvents DEF Fresh
    <2>3. Begin(h) /\ UNCHANGED <<provider, log, table, obligations, webhooks, cursor, failed,
                                  rewound>>
          /\ shared' \in Charges \cup {None}
      BY <1>1 DEF IniciarPagamentoMensalidades, Same, readModel, IInv, RowsOK
    <2> QED
      BY <2>1, <2>2, <2>3, BeginsOne DEF Set, Success, isSuccessfulChargeStatus, Ops, DaCobranca
  <1>2. CASE reserveCharge(h)
    <2>1. PICK c \in Fresh : shared' = c /\ Set(h, [State("criar", c, "save") EXCEPT
                    !.todo = <<NewEvent("Solicitada", c, "aguardando", FALSE)>>,
                    !.next = "provider"])
      BY <1>2 DEF reserveCharge
    <2>2. PICK e \in Payload :
              /\ e = NewEvent("Solicitada", c, "aguardando", FALSE) /\ e.tipo = "Solicitada"
              /\ e.c = c /\ e.st = "aguardando" /\ e.seen = 0
      BY FirstEvents DEF Fresh
    <2>3. Begin(h) /\ UNCHANGED <<provider, log, table, obligations, webhooks, cursor, failed,
                                  rewound>>
          /\ shared' \in Charges \cup {None}
      BY <1>2, <2>1 DEF reserveCharge, Same, readModel, Fresh
    <2> QED
      BY <2>1, <2>2, <2>3, BeginsOne DEF Set, Success, isSuccessfulChargeStatus, Ops, DaCobranca
  <1>3. CASE RegistrarPagamentoExternoMensalidades(h)
    <2>1. PICK c \in Fresh : Set(h, [State("externo", c, "save") EXCEPT
                    !.todo = <<[NewEvent("Externo", c, "Success", TRUE) EXCEPT !.ext = TRUE]>>,
                    !.next = "confirm"])
      BY <1>3 DEF RegistrarPagamentoExternoMensalidades
    <2>2. PICK e \in Payload :
              /\ e = [NewEvent("Externo", c, "Success", TRUE) EXCEPT !.ext = TRUE]
              /\ e.tipo = "Externo" /\ e.c = c /\ e.st = "Success" /\ e.seen = 0 /\ e.ext
      BY FirstEvents DEF Fresh
    <2>3. Begin(h) /\ UNCHANGED <<provider, log, table, obligations, webhooks, cursor, failed,
                                  rewound>>
          /\ shared' \in Charges \cup {None}
      BY <1>3 DEF RegistrarPagamentoExternoMensalidades, Same, readModel, IInv, RowsOK
    <2> QED
      BY <2>1, <2>2, <2>3, BeginsOne DEF Set, Ops, DaCobranca
  <1> QED
    BY <1>1, <1>2, <1>3

(* A charge that has a row.                                                 *)
LEMMA RowFacts ==
    ASSUME IInv, NEW c \in Charges, HasRow(c)
    PROVE  /\ table[c] \in DOMAIN log /\ table[c] \in Nat
           /\ log[table[c]].c = c /\ OfCharge(log[table[c]]) /\ Logged(c, log)
           /\ Row(c) = log[table[c]] /\ log[table[c]] \in Payload
  BY DEF IInv, RowsOK, HasRow, Row, Logged

(* A request about a charge that has a row.                                 *)
LEMMA StartsOver ==
    ASSUME CobrancaAssumption, IInv, NEW h \in Handlers, NEW c \in Charges, Begin(h), HasRow(c),
           NEW op \in {"consultar", "cancelar", "externo"}, NEW pc \in {"ask", "confirm"},
           NEW s, handler' = [handler EXCEPT ![h] = s],
           s.c = c, s.pc = pc, s.op = op, s \in Handling, s.left = {}, s.next = "idle",
           pc = "ask" => s.seen = table[c] /\ ~cobrancaPagaExternamente(Row(c)),
           pc = "ask" /\ op = "externo" => ~isTerminalChargeStatus(Row(c).st),
           Same, UNCHANGED shared
    PROVE  IInv'
  <1>1. /\ table[c] \in DOMAIN log /\ table[c] \in Nat
        /\ log[table[c]].c = c /\ OfCharge(log[table[c]]) /\ Logged(c, log)
        /\ Row(c) = log[table[c]]
    BY RowFacts
  <1>2. ~Saving(s) /\ \A p : At(s, p) <=> p = pc
    BY DEF Saving, At
  <1>3. HandlerOK(s, log, table, provider)
    BY <1>1, <1>2 DEF HandlerOK
  <1>4. UNCHANGED <<provider, log, table, obligations, webhooks, cursor, failed, rewound>>
        /\ webhooks' \subseteq Charges /\ shared' \in Charges \cup {None}
    BY DEF Same, readModel, IInv, RowsOK
  <1>5. ~Begins(s) /\ ~At(s, "provider")
    BY <1>2 DEF Begins
  <1> QED
    BY <1>1, <1>3, <1>4, <1>5, BeginStep

(* A request reads the row of a charge that exists.                         *)
LEMMA StartsOverInv ==
    ASSUME CobrancaAssumption, IInv, NEW h \in Handlers, NEW c \in Charges,
           ConsultCharge(h, c) \/ CancelCharge(h, c) \/ RegistrarPagamentoExternoCobranca(h, c)
    PROVE  IInv'
  <1>0. Begin(h) /\ HasRow(c) /\ Same /\ UNCHANGED shared
    BY DEF ConsultCharge, CancelCharge, RegistrarPagamentoExternoCobranca
  <1>1. table[c] \in Nat
    BY <1>0, RowFacts
  <1>2. ~isTerminalChargeStatus(Row(c).st) => ~cobrancaPagaExternamente(Row(c))
    BY DEF isTerminalChargeStatus, cobrancaPagaExternamente, isSuccessfulChargeStatus
  <1>3. CASE ConsultCharge(h, c)
    <2> DEFINE pc == IF cobrancaPagaExternamente(Row(c)) THEN "confirm" ELSE "ask"
    <2>1. Set(h, [State("consultar", c, pc) EXCEPT !.seen = table[c]])
      BY <1>3 DEF ConsultCharge
    <2>2. pc \in Pcs /\ pc \in {"ask", "confirm"} /\ "consultar" \in Ops
          /\ (pc = "ask" => ~cobrancaPagaExternamente(Row(c)))
      BY DEF Pcs, Nexts, Ops
    <2> HIDE DEF pc
    <2>3. Is([State("consultar", c, pc) EXCEPT !.seen = table[c]],
             pc, "consultar", c, table[c], <<>>, "idle", {}, None)
      BY <1>1, <2>2, StartSeen
    <2>4. PICK s \in Handling : /\ handler' = [handler EXCEPT ![h] = s]
                                /\ Is(s, pc, "consultar", c, table[c], <<>>, "idle", {}, None)
      BY <2>1, <2>3 DEF Set, Is
    <2> QED
      BY <1>0, <2>2, <2>4, StartsOver DEF Is
  <1>4. CASE CancelCharge(h, c)
    <2>1. /\ Set(h, [State("cancelar", c, "ask") EXCEPT !.seen = table[c]])
          /\ ~isTerminalChargeStatus(Row(c).st)
      BY <1>4 DEF CancelCharge
    <2>3. Is([State("cancelar", c, "ask") EXCEPT !.seen = table[c]],
             "ask", "cancelar", c, table[c], <<>>, "idle", {}, None)
      BY <1>1, StartSeen DEF Pcs, Ops
    <2>4. PICK s \in Handling : /\ handler' = [handler EXCEPT ![h] = s]
                                /\ Is(s, "ask", "cancelar", c, table[c], <<>>, "idle", {}, None)
      BY <2>1, <2>3 DEF Set, Is
    <2> QED
      BY <1>0, <1>2, <2>1, <2>4, StartsOver DEF Is
  <1>5. CASE RegistrarPagamentoExternoCobranca(h, c)
    <2>1. CASE Set(h, State("externo", c, "confirm"))
      <3>1. Is(State("externo", c, "confirm"), "confirm", "externo", c, 0, <<>>, "idle", {}, None)
        BY StateFacts DEF Pcs, Ops, Nexts
      <3>2. PICK s \in Handling : /\ handler' = [handler EXCEPT ![h] = s]
                                  /\ Is(s, "confirm", "externo", c, 0, <<>>, "idle", {}, None)
        BY <2>1, <3>1 DEF Set, Is
      <3> QED
        BY <1>0, <3>2, StartsOver DEF Is
    <2>2. CASE /\ ~isTerminalChargeStatus(Row(c).st)
               /\ Set(h, [State("externo", c, "ask") EXCEPT !.seen = table[c]])
      <3>1. Is([State("externo", c, "ask") EXCEPT !.seen = table[c]],
               "ask", "externo", c, table[c], <<>>, "idle", {}, None)
        BY <1>1, StartSeen DEF Pcs, Ops
      <3>2. PICK s \in Handling : /\ handler' = [handler EXCEPT ![h] = s]
                                  /\ Is(s, "ask", "externo", c, table[c], <<>>, "idle", {}, None)
        BY <2>2, <3>1 DEF Set, Is
      <3> QED
        BY <1>0, <1>2, <2>2, <3>2, StartsOver DEF Is
    <2> QED
      BY <1>5, <2>1, <2>2 DEF RegistrarPagamentoExternoCobranca
  <1> QED
    BY <1>3, <1>4, <1>5

(* The provider notifies: a payment it tells of has been made.              *)
LEMMA AcceptInv ==
    ASSUME CobrancaAssumption, IInv, NEW h \in Handlers, NEW c \in Charges, AcceptWebhook(h, c)
    PROVE  IInv'
  <1>0. Begin(h) /\ provider[c] # "none" /\ webhooks' = webhooks \cup {c}
        /\ UNCHANGED <<provider, log, table, obligations, shared, cursor, failed, rewound>>
    BY DEF AcceptWebhook
  <1>1. PICK msg \in {provider[c], "Pending"} :
          Set(h, [State("webhook", c, "save") EXCEPT
                    !.todo = <<Fact("Webhook", c)>>, !.next = "webhook", !.msg = msg])
    BY DEF AcceptWebhook
  <1>2. PICK e \in Payload : /\ e = Fact("Webhook", c) /\ e.tipo = "Webhook" /\ e.c = c
                             /\ e.st = "aguardando" /\ e.seen = 0
    <2> DEFINE mes == TRUE
    <2>1. mes \in BOOLEAN /\ "aguardando" \in Estados
      BY DEF Estados
    <2> HIDE DEF mes
    <2>2. \E e \in Payload : /\ e = NewEvent("Webhook", c, "aguardando", mes)
                             /\ e.tipo = "Webhook" /\ e.c = c /\ e.st = "aguardando" /\ e.seen = 0
      BY <2>1, NewFacts
    <2> QED
      BY <2>2 DEF Fact, mes
  <1>3. msg \in Msgs /\ msg # None /\ (msg = "Success" => provider[c] = "Success")
        /\ Logged(c, log)
    BY <1>0 DEF IInv, ProviderOK, Msgs, None
  <1>4. Is([State("webhook", c, "save") EXCEPT !.todo = <<e>>, !.next = "webhook"],
           "save", "webhook", c, 0, <<e>>, "webhook", {}, None)
    BY StartRecord DEF Ops, Nexts
  <1>5. PICK a \in Handling :
           a = [State("webhook", c, "save") EXCEPT !.todo = <<e>>, !.next = "webhook"]
    BY <1>4 DEF Is
  <1>6. Is([a EXCEPT !.msg = msg], a.pc, a.op, a.c, a.seen, a.todo, a.next, a.left, msg)
    BY <1>3, With
  <1>7. handler' = [handler EXCEPT ![h] = [a EXCEPT !.msg = msg]]
    BY <1>1, <1>2, <1>5 DEF Set
  <1>8. PICK s \in Handling :
           /\ handler' = [handler EXCEPT ![h] = s]
           /\ Is(s, "save", "webhook", c, 0, <<e>>, "webhook", {}, msg)
    BY <1>4, <1>5, <1>6, <1>7 DEF Is
  <1>9. s.todo # <<>> /\ s.todo[1] = e /\ DOMAIN s.todo = {1} /\ Len(s.todo) = 1
    BY <1>8 DEF Is
  <1>10. TodoOK(s, e, log, provider)
    BY <1>2, <1>8 DEF Is, TodoOK, EventOK, SameMonth, OfCharge, DaCobranca
  <1>11. s.pc = "save" /\ s.next = "webhook" /\ s.op = "webhook" /\ s.c = c /\ s.left = {}
         /\ s.msg = msg
    BY <1>8 DEF Is
  <1>12. \A p : At(s, p) => p \in {"save", "webhook"}
    BY <1>11 DEF At, Saving
  <1>13. HandlerOK(s, log, table, provider)
    <2>1. /\ ~At(s, "confirm") /\ ~At(s, "provider") /\ ~At(s, "guard") /\ ~At(s, "cancelopen")
      BY <1>12
    <2> QED
      BY <1>0, <1>3, <1>9, <1>10, <1>11, <2>1 DEF HandlerOK
  <1>14. ~Begins(s) /\ ~At(s, "provider")
    BY <1>2, <1>9, <1>12 DEF Begins, OfCharge, DaCobranca
  <1>15. webhooks' \subseteq Charges /\ shared' \in Charges \cup {None}
    BY <1>0 DEF IInv, RowsOK
  <1> QED
    BY <1>0, <1>3, <1>8, <1>11, <1>13, <1>14, <1>15, BeginStep

(* A request about the month looks at its charges.                          *)
LEMMA AlterInv ==
    ASSUME CobrancaAssumption, IInv, NEW h \in Handlers, NEW op \in {"anular", "reativar"},
           alterarObrigacoesMensalidade(h, op)
    PROVE  IInv'
  <1> DEFINE left == {c \in Charges : HasRow(c) /\ Row(c).mes}
  <1>0. Begin(h) /\ Set(h, [State(op, None, "guard") EXCEPT !.left = left])
        /\ UNCHANGED <<provider, log, table, obligations, webhooks, shared, cursor, failed, rewound>>
    BY DEF alterarObrigacoesMensalidade, Same, readModel
  <1>1. left \in SUBSET Charges /\ \A c \in left : table[c] # 0
    BY DEF HasRow
  <1> HIDE DEF left
  <1>2. Is(State(op, None, "guard"), "guard", op, None, 0, <<>>, "idle", {}, None)
    BY StateFacts DEF Ops, Pcs, Nexts
  <1>3. PICK a \in Handling : a = State(op, None, "guard")
    BY <1>2 DEF Is
  <1>4. Is([a EXCEPT !.left = left], a.pc, a.op, a.c, a.seen, a.todo, a.next, left, a.msg)
    BY <1>1, With
  <1>5. PICK s \in Handling : /\ handler' = [handler EXCEPT ![h] = s]
                              /\ Is(s, "guard", op, None, 0, <<>>, "idle", left, None)
    BY <1>0, <1>2, <1>3, <1>4 DEF Set, Is
  <1>6. s.pc = "guard" /\ s.op = op /\ s.c = None /\ s.left = left
    BY <1>5 DEF Is
  <1>7. ~Saving(s) /\ \A p : At(s, p) <=> p = "guard"
    BY <1>6 DEF Saving, At
  <1>8. HandlerOK(s, log, table, provider)
    BY <1>1, <1>6, <1>7 DEF HandlerOK
  <1>9. webhooks' \subseteq Charges /\ shared' \in Charges \cup {None}
    BY <1>0 DEF IInv, RowsOK
  <1>10. ~Begins(s) /\ ~At(s, "provider")
    BY <1>6, <1>7 DEF Begins
  <1> QED
    BY <1>0, <1>5, <1>6, <1>8, <1>9, <1>10, BeginStep

(* A request ends.                                                          *)
LEMMA EndsInv ==
    ASSUME CobrancaAssumption, IInv, NEW h \in Handlers, Set(h, Idle),
           handler[h].pc \notin {"save", "apply", "confirm"},
           UNCHANGED <<provider, log, table, obligations, webhooks, shared, cursor, ops, rewound>>,
           failed \subseteq failed', failed' \subseteq Kinds
    PROVE  IInv'
  <1>1. handler' = [handler EXCEPT ![h] = Idle]
    BY DEF Set
  <1>2. HandlerOK(Idle, log, table, provider) /\ ~Begins(Idle) /\ Idle.c = None
        /\ ~At(Idle, "provider")
    BY IdleOK
  <1> QED
    BY <1>1, <1>2, GoesOn

(* A request looks at a row again, to note what is new in it or to ask.     *)
LEMMA LooksInv ==
    ASSUME CobrancaAssumption, IInv, NEW h \in Handlers, NEW s \in Handling,
           handler' = [handler EXCEPT ![h] = s],
           handler[h].pc \in {"webhook", "guard", "cancelopen"},
           NEW c \in Charges, HasRow(c), ~cobrancaPagaExternamente(Row(c)),
           NEW next \in Nexts, NEW left \in SUBSET handler[h].left,
           Is(s, s.pc, handler[h].op, c, table[c], handler[h].todo, next, left, handler[h].msg),
           s.pc \in {"ask", "note"}, s.pc = "note" => handler[h].pc = "webhook",
           handler[h].pc = "webhook" => c = handler[h].c,
           next = "guard" => handler[h].op \in {"anular", "reativar"},
           UNCHANGED <<provider, log, table, obligations, webhooks, shared, cursor, ops, failed,
                       rewound>>
    PROVE  IInv'
  <1>1. /\ table[c] \in DOMAIN log /\ table[c] \in Nat
        /\ log[table[c]].c = c /\ OfCharge(log[table[c]]) /\ Logged(c, log)
        /\ Row(c) = log[table[c]]
    BY RowFacts
  <1>2. HandlerOK(handler[h], log, table, provider)
    BY DEF IInv, HandlersOK
  <1>3. /\ handler[h].pc = "webhook" <=> handler[h].op = "webhook"
        /\ handler[h].pc # "webhook" => handler[h].op \in {"anular", "reativar"}
    BY <1>2 DEF HandlerOK, At
  <1>4. s.op = handler[h].op /\ s.c = c /\ s.seen = table[c] /\ s.next = next /\ s.left = left
        /\ s.msg = handler[h].msg
    BY DEF Is
  <1>5. ~Saving(s) /\ \A p : At(s, p) <=> p = s.pc
    BY DEF Saving, At
  <1>6. HandlerOK(s, log, table, provider)
    <2>1. s.op = "webhook" => s.c = handler[h].c /\ handler[h].op = "webhook"
          /\ handler[h].pc # "idle"
      BY <1>3, <1>4
    <2>2. /\ ~At(s, "confirm") /\ ~At(s, "provider") /\ ~At(s, "guard") /\ ~At(s, "cancelopen")
          /\ ~At(s, "webhook")
      BY <1>5
    <2>3. s.op # "externo"
      BY <1>3, <1>4
    <2>4. s.pc = "note" => s.op = "webhook"
      BY <1>3, <1>4
    <2> QED
      BY <1>1, <1>2, <1>4, <1>5, <2>1, <2>2, <2>3, <2>4 DEF HandlerOK
  <1>7. ~Begins(s) /\ ~At(s, "provider") /\ failed \subseteq failed' /\ failed' \subseteq Kinds
    BY <1>5 DEF Begins, IInv, RowsOK
  <1> QED
    BY <1>1, <1>4, <1>6, <1>7, GoesOn

(* What is new in a notification is noted; a payment is asked about.        *)
LEMMA ApplyWebhookInv ==
    ASSUME CobrancaAssumption, IInv, NEW h \in Handlers, ApplyWebhook(h) PROVE IInv'
  <1>0. /\ handler[h].pc = "webhook"
        /\ UNCHANGED <<provider, log, table, obligations, webhooks, shared, cursor, ops, failed,
                       rewound>>
    BY DEF ApplyWebhook, Step, readModel
  <1>1. PICK s \in Handling : s = handler[h]
    BY DEF IInv
  <1>2. s.c \in Charges
    BY <1>0, <1>1 DEF IInv, HandlersOK, HandlerOK, At, Saving
  <1>3. CASE Set(h, Idle)
    <2>1. failed \subseteq failed' /\ failed' \subseteq Kinds
      BY <1>0 DEF IInv, RowsOK
    <2> QED
      BY <1>0, <1>3, <2>1, EndsInv
  <1>4. ASSUME ~Set(h, Idle)
        PROVE  /\ HasRow(s.c) /\ ~cobrancaPagaExternamente(Row(s.c))
               /\ \E pc \in {"ask", "note"} :
                     Set(h, [[s EXCEPT !.seen = table[s.c]] EXCEPT !.pc = pc])
    BY <1>1, <1>4 DEF ApplyWebhook
  <1>5. ASSUME ~Set(h, Idle) PROVE IInv'
    <2>1. PICK pc \in {"ask", "note"} : Set(h, [[s EXCEPT !.seen = table[s.c]] EXCEPT !.pc = pc])
      BY <1>4, <1>5
    <2>2. table[s.c] \in Nat /\ pc \in Pcs
      BY <1>2, <1>4, <1>5, RowFacts DEF Pcs
    <2>3. Is([s EXCEPT !.seen = table[s.c]], s.pc, s.op, s.c, table[s.c], s.todo, s.next, s.left,
             s.msg)
      BY <2>2, With
    <2>4. PICK a \in Handling : a = [s EXCEPT !.seen = table[s.c]]
      BY <2>3 DEF Is
    <2>5. Is([a EXCEPT !.pc = pc], pc, a.op, a.c, a.seen, a.todo, a.next, a.left, a.msg)
      BY <2>2, With
    <2>6. PICK t \in Handling : /\ handler' = [handler EXCEPT ![h] = t] /\ t.pc = pc
             /\ Is(t, t.pc, handler[h].op, s.c, table[s.c], handler[h].todo, s.next, s.left,
                   handler[h].msg)
      BY <1>1, <2>1, <2>3, <2>4, <2>5 DEF Set, Is
    <2>7. s.next \in Nexts /\ s.left \in SUBSET handler[h].left
      BY <1>1 DEF Handling
    <2>8. s.next = "webhook"
      BY <1>0, <1>1 DEF IInv, HandlersOK, HandlerOK, At
    <2> QED
      BY <1>0, <1>1, <1>2, <1>4, <1>5, <2>6, <2>7, <2>8, LooksInv
  <1> QED
    BY <1>3, <1>5

(* A request goes on with events to record that were computed from rows, or *)
(* that are facts of the month.                                             *)
LEMMA GoOK ==
    ASSUME CobrancaAssumption, IInv, NEW h \in Handlers, NEW todo \in Seq(Payload),
           NEW next \in {"idle", "confirm", "guard", "cancelopen"}, Go(h, todo, next),
           handler[h].pc \notin {"idle", "save", "apply"},
           NEW P, \A c \in Charges : /\ provider[c] = "Success" => P[c] = "Success"
                                     /\ provider[c] # "none" => P[c] # "none",
           \A k \in DOMAIN todo :
              /\ EventOK(todo[k], log, P) /\ SameMonth(todo[k], log)
              /\ todo[k].c \in {handler[h].c, None}
              /\ OfCharge(todo[k]) => /\ todo[k].seen # 0
                                      /\ Success(todo[k].st) => next = "confirm",
           next = "confirm" => handler[h].c \in Charges,
           next \in {"guard", "cancelopen"} => handler[h].op \in {"anular", "reativar"}
    PROVE  \E s \in Handling :
              /\ handler' = [handler EXCEPT ![h] = s]
              /\ HandlerOK(s, log, table, P) /\ ~Begins(s) /\ ~At(s, "provider")
              /\ s.c = handler[h].c /\ s.todo = todo /\ (todo # <<>> => s.pc = "save")
  <1>0. next \in Nexts
    BY DEF Nexts
  <1>1. PICK s \in Handling :
          /\ handler' = [handler EXCEPT ![h] = s]
          /\ Is(s, IF todo = <<>> THEN next ELSE "save", handler[h].op, handler[h].c,
                handler[h].seen, todo, next, handler[h].left, handler[h].msg)
    BY <1>0, GoStep DEF Is
  <1>2. /\ s.pc = (IF todo = <<>> THEN next ELSE "save") /\ s.op = handler[h].op
        /\ s.c = handler[h].c /\ s.todo = todo /\ s.next = next /\ s.left = handler[h].left
        /\ s.msg = handler[h].msg
    BY <1>1 DEF Is
  <1>3. HandlerOK(handler[h], log, table, provider)
    BY DEF IInv, HandlersOK
  <1>4. \A p \in {"confirm", "guard", "cancelopen", "webhook", "provider"} : At(s, p) => p = next
    BY <1>2 DEF At, Saving
  <1>5. /\ s.pc \notin {"apply", "ask", "note", "provider"}
        /\ s.pc = "save" => todo # <<>>
    BY <1>2
  <1>6. \A k \in DOMAIN todo : TodoOK(s, todo[k], log, P)
    BY <1>2, CobrancaAssumption DEF TodoOK, EventOK
  <1>7. Saving(s) => s.todo # <<>> /\ \A k \in DOMAIN s.todo : TodoOK(s, s.todo[k], log, P)
    BY <1>2, <1>5, <1>6 DEF Saving
  <1>8. s.op = "webhook" =>
           s.c \in Charges /\ P[s.c] # "none" /\ s.msg # None
           /\ (s.msg = "Success" => P[s.c] = "Success")
    BY <1>2, <1>3 DEF HandlerOK
  <1>9. HandlerOK(s, log, table, P)
    <2>1. \A c \in s.left : table[c] # 0
      BY <1>2, <1>3 DEF HandlerOK
    <2>2. /\ At(s, "confirm") => s.c \in Charges
          /\ ~At(s, "webhook") /\ ~At(s, "provider")
          /\ At(s, "guard") \/ At(s, "cancelopen") => s.op \in {"anular", "reativar"}
      BY <1>2, <1>4
    <2>3. ~(Saving(s) /\ s.next = "provider")
      BY <1>2
    <2> QED
      BY <1>5, <1>7, <1>8, <2>1, <2>2, <2>3 DEF HandlerOK
  <1>10. ~Begins(s)
    <2> SUFFICES ASSUME Begins(s) PROVE FALSE
      OBVIOUS
    <2>1. todo # <<>> /\ OfCharge(todo[1]) /\ todo[1].seen = 0
      BY <1>2, <1>5 DEF Begins
    <2>2. 1 \in DOMAIN todo
      BY <2>1
    <2> QED
      BY <2>1, <2>2
  <1> QED
    BY <1>1, <1>2, <1>4, <1>9, <1>10

(* A request that was not about to confirm a payment goes on.               *)
LEMMA GoInv ==
    ASSUME CobrancaAssumption, IInv, NEW h \in Handlers, NEW todo \in Seq(Payload),
           NEW next \in {"idle", "confirm", "guard", "cancelopen"}, Go(h, todo, next),
           handler[h].pc \notin {"idle", "save", "apply", "confirm"},
           \A k \in DOMAIN todo :
              /\ EventOK(todo[k], log, provider) /\ SameMonth(todo[k], log)
              /\ todo[k].c \in {handler[h].c, None}
              /\ OfCharge(todo[k]) => /\ todo[k].seen # 0
                                      /\ Success(todo[k].st) => next = "confirm",
           next = "confirm" => handler[h].c \in Charges,
           next \in {"guard", "cancelopen"} => handler[h].op \in {"anular", "reativar"},
           UNCHANGED <<provider, log, table, obligations, webhooks, shared, cursor, ops, rewound>>,
           failed \subseteq failed', failed' \subseteq Kinds
    PROVE  IInv'
  <1>1. PICK s \in Handling :
              /\ handler' = [handler EXCEPT ![h] = s]
              /\ HandlerOK(s, log, table, provider) /\ ~Begins(s) /\ ~At(s, "provider")
              /\ s.c = handler[h].c
    BY GoOK
  <1> QED
    BY <1>1, GoesOn

(* The facts of the month.                                                  *)
LEMMA FactFacts ==
    ASSUME NEW tipo \in DaObrigacao, NEW c \in Charges \cup {None},
           tipo = "Confirmada" => c \in Charges
    PROVE  \E e \in Payload :
              /\ e = Fact(tipo, c) /\ e.tipo = tipo /\ e.c = c /\ ~OfCharge(e) /\ e.seen = 0
              /\ \A L, P : EventOK(e, L, P) /\ SameMonth(e, L)
  <1> DEFINE mes == TRUE
  <1>1. mes \in BOOLEAN /\ "aguardando" \in Estados
    BY DEF Estados
  <1> HIDE DEF mes
  <1>2. \E e \in Payload : /\ e = NewEvent(tipo, c, "aguardando", mes)
                           /\ e.tipo = tipo /\ e.c = c /\ e.st = "aguardando" /\ e.seen = 0
    BY <1>1, NewFacts
  <1>3. PICK e \in Payload : /\ e = Fact(tipo, c) /\ e.tipo = tipo /\ e.c = c
                             /\ e.st = "aguardando" /\ e.seen = 0
    BY <1>2 DEF Fact, mes
  <1>4. ~OfCharge(e) /\ e.tipo # "Webhook" /\ e.tipo # "Solicitada"
    BY <1>3 DEF OfCharge, DaCobranca, DaObrigacao
  <1>5. \A L, P : EventOK(e, L, P) /\ SameMonth(e, L)
    BY <1>3, <1>4 DEF EventOK, SameMonth
  <1> QED
    BY <1>3, <1>4, <1>5

(* No trace of a payment is passed over.                                    *)
LEMMA GuardInv ==
    ASSUME CobrancaAssumption, IInv, NEW h \in Handlers, garantirCobrancasSemPagamento(h)
    PROVE  IInv'
  <1>0. /\ handler[h].pc = "guard"
        /\ UNCHANGED <<provider, log, table, obligations, webhooks, shared, cursor, ops, failed,
                       rewound>>
    BY DEF garantirCobrancasSemPagamento, Step, readModel
  <1>1. PICK s \in Handling : s = handler[h]
    BY DEF IInv
  <1>2. HandlerOK(s, log, table, provider)
    BY <1>1 DEF IInv, HandlersOK
  <1>3. s.op \in {"anular", "reativar"}
    BY <1>0, <1>1, <1>2 DEF HandlerOK, At
  <1>4. PICK c \in s.left :
          LET rest == [s EXCEPT !.left = s.left \ {c}]
          IN  Set(h, IF payloadIndicaPagamento(Row(c)) THEN State(s.op, c, "confirm")
                     ELSE IF isTerminalChargeStatus(Row(c).st) THEN rest
                     ELSE [rest EXCEPT !.pc = "ask", !.c = c,
                                       !.seen = table[c], !.next = "guard"])
    BY <1>1 DEF garantirCobrancasSemPagamento
  <1>5. c \in Charges /\ HasRow(c) /\ Logged(c, log) /\ table[c] \in Nat
    <2>1. c \in Charges /\ HasRow(c)
      BY <1>2 DEF HandlerOK, Handling, HasRow
    <2> QED
      BY <2>1, RowFacts
  <1>6. Is([s EXCEPT !.left = s.left \ {c}], s.pc, s.op, s.c, s.seen, s.todo, s.next,
           s.left \ {c}, s.msg)
    <2>1. s.left \ {c} \in SUBSET Charges
      BY DEF Handling
    <2> QED
      BY <2>1, With
  <1>7. PICK rest \in Handling : /\ rest = [s EXCEPT !.left = s.left \ {c}]
          /\ Is(rest, s.pc, s.op, s.c, s.seen, s.todo, s.next, s.left \ {c}, s.msg)
    BY <1>6 DEF Is
  <1>8. failed \subseteq failed' /\ failed' \subseteq Kinds
    BY <1>0 DEF IInv, RowsOK
  <1>9. CASE payloadIndicaPagamento(Row(c))
    <2>1. Is(State(s.op, c, "confirm"), "confirm", s.op, c, 0, <<>>, "idle", {}, None)
      BY <1>3, <1>5, StateFacts DEF Ops, Pcs, Nexts
    <2>2. PICK t \in Handling : /\ handler' = [handler EXCEPT ![h] = t]
                                /\ Is(t, "confirm", s.op, c, 0, <<>>, "idle", {}, None)
      <3>1. Set(h, State(s.op, c, "confirm"))
        BY <1>4, <1>9
      <3>2. handler' = [handler EXCEPT ![h] = State(s.op, c, "confirm")]
        BY <3>1 DEF Set
      <3> QED
        BY <2>1, <3>2 DEF Is
    <2>3. t.pc = "confirm" /\ t.op = s.op /\ t.c = c /\ t.left = {}
      BY <2>2 DEF Is
    <2>4. ~Saving(t) /\ \A p : At(t, p) <=> p = "confirm"
      BY <2>3 DEF At, Saving
    <2>5. HandlerOK(t, log, table, provider)
      BY <1>3, <1>5, <2>3, <2>4 DEF HandlerOK
    <2>6. ~Begins(t) /\ ~At(t, "provider")
      BY <2>3, <2>4 DEF Begins
    <2> QED
      BY <1>0, <1>5, <1>8, <2>2, <2>3, <2>5, <2>6, GoesOn
  <1>10. CASE ~payloadIndicaPagamento(Row(c)) /\ isTerminalChargeStatus(Row(c).st)
    <2>1. handler' = [handler EXCEPT ![h] = rest]
      BY <1>4, <1>7, <1>10 DEF Set
    <2>2. rest.pc = "guard" /\ rest.op = s.op /\ rest.c = s.c /\ rest.left = s.left \ {c}
      BY <1>0, <1>1, <1>7 DEF Is
    <2>3. ~Saving(rest) /\ \A p : At(rest, p) <=> p = "guard"
      BY <2>2 DEF At, Saving
    <2>4. \A d \in rest.left : table[d] # 0
      BY <1>2, <2>2 DEF HandlerOK
    <2>5. HandlerOK(rest, log, table, provider)
      BY <1>3, <2>2, <2>3, <2>4 DEF HandlerOK
    <2>6. ~Begins(rest) /\ ~At(rest, "provider")
      BY <2>2, <2>3 DEF Begins
    <2> QED
      BY <1>0, <1>1, <1>8, <2>1, <2>2, <2>5, <2>6, GoesOn
  <1>11. CASE ~payloadIndicaPagamento(Row(c)) /\ ~isTerminalChargeStatus(Row(c).st)
    <2>1. Is([rest EXCEPT !.pc = "ask"], "ask", rest.op, rest.c, rest.seen, rest.todo, rest.next,
             rest.left, rest.msg)
      BY With DEF Pcs
    <2>2. PICK r1 \in Handling : r1 = [rest EXCEPT !.pc = "ask"]
      BY <2>1 DEF Is
    <2>3. Is([r1 EXCEPT !.c = c], r1.pc, r1.op, c, r1.seen, r1.todo, r1.next, r1.left, r1.msg)
      BY <1>5, With
    <2>4. PICK r2 \in Handling : r2 = [r1 EXCEPT !.c = c]
      BY <2>3 DEF Is
    <2>5. Is([r2 EXCEPT !.seen = table[c]], r2.pc, r2.op, r2.c, table[c], r2.todo, r2.next,
             r2.left, r2.msg)
      BY <1>5, With
    <2>6. PICK r3 \in Handling : r3 = [r2 EXCEPT !.seen = table[c]]
      BY <2>5 DEF Is
    <2>7. Is([r3 EXCEPT !.next = "guard"], r3.pc, r3.op, r3.c, r3.seen, r3.todo, "guard",
             r3.left, r3.msg)
      BY With DEF Nexts
    <2>8. Set(h, [r3 EXCEPT !.next = "guard"])
      BY <1>4, <1>7, <1>11, <2>2, <2>4, <2>6
    <2>9. PICK t \in Handling : t = [r3 EXCEPT !.next = "guard"]
      BY <2>7 DEF Is
    <2>10. t.pc = "ask" /\ Is(t, "ask", s.op, c, table[c], s.todo, "guard", s.left \ {c}, s.msg)
      BY <1>7, <2>1, <2>2, <2>3, <2>4, <2>5, <2>6, <2>7, <2>9 DEF Is
    <2>11. handler' = [handler EXCEPT ![h] = t]
      BY <2>8, <2>9 DEF Set
    <2>12. ~cobrancaPagaExternamente(Row(c))
      BY <1>11 DEF cobrancaPagaExternamente, isTerminalChargeStatus, isSuccessfulChargeStatus
    <2>13. "guard" \in Nexts /\ s.left \ {c} \in SUBSET s.left
      BY DEF Nexts
    <2>14. PICK left \in SUBSET handler[h].left : left = s.left \ {c}
      BY <1>1
    <2>15. Is(t, t.pc, handler[h].op, c, table[c], handler[h].todo, "guard", left,
              handler[h].msg)
      BY <1>1, <2>10, <2>14
    <2>16. handler[h].op \in {"anular", "reativar"} /\ t.pc = "ask"
      BY <1>1, <1>3, <2>10
    <2> QED
      BY <1>0, <1>5, <2>11, <2>12, <2>13, <2>15, <2>16, LooksInv
  <1> QED
    BY <1>9, <1>10, <1>11

(* A request records one fact of the month and ends.                        *)
LEMMA RecordsFact ==
    ASSUME CobrancaAssumption, IInv, NEW h \in Handlers, NEW e \in Payload,
           Go(h, <<e>>, "idle"), ~OfCharge(e), e.c \in {handler[h].c, None},
           EventOK(e, log, provider), SameMonth(e, log),
           handler[h].pc \in {"guard", "cancelopen"},
           UNCHANGED <<provider, log, table, obligations, webhooks, shared, cursor, ops, failed,
                       rewound>>
    PROVE  IInv'
  <1>1. PICK todo \in Seq(Payload) : todo = <<e>> /\ DOMAIN todo = {1} /\ todo[1] = e
    <2>1. <<e>> \in Seq(Payload)
      OBVIOUS
    <2>2. DOMAIN <<e>> = {1} /\ <<e>>[1] = e
      OBVIOUS
    <2> QED
      BY <2>1, <2>2
  <1>2. Go(h, todo, "idle")
    BY <1>1
  <1>3. \A k \in DOMAIN todo :
              /\ EventOK(todo[k], log, provider) /\ SameMonth(todo[k], log)
              /\ todo[k].c \in {handler[h].c, None}
              /\ ~OfCharge(todo[k])
    BY <1>1
  <1>4. failed \subseteq failed' /\ failed' \subseteq Kinds
    BY DEF IInv, RowsOK
  <1> QED
    BY <1>2, <1>3, <1>4, GoInv

(* The month is annulled, or is due again.                                  *)
LEMMA GuardedInv ==
    ASSUME CobrancaAssumption, IInv, NEW h \in Handlers, Guarded(h) PROVE IInv'
  <1>0. /\ handler[h].pc = "guard"
        /\ UNCHANGED <<provider, log, table, obligations, webhooks, shared, cursor, ops, failed,
                       rewound>>
        /\ failed \subseteq failed' /\ failed' \subseteq Kinds
    BY DEF Guarded, Step, readModel, IInv, RowsOK
  <1>1. handler[h].op \in {"anular", "reativar"}
    BY <1>0 DEF IInv, HandlersOK, HandlerOK, At
  <1>2. CASE Set(h, [State(handler[h].op, None, "cancelopen") EXCEPT !.left = abertas])
    <2>1. PICK op \in {"anular", "reativar"} : op = handler[h].op
      BY <1>1
    <2>2. Is(State(op, None, "cancelopen"), "cancelopen", op, None, 0, <<>>, "idle", {}, None)
      BY StateFacts DEF Ops, Pcs, Nexts
    <2>3. PICK a \in Handling : a = State(op, None, "cancelopen")
      BY <2>2 DEF Is
    <2>4. PICK left \in SUBSET Charges : left = abertas /\ \A c \in left : table[c] # 0
      BY DEF abertas, HasRow
    <2>5. Is([a EXCEPT !.left = left], a.pc, a.op, a.c, a.seen, a.todo, a.next, left, a.msg)
      BY With
    <2>6. handler' = [handler EXCEPT ![h] = [a EXCEPT !.left = left]]
      BY <1>2, <2>1, <2>3, <2>4 DEF Set
    <2>7. PICK s \in Handling : /\ handler' = [handler EXCEPT ![h] = s]
                                /\ Is(s, "cancelopen", op, None, 0, <<>>, "idle", left, None)
      BY <2>2, <2>3, <2>5, <2>6 DEF Is
    <2>8. s.pc = "cancelopen" /\ s.op = op /\ s.c = None /\ s.left = left
      BY <2>7 DEF Is
    <2>9. ~Saving(s) /\ \A p : At(s, p) <=> p = "cancelopen"
      BY <2>8 DEF Saving, At
    <2>10. HandlerOK(s, log, table, provider)
      BY <2>4, <2>8, <2>9 DEF HandlerOK
    <2>11. ~Begins(s) /\ ~At(s, "provider")
      BY <2>8, <2>9 DEF Begins
    <2> QED
      BY <1>0, <2>7, <2>8, <2>10, <2>11, GoesOn
  <1>3. CASE Go(h, <<Fact("Reativada", None)>>, "idle")
    <2>1. PICK e \in Payload : /\ e = Fact("Reativada", None) /\ e.c = None /\ ~OfCharge(e)
                               /\ EventOK(e, log, provider) /\ SameMonth(e, log)
      BY FactFacts DEF DaObrigacao
    <2> QED
      BY <1>0, <1>3, <2>1, RecordsFact
  <1>4. CASE Set(h, Idle)
    BY <1>0, <1>4, EndsInv
  <1> QED
    BY <1>2, <1>3, <1>4 DEF Guarded

(* The open charges of an annulled month are cancelled.                     *)
LEMMA CancelOpenInv ==
    ASSUME CobrancaAssumption, IInv, NEW h \in Handlers, cancelOpenMensalidadeCharges(h)
    PROVE  IInv'
  <1>0. /\ handler[h].pc = "cancelopen"
        /\ UNCHANGED <<provider, log, table, obligations, webhooks, shared, cursor, ops, failed,
                       rewound>>
        /\ failed \subseteq failed' /\ failed' \subseteq Kinds
    BY DEF cancelOpenMensalidadeCharges, Step, readModel, IInv, RowsOK
  <1>1. PICK s \in Handling : s = handler[h]
    BY DEF IInv
  <1>2. HandlerOK(s, log, table, provider)
    BY <1>1 DEF IInv, HandlersOK
  <1>3. CASE Go(h, <<Fact("Anulada", None)>>, "idle")
    <2>1. PICK e \in Payload : /\ e = Fact("Anulada", None) /\ e.c = None /\ ~OfCharge(e)
                               /\ EventOK(e, log, provider) /\ SameMonth(e, log)
      BY FactFacts DEF DaObrigacao
    <2> QED
      BY <1>0, <1>3, <2>1, RecordsFact
  <1>4. ASSUME NEW c \in s.left, isTerminalChargeStatus(Row(c).st), Set(h, Idle) PROVE IInv'
    BY <1>0, <1>4, EndsInv
  <1>5. ASSUME NEW c \in s.left, ~isTerminalChargeStatus(Row(c).st),
               Set(h, [s EXCEPT !.pc = "ask", !.c = c, !.seen = table[c], !.next = "cancelopen",
                                !.left = s.left \ {c}])
        PROVE  IInv'
    <2>1. c \in Charges /\ HasRow(c) /\ table[c] \in Nat
      <3>1. c \in Charges /\ HasRow(c)
        BY <1>2 DEF HandlerOK, Handling, HasRow
      <3> QED
        BY <3>1, RowFacts
    <2>2. Is([s EXCEPT !.pc = "ask"], "ask", s.op, s.c, s.seen, s.todo, s.next, s.left, s.msg)
      BY With DEF Pcs
    <2>3. PICK r1 \in Handling : r1 = [s EXCEPT !.pc = "ask"]
      BY <2>2 DEF Is
    <2>4. Is([r1 EXCEPT !.c = c], r1.pc, r1.op, c, r1.seen, r1.todo, r1.next, r1.left, r1.msg)
      BY <2>1, With
    <2>5. PICK r2 \in Handling : r2 = [r1 EXCEPT !.c = c]
      BY <2>4 DEF Is
    <2>6. Is([r2 EXCEPT !.seen = table[c]], r2.pc, r2.op, r2.c, table[c], r2.todo, r2.next,
             r2.left, r2.msg)
      BY <2>1, With
    <2>7. PICK r3 \in Handling : r3 = [r2 EXCEPT !.seen = table[c]]
      BY <2>6 DEF Is
    <2>8. Is([r3 EXCEPT !.next = "cancelopen"], r3.pc, r3.op, r3.c, r3.seen, r3.todo,
             "cancelopen", r3.left, r3.msg)
      BY With DEF Nexts
    <2>9. PICK r4 \in Handling : r4 = [r3 EXCEPT !.next = "cancelopen"]
      BY <2>8 DEF Is
    <2>10. PICK left \in SUBSET Charges : left = s.left \ {c}
      BY DEF Handling
    <2>11. Is([r4 EXCEPT !.left = left], r4.pc, r4.op, r4.c, r4.seen, r4.todo, r4.next, left,
              r4.msg)
      BY With
    <2>12. PICK t \in Handling : t = [r4 EXCEPT !.left = left]
      BY <2>11 DEF Is
    <2>13. handler' = [handler EXCEPT ![h] = t]
      BY <1>5, <2>3, <2>5, <2>7, <2>9, <2>10, <2>12 DEF Set
    <2>14. t.pc = "ask"
           /\ Is(t, t.pc, s.op, c, table[c], s.todo, "cancelopen", left, s.msg)
      BY <2>2, <2>3, <2>4, <2>5, <2>6, <2>7, <2>8, <2>9, <2>11, <2>12 DEF Is
    <2>15. Is(t, t.pc, handler[h].op, c, table[c], handler[h].todo, "cancelopen", left,
              handler[h].msg)
      BY <1>1, <2>14
    <2>16. ~cobrancaPagaExternamente(Row(c))
      BY <1>5 DEF cobrancaPagaExternamente, isTerminalChargeStatus, isSuccessfulChargeStatus
    <2>17. "cancelopen" \in Nexts /\ left \in SUBSET handler[h].left
      BY <1>1, <2>10 DEF Nexts
    <2> QED
      BY <1>0, <2>1, <2>13, <2>14, <2>15, <2>16, <2>17, LooksInv
  <1>6. \/ Go(h, <<Fact("Anulada", None)>>, "idle")
        \/ \E c \in s.left :
              IF isTerminalChargeStatus(Row(c).st) THEN Set(h, Idle)
              ELSE Set(h, [s EXCEPT !.pc = "ask", !.c = c, !.seen = table[c],
                                    !.next = "cancelopen", !.left = s.left \ {c}])
    BY <1>1 DEF cancelOpenMensalidadeCharges
  <1> QED
    BY <1>3, <1>4, <1>5, <1>6

(* A payment found is confirmed, unless it has been.                        *)
LEMMA ConfirmInv ==
    ASSUME CobrancaAssumption, IInv, NEW h \in Handlers, confirmMensalidadeCharge(h) PROVE IInv'
  <1> DEFINE c == handler[h].c
  <1> DEFINE done == \E i \in obligations : log[i].tipo = "Confirmada" /\ log[i].c = c
  <1>0. /\ handler[h].pc = "confirm"
        /\ UNCHANGED <<provider, log, table, obligations, webhooks, shared, cursor, ops, failed,
                       rewound>>
    BY DEF confirmMensalidadeCharge, Step, readModel
  <1>1. c \in Charges
    BY <1>0 DEF IInv, HandlersOK, HandlerOK, At
  <1>2. /\ failed \subseteq failed' /\ failed' \subseteq Kinds /\ ops' \in Nat /\ ops' <= MaxOps
        /\ webhooks' \subseteq Charges /\ shared' \in Charges \cup {None}
        /\ provider' \in [Charges -> {"none", "Pending", "Success", "Expired"}]
        /\ provider' = provider
    BY <1>0 DEF IInv, RowsOK, ProviderOK
  <1>3. None \notin Charges
    BY CobrancaAssumption
  <1>4. \A i \in DOMAIN log : ~Shows(handler[h], log[i])
    BY <1>0 DEF Shows
  <1>5. \A d \in Charges :
              /\ provider[d] = "Success" => provider'[d] = "Success"
              /\ provider[d] # "none" => provider'[d] # "none"
              /\ provider'[d] # provider[d] /\ provider[d] = "none" =>
                    At(handler[h], "provider") /\ handler[h].c = d /\ Logged(d, log)
    BY <1>2
  <1>6. CASE Set(h, Idle) /\ (done \/ ~HasRow(c) \/ ~Success(Row(c).st) \/ ~Row(c).mes)
    <2>1. ASSUME NEW i \in DOMAIN log, Unconfirmed(i), i = table[log[i].c],
                 Confirms(handler[h], log[i].c)
          PROVE  FALSE
      <3>1. log[i].c = c /\ i = table[c] /\ i # 0
        BY <2>1 DEF Confirms, IInv
      <3>2. HasRow(c) /\ Success(Row(c).st) /\ Row(c).mes
        BY <2>1, <3>1 DEF HasRow, Row, Unconfirmed
      <3>3. done
        BY <1>6, <3>2
      <3>4. Confirmed(c)
        BY <3>3 DEF Confirmed, IInv, RowsOK
      <3> QED
        BY <2>1, <3>1, <3>4 DEF Unconfirmed
    <2>2. handler' = [handler EXCEPT ![h] = Idle]
      BY <1>6 DEF Set
    <2>3. HandlerOK(Idle, log, table, provider') /\ ~Begins(Idle) /\ Idle.c = None
          /\ ~At(Idle, "provider")
      BY IdleOK
    <2> QED
      BY <1>0, <1>2, <1>3, <1>4, <1>5, <2>1, <2>2, <2>3, HandlerStep
  <1>7. CASE Go(h, <<Fact("Confirmada", c)>>, "idle")
    <2>1. PICK e \in Payload : /\ e = Fact("Confirmada", c) /\ e.tipo = "Confirmada" /\ e.c = c
                               /\ ~OfCharge(e)
                               /\ EventOK(e, log, provider) /\ SameMonth(e, log)
      BY <1>1, FactFacts DEF DaObrigacao
    <2>2. PICK todo \in Seq(Payload) : todo = <<e>> /\ DOMAIN todo = {1} /\ todo[1] = e
                                       /\ todo # <<>>
      <3>1. <<e>> \in Seq(Payload) /\ <<e>> # <<>>
        OBVIOUS
      <3>2. DOMAIN <<e>> = {1} /\ <<e>>[1] = e
        OBVIOUS
      <3> QED
        BY <3>1, <3>2
    <2>3. Go(h, todo, "idle")
      BY <1>7, <2>1, <2>2
    <2>4. PICK s \in Handling :
              /\ handler' = [handler EXCEPT ![h] = s]
              /\ HandlerOK(s, log, table, provider) /\ ~Begins(s) /\ ~At(s, "provider")
              /\ s.c = c /\ s.todo = todo /\ s.pc = "save"
      <3> DEFINE next == "idle"
      <3>0. next \in {"idle", "confirm", "guard", "cancelopen"} /\ Go(h, todo, next)
            /\ next # "confirm" /\ next \notin {"guard", "cancelopen"}
        BY <2>3
      <3> HIDE DEF next
      <3>1. \A k \in DOMAIN todo :
              /\ EventOK(todo[k], log, provider) /\ SameMonth(todo[k], log)
              /\ todo[k].c \in {handler[h].c, None}
              /\ OfCharge(todo[k]) => /\ todo[k].seen # 0
                                      /\ Success(todo[k].st) => next = "confirm"
        BY <2>1, <2>2
      <3>2. \A d \in Charges : /\ provider[d] = "Success" => provider[d] = "Success"
                               /\ provider[d] # "none" => provider[d] # "none"
        OBVIOUS
      <3>3. handler[h].pc \notin {"idle", "save", "apply"}
        BY <1>0
      <3> QED
        <4>1. \E s \in Handling :
              /\ handler' = [handler EXCEPT ![h] = s]
              /\ HandlerOK(s, log, table, provider) /\ ~Begins(s) /\ ~At(s, "provider")
              /\ s.c = handler[h].c /\ s.todo = todo /\ (todo # <<>> => s.pc = "save")
          BY <3>0, <3>1, <3>2, <3>3, GoOK
        <4> QED
          BY <2>2, <4>1
    <2>5. \A i \in DOMAIN log : Confirms(handler[h], log[i].c) => Confirms(s, log[i].c)
      BY <2>1, <2>2, <2>4 DEF Confirms
    <2>6. HandlerOK(s, log, table, provider')
      BY <1>2, <2>4
    <2> HIDE DEF c
    <2>7. s.c = handler[h].c
      BY <2>4 DEF c
    <2> QED
      BY <1>0, <1>2, <1>3, <1>4, <1>5, <2>4, <2>5, <2>6, <2>7, HandlerStep
  <1> QED
    BY <1>6, <1>7 DEF confirmMensalidadeCharge
-----------------------------------------------------------------------------
(* What the provider answers.                                               *)

(* An event whose payload is that of the event at index i.                  *)
LEMMA OverFacts ==
    ASSUME log \in Seq(Payload), NEW i \in DOMAIN log, NEW tipo \in DaCobranca, NEW st \in Estados
    PROVE  \E e \in Payload :
              /\ e = EventOver(tipo, i, st) /\ e.tipo = tipo /\ e.st = st /\ e.seen = i
              /\ e.c = log[i].c /\ e.mes = log[i].mes /\ e.ext = log[i].ext
  <1>0. PICK r \in Payload : r = log[i] /\ i \in Nat
    OBVIOUS
  <1> DEFINE a == [r EXCEPT !.tipo = tipo]
  <1> DEFINE b == [a EXCEPT !.st = st]
  <1> DEFINE e == [tipo |-> tipo, c |-> r.c, st |-> st, ext |-> r.ext, pago |-> r.pago,
                   mes |-> r.mes, seen |-> i]
  <1>1. a = [tipo |-> tipo, c |-> r.c, st |-> r.st, ext |-> r.ext, pago |-> r.pago,
             mes |-> r.mes, seen |-> r.seen]
    BY <1>0 DEF Payload
  <1>2. b = [tipo |-> tipo, c |-> r.c, st |-> st, ext |-> r.ext, pago |-> r.pago,
             mes |-> r.mes, seen |-> r.seen]
    <2> HIDE DEF a
    <2> QED
      BY <1>1
  <1>3. [b EXCEPT !.seen = i] = e
    <2> HIDE DEF b
    <2> QED
      BY <1>2
  <1>4. e = EventOver(tipo, i, st)
    BY <1>0, <1>3 DEF EventOver
  <1>5. e \in Payload
    BY <1>0 DEF Payload
  <1>6. e.tipo = tipo /\ e.st = st /\ e.seen = i /\ e.c = r.c
    OBVIOUS
  <1>7. e.mes = r.mes
    OBVIOUS
  <1>8. e.ext = r.ext
    OBVIOUS
  <1> HIDE DEF e
  <1> QED
    BY <1>0, <1>4, <1>5, <1>6, <1>7, <1>8

\* What a request may record of its charge.
Over(e, c, P) == EventOK(e, log, P) /\ SameMonth(e, log) /\ OfCharge(e) /\ e.c = c /\ e.seen # 0

(* It may record what agrees with the row it was computed from.             *)
LEMMA OverOK ==
    ASSUME IInv, NEW i \in DOMAIN log, OfCharge(log[i]),
           NEW e \in Payload, e.tipo \in DaCobranca \ {"Solicitada"}, e.seen = i,
           e.c = log[i].c, e.mes = log[i].mes, NEW P,
           Success(e.st) => e.ext \/ P[e.c] = "Success", Stands(log[i], e)
    PROVE  Over(e, log[i].c, P)
  <1>1. i # 0 /\ OfCharge(e) /\ e.tipo # "Confirmada" /\ e.tipo # "Webhook"
    BY DEF IInv, OfCharge, DaCobranca
  <1>2. log[i].c \in Charges
    BY DEF IInv, LogOK, EventOK
  <1>3. EventOK(e, log, P)
    BY <1>1, <1>2 DEF EventOK
  <1>4. SameMonth(e, log)
    BY DEF IInv, LogOK, SameMonth
  <1> QED
    BY <1>1, <1>3, <1>4 DEF Over

(* What a request that asks, or notes, was computed from.                   *)
LEMMA AskFacts ==
    ASSUME IInv, NEW h \in Handlers, handler[h].pc \in {"ask", "note"}
    PROVE  /\ handler[h].c \in Charges /\ handler[h].seen \in DOMAIN log
           /\ OfCharge(log[handler[h].seen]) /\ log[handler[h].seen].c = handler[h].c
           /\ ~cobrancaPagaExternamente(log[handler[h].seen])
           /\ handler[h].op = "externo" => ~isTerminalChargeStatus(log[handler[h].seen].st)
           /\ handler[h].pc = "note" => handler[h].op = "webhook"
           /\ handler[h].op = "webhook" => /\ handler[h].msg \in Msgs \ {None}
                                           /\ provider[handler[h].c] # "none"
                                           /\ handler[h].msg = "Success" =>
                                                 provider[handler[h].c] = "Success"
           /\ handler[h].next = "guard" /\ handler[h].pc = "ask" =>
                 handler[h].op \in {"anular", "reativar"}
  <1>1. HandlerOK(handler[h], log, table, provider) /\ handler[h] \in Handling
    BY DEF IInv, HandlersOK
  <1>2. handler[h].msg \in Msgs
    BY <1>1 DEF Handling
  <1> QED
    BY <1>1, <1>2 DEF HandlerOK

(* The events that follow an answer.                                        *)
LEMMA AnswerEvents ==
    ASSUME IInv, NEW h \in Handlers, handler[h].pc \in {"ask", "note"}, NEW st \in Estados,
           Success(st) => provider[handler[h].c] = "Success",
           NEW i, i = handler[h].seen
    PROVE  /\ log[i].st = "cancelada" => \E e \in Payload :
                 /\ e = [EventOver("Conflito", i, "cancelada") EXCEPT !.pago = TRUE]
                 /\ Over(e, handler[h].c, provider) /\ ~Success(e.st)
           /\ ~(log[i].st = "cancelada" /\ Success(st)) => \E e \in Payload :
                 /\ e = EventOver("Consultada", i, st)
                 /\ Over(e, handler[h].c, provider) /\ e.st = st
           /\ \E e \in Payload :
                 /\ e = EventOver("Cancelada", i, "cancelada")
                 /\ Over(e, handler[h].c, provider) /\ ~Success(e.st)
           /\ handler[h].op = "externo" => \E e \in Payload :
                 /\ e = [EventOver("Externo", i, "Success") EXCEPT !.ext = TRUE]
                 /\ Over(e, handler[h].c, provider)
  <1>0. /\ log \in Seq(Payload) /\ i \in DOMAIN log /\ OfCharge(log[i])
        /\ log[i].c = handler[h].c /\ ~cobrancaPagaExternamente(log[i])
        /\ handler[h].op = "externo" => ~isTerminalChargeStatus(log[i].st)
    BY AskFacts DEF IInv
  <1>1. /\ {"Conflito", "Consultada", "Cancelada", "Externo"} \subseteq DaCobranca \ {"Solicitada"}
        /\ "cancelada" \in Estados /\ "Success" \in Estados /\ ~Success("cancelada")
    BY DEF DaCobranca, Estados, Success, isSuccessfulChargeStatus
  <1> DEFINE true == TRUE
  <1>2. true \in BOOLEAN /\ true
    OBVIOUS
  <1> HIDE DEF true
  <1>3. ASSUME log[i].st = "cancelada", NEW v \in BOOLEAN
        PROVE  \E e \in Payload :
                 /\ e = [EventOver("Conflito", i, "cancelada") EXCEPT !.pago = v]
                 /\ Over(e, handler[h].c, provider) /\ ~Success(e.st)
    <2>1. PICK r \in Payload :
              /\ r = EventOver("Conflito", i, "cancelada") /\ r.tipo = "Conflito"
              /\ r.st = "cancelada" /\ r.seen = i /\ r.c = log[i].c /\ r.mes = log[i].mes
      BY <1>0, <1>1, OverFacts
    <2>2. PICK e \in Payload :
                 /\ e = [r EXCEPT !.pago = v] /\ e.ext = r.ext /\ e.tipo = r.tipo /\ e.c = r.c
                 /\ e.st = r.st /\ e.mes = r.mes /\ e.seen = r.seen
      BY WithEvent
    <2>3. Stands(log[i], e) /\ ~Success(e.st)
      BY <1>0, <1>1, <2>1, <2>2 DEF Stands
    <2>4. Over(e, log[i].c, provider)
      BY <1>0, <1>1, <2>1, <2>2, <2>3, OverOK
    <2> QED
      BY <1>0, <2>1, <2>2, <2>3, <2>4
  <1>4. ASSUME ~(log[i].st = "cancelada" /\ Success(st))
        PROVE  \E e \in Payload :
                 /\ e = EventOver("Consultada", i, st)
                 /\ Over(e, handler[h].c, provider) /\ e.st = st
    <2>1. PICK e \in Payload :
              /\ e = EventOver("Consultada", i, st) /\ e.tipo = "Consultada"
              /\ e.st = st /\ e.seen = i /\ e.c = log[i].c /\ e.mes = log[i].mes
      BY <1>0, <1>1, OverFacts
    <2>2. Stands(log[i], e)
      BY <1>0, <1>4, <2>1 DEF Stands
    <2>3. Over(e, log[i].c, provider)
      BY <1>0, <1>1, <2>1, <2>2, OverOK
    <2> QED
      BY <1>0, <2>1, <2>3
  <1>5. \E e \in Payload : /\ e = EventOver("Cancelada", i, "cancelada")
                           /\ Over(e, handler[h].c, provider) /\ ~Success(e.st)
    <2>1. PICK e \in Payload :
              /\ e = EventOver("Cancelada", i, "cancelada") /\ e.tipo = "Cancelada"
              /\ e.st = "cancelada" /\ e.seen = i /\ e.c = log[i].c /\ e.mes = log[i].mes
      BY <1>0, <1>1, OverFacts
    <2>2. Stands(log[i], e) /\ ~Success(e.st)
      BY <1>0, <1>1, <2>1 DEF Stands
    <2>3. Over(e, log[i].c, provider)
      BY <1>0, <1>1, <2>1, <2>2, OverOK
    <2> QED
      BY <1>0, <2>1, <2>2, <2>3
  <1>6. ASSUME handler[h].op = "externo", NEW v \in BOOLEAN, v
        PROVE  \E e \in Payload :
                 /\ e = [EventOver("Externo", i, "Success") EXCEPT !.ext = v]
                 /\ Over(e, handler[h].c, provider)
    <2>1. PICK r \in Payload :
              /\ r = EventOver("Externo", i, "Success") /\ r.tipo = "Externo"
              /\ r.st = "Success" /\ r.seen = i /\ r.c = log[i].c /\ r.mes = log[i].mes
      BY <1>0, <1>1, OverFacts
    <2>2. PICK e \in Payload :
                 /\ e = [r EXCEPT !.ext = v] /\ (e.ext <=> v) /\ e.tipo = r.tipo
                 /\ e.c = r.c /\ e.st = r.st /\ e.mes = r.mes /\ e.seen = r.seen
      BY WithEvent
    <2>3. Stands(log[i], e)
      BY <1>0, <1>6, <2>1, <2>2 DEF Stands, isTerminalChargeStatus
    <2>4. e.ext
      BY <1>6, <2>2
    <2>5. Success(e.st) => e.ext \/ provider[e.c] = "Success"
      BY <2>4
    <2>6. e.tipo \in DaCobranca \ {"Solicitada"} /\ e.seen = i /\ e.c = log[i].c
          /\ e.mes = log[i].mes
      BY <1>1, <2>1, <2>2
    <2>7. Over(e, log[i].c, provider)
      BY <1>0, <2>3, <2>5, <2>6, OverOK
    <2> QED
      BY <1>0, <2>1, <2>2, <2>7
  <1>7. log[i].st = "cancelada" => \E e \in Payload :
                 /\ e = [EventOver("Conflito", i, "cancelada") EXCEPT !.pago = true]
                 /\ Over(e, handler[h].c, provider) /\ ~Success(e.st)
    BY <1>2, <1>3
  <1>8. handler[h].op = "externo" => \E e \in Payload :
                 /\ e = [EventOver("Externo", i, "Success") EXCEPT !.ext = true]
                 /\ Over(e, handler[h].c, provider)
    BY <1>2, <1>6
  <1> QED
    BY <1>4, <1>5, <1>7, <1>8 DEF true
Quiet == UNCHANGED <<provider, log, table, obligations, webhooks, shared, cursor, ops, rewound>>

(* A request records what follows from an answer.                           *)
LEMMA RecordsOver ==
    ASSUME CobrancaAssumption, IInv, NEW h \in Handlers, handler[h].pc \in {"ask", "note"},
           NEW todo \in Seq(Payload), NEW next \in {"idle", "confirm", "guard", "cancelopen"},
           Go(h, todo, next),
           \A k \in DOMAIN todo : /\ Over(todo[k], handler[h].c, provider)
                                  /\ Success(todo[k].st) => next = "confirm",
           next \in {"guard", "cancelopen"} => handler[h].op \in {"anular", "reativar"},
           Quiet, failed \subseteq failed', failed' \subseteq Kinds
    PROVE  IInv'
  <1>1. handler[h].c \in Charges
    BY AskFacts
  <1>2. \A k \in DOMAIN todo :
              /\ EventOK(todo[k], log, provider) /\ SameMonth(todo[k], log)
              /\ todo[k].c \in {handler[h].c, None}
              /\ OfCharge(todo[k]) => /\ todo[k].seen # 0
                                      /\ Success(todo[k].st) => next = "confirm"
    BY DEF Over
  <1>3. handler[h].pc \notin {"idle", "save", "apply", "confirm"}
    OBVIOUS
  <1> QED
    BY <1>1, <1>2, <1>3, GoInv DEF Quiet

(* One event, or two.                                                       *)
LEMMA RecordsOne ==
    ASSUME CobrancaAssumption, IInv, NEW h \in Handlers, handler[h].pc \in {"ask", "note"},
           NEW e \in Payload, Over(e, handler[h].c, provider),
           NEW next \in {"idle", "confirm", "guard", "cancelopen"}, Go(h, <<e>>, next),
           Success(e.st) => next = "confirm",
           next \in {"guard", "cancelopen"} => handler[h].op \in {"anular", "reativar"},
           Quiet, failed \subseteq failed', failed' \subseteq Kinds
    PROVE  IInv'
  <1>1. <<e>> \in Seq(Payload)
    OBVIOUS
  <1>2. DOMAIN <<e>> = {1} /\ <<e>>[1] = e
    OBVIOUS
  <1>3. PICK todo \in Seq(Payload) : todo = <<e>> /\ DOMAIN todo = {1} /\ todo[1] = e
    BY <1>1, <1>2
  <1>4. \A k \in DOMAIN todo : /\ Over(todo[k], handler[h].c, provider)
                               /\ Success(todo[k].st) => next = "confirm"
    BY <1>3
  <1>5. Go(h, todo, next)
    BY <1>3
  <1> QED
    BY <1>4, <1>5, RecordsOver

(* A request goes on to record two events, neither of them a payment.       *)
LEMMA RecordsTwo ==
    ASSUME CobrancaAssumption, IInv, NEW h \in Handlers, handler[h].pc \in {"ask", "note"},
           NEW e \in Payload, Over(e, handler[h].c, provider), ~Success(e.st),
           NEW f \in Payload, Over(f, handler[h].c, provider), ~Success(f.st),
           NEW todo \in Seq(Payload), DOMAIN todo = {1, 2}, todo[1] = e, todo[2] = f,
           NEW next \in {"idle", "cancelopen"}, Go(h, todo, next),
           next = "cancelopen" => handler[h].op \in {"anular", "reativar"},
           Quiet, failed \subseteq failed', failed' \subseteq Kinds
    PROVE  IInv'
  <1>1. \A k \in DOMAIN todo : /\ Over(todo[k], handler[h].c, provider)
                               /\ Success(todo[k].st) => next = "confirm"
    OBVIOUS
  <1> QED
    BY <1>1, RecordsOver

(* Nothing to record.                                                       *)
LEMMA RecordsNone ==
    ASSUME CobrancaAssumption, IInv, NEW h \in Handlers, handler[h].pc \in {"ask", "note"},
           NEW next \in {"idle", "confirm", "guard", "cancelopen"}, Go(h, <<>>, next),
           next \in {"guard", "cancelopen"} => handler[h].op \in {"anular", "reativar"},
           Quiet, failed \subseteq failed', failed' \subseteq Kinds
    PROVE  IInv'
  <1>1. PICK todo \in Seq(Payload) : todo = <<>>
    <2>1. <<>> \in Seq(Payload)
      OBVIOUS
    <2> QED
      BY <2>1
  <1>2. Go(h, todo, next)
    BY <1>1
  <1>3. \A k \in DOMAIN todo : /\ Over(todo[k], handler[h].c, provider)
                               /\ Success(todo[k].st) => next = "confirm"
    BY <1>1
  <1> QED
    BY <1>2, <1>3, RecordsOver

(* A consultation.                                                          *)
LEMMA ConsultedInv ==
    ASSUME CobrancaAssumption, IInv, NEW h \in Handlers, handler[h].pc \in {"ask", "note"},
           NEW st \in Estados, Success(st) => provider[handler[h].c] = "Success",
           Consulted(h, st), Quiet, failed \subseteq failed', failed' \subseteq Kinds
    PROVE  IInv'
  <1>1. PICK i : i = handler[h].seen
    OBVIOUS
  <1>2. PICK todo \in consultCharge(i, st) : Go(h, todo, AfterConsult(i, st))
    BY <1>1 DEF Consulted
  <1>3. CASE log[i].st = "cancelada" /\ Success(st)
    <2>1. PICK e \in Payload :
                 /\ e = [EventOver("Conflito", i, "cancelada") EXCEPT !.pago = TRUE]
                 /\ Over(e, handler[h].c, provider) /\ ~Success(e.st)
      BY <1>1, <1>3, AnswerEvents
    <2>2. todo = <<e>> /\ AfterConsult(i, st) = "idle"
      BY <1>2, <1>3, <2>1 DEF consultCharge, AfterConsult
    <2>3. Go(h, <<e>>, "idle")
      BY <1>2, <2>2
    <2> QED
      BY <2>1, <2>3, RecordsOne
  <1>4. CASE ~(log[i].st = "cancelada" /\ Success(st))
    <2>1. PICK e \in Payload : /\ e = EventOver("Consultada", i, st)
                               /\ Over(e, handler[h].c, provider) /\ e.st = st
      BY <1>1, <1>4, AnswerEvents
    <2>2. todo = <<e>> \/ todo = <<>>
      BY <1>2, <1>4, <2>1 DEF consultCharge
    <2>3. PICK next \in {"idle", "confirm"} : /\ next = AfterConsult(i, st)
                                              /\ Success(st) => next = "confirm"
      BY <1>4 DEF AfterConsult
    <2>4. CASE todo = <<e>>
      BY <1>2, <2>1, <2>3, <2>4, RecordsOne
    <2>5. CASE todo = <<>>
      BY <1>2, <2>3, <2>5, RecordsNone
    <2> QED
      BY <2>2, <2>4, <2>5
  <1> QED
    BY <1>3, <1>4

(* A cancellation, of a charge that has not been paid.                      *)
LEMMA CancelledInv ==
    ASSUME CobrancaAssumption, IInv, NEW h \in Handlers, handler[h].pc \in {"ask", "note"},
           NEW st \in Estados, ~Success(st),
           Cancelled(h, st), Quiet, failed \subseteq failed', failed' \subseteq Kinds
    PROVE  IInv'
  <1>1. PICK i : i = handler[h].seen
    OBVIOUS
  <1>2. PICK next \in {"idle", "cancelopen"} :
           /\ next = IF handler[h].op = "anular" THEN "cancelopen" ELSE "idle"
           /\ next = "cancelopen" => handler[h].op \in {"anular", "reativar"}
    OBVIOUS
  <1>3. PICK todo \in consultCharge(i, st) :
           Go(h, Append(todo, EventOver("Cancelada", i, "cancelada")), next)
    BY <1>1, <1>2 DEF Cancelled
  <1>4. PICK e \in Payload : /\ e = EventOver("Consultada", i, st)
                             /\ Over(e, handler[h].c, provider) /\ e.st = st
    BY <1>1, AnswerEvents
  <1>5. PICK f \in Payload : /\ f = EventOver("Cancelada", i, "cancelada")
                             /\ Over(f, handler[h].c, provider) /\ ~Success(f.st)
    BY <1>1, AnswerEvents
  <1>6. todo = <<e>> \/ todo = <<>>
    BY <1>3, <1>4 DEF consultCharge
  <1>7. Append(<<>>, f) = <<f>>
    OBVIOUS
  <1>8. CASE todo = <<e>>
    <2>1. <<e>> \in Seq(Payload)
      OBVIOUS
    <2>2. PICK t \in Seq(Payload) : t = <<e>>
      BY <2>1
    <2>3. /\ Append(t, f) \in Seq(Payload) /\ DOMAIN Append(t, f) = {1, 2}
          /\ Append(t, f)[1] = e /\ Append(t, f)[2] = f
      <3>1. Append(t, f) \in Seq(Payload) /\ Len(Append(t, f)) = 2
        BY <2>2
      <3>2. DOMAIN Append(t, f) = {1, 2}
        BY <3>1
      <3> QED
        BY <2>2, <3>1, <3>2
    <2>4. Go(h, Append(t, f), next)
      BY <1>3, <1>5, <1>8, <2>2
    <2> QED
      BY <1>2, <1>4, <1>5, <2>3, <2>4, RecordsTwo
  <1>9. CASE todo = <<>>
    <2>1. Go(h, <<f>>, next)
      BY <1>3, <1>5, <1>7, <1>9
    <2> QED
      BY <1>2, <1>5, <2>1, RecordsOne
  <1> QED
    BY <1>6, <1>8, <1>9

(* What a webhook tells of.                                                 *)
LEMMA NotifiedInv ==
    ASSUME CobrancaAssumption, IInv, NEW h \in Handlers, handler[h].pc \in {"ask", "note"},
           NEW st \in Estados, Success(st) => provider[handler[h].c] = "Success",
           Notified(h, st), Quiet, failed \subseteq failed', failed' \subseteq Kinds
    PROVE  IInv'
  <1>1. PICK i : i = handler[h].seen
    OBVIOUS
  <1>2. CASE log[i].st = "cancelada" /\ Success(st)
    <2>1. PICK e \in Payload :
                 /\ e = [EventOver("Conflito", i, "cancelada") EXCEPT !.pago = TRUE]
                 /\ Over(e, handler[h].c, provider) /\ ~Success(e.st)
      BY <1>1, <1>2, AnswerEvents
    <2>2. Go(h, <<e>>, "idle")
      BY <1>1, <1>2, <2>1 DEF Notified
    <2> QED
      BY <2>1, <2>2, RecordsOne
  <1>3. CASE ~(log[i].st = "cancelada" /\ Success(st))
    <2>1. PICK e \in Payload : /\ e = EventOver("Consultada", i, st)
                               /\ Over(e, handler[h].c, provider) /\ e.st = st
      BY <1>1, <1>3, AnswerEvents
    <2>2. PICK next \in {"idle", "confirm"} :
             /\ next = IF Success(st) THEN "confirm" ELSE "idle"
             /\ Success(st) => next = "confirm"
      OBVIOUS
    <2>3. Go(h, <<e>>, next)
      BY <1>1, <1>3, <2>1, <2>2 DEF Notified
    <2> QED
      BY <2>1, <2>2, <2>3, RecordsOne
  <1> QED
    BY <1>2, <1>3

(* A payment outside the platform.                                          *)
LEMMA PaidOutsideInv ==
    ASSUME CobrancaAssumption, IInv, NEW h \in Handlers, handler[h].pc \in {"ask", "note"},
           handler[h].op = "externo",
           PaidOutside(h), Quiet, failed \subseteq failed', failed' \subseteq Kinds
    PROVE  IInv'
  <1>1. PICK i : i = handler[h].seen
    OBVIOUS
  <1>2. "aguardando" \in Estados /\ ~Success("aguardando")
    BY DEF Estados, Success, isSuccessfulChargeStatus
  <1>3. PICK e \in Payload :
                 /\ e = [EventOver("Externo", i, "Success") EXCEPT !.ext = TRUE]
                 /\ Over(e, handler[h].c, provider)
    BY <1>1, <1>2, AnswerEvents
  <1>4. Go(h, <<e>>, "confirm")
    BY <1>1, <1>3 DEF PaidOutside
  <1> QED
    BY <1>3, <1>4, RecordsOne

(* Any answer.                                                              *)
LEMMA AnsweredInv ==
    ASSUME CobrancaAssumption, IInv, NEW h \in Handlers, handler[h].pc = "ask",
           NEW st \in Estados, Success(st) => provider[handler[h].c] = "Success",
           Answered(h, st), Quiet, failed \subseteq failed', failed' \subseteq Kinds
    PROVE  IInv'
  <1>1. \/ Notified(h, st) \/ Consulted(h, st)
        \/ handler[h].op = "externo" /\ PaidOutside(h)
        \/ handler[h].next = "guard" /\ Go(h, <<>>, "guard")
        \/ ~Success(st) /\ Cancelled(h, st)
    BY DEF Answered
  <1>2. CASE Notified(h, st)
    BY <1>2, NotifiedInv
  <1>3. CASE Consulted(h, st)
    BY <1>3, ConsultedInv
  <1>4. CASE handler[h].op = "externo" /\ PaidOutside(h)
    BY <1>4, PaidOutsideInv
  <1>5. CASE handler[h].next = "guard" /\ Go(h, <<>>, "guard")
    BY <1>5, AskFacts, RecordsNone
  <1>6. CASE ~Success(st) /\ Cancelled(h, st)
    BY <1>6, CancelledInv
  <1> QED
    BY <1>1, <1>2, <1>3, <1>4, <1>5, <1>6

(* The statuses of the provider as they are recorded.                       *)
LEMMA NormalizeFacts ==
    ASSUME NEW raw \in {"Pending", "Success", "Expired"}
    PROVE  /\ normalizeChargeStatus(raw) \in Estados
           /\ Success(normalizeChargeStatus(raw)) => raw = "Success"
  BY DEF normalizeChargeStatus, Estados, Success, isSuccessfulChargeStatus

(* What was known before an answer without a status.                        *)
LEMMA KnownFacts ==
    ASSUME IInv, NEW h \in Handlers, handler[h].pc = "ask"
    PROVE  /\ Known(h) \in Estados
           /\ Success(Known(h)) => provider[handler[h].c] = "Success"
  <1>1. CASE handler[h].op = "webhook"
    <2>1. handler[h].msg \in {"Pending", "Success", "Expired"}
          /\ (handler[h].msg = "Success" => provider[handler[h].c] = "Success")
      BY <1>1, AskFacts DEF Msgs
    <2> QED
      BY <1>1, <2>1, NormalizeFacts DEF Known
  <1>2. CASE handler[h].op # "webhook"
    <2> DEFINE i == handler[h].seen
    <2>1. /\ i \in DOMAIN log /\ OfCharge(log[i]) /\ log[i].c = handler[h].c
          /\ ~cobrancaPagaExternamente(log[i])
      BY AskFacts
    <2>2. Known(h) = log[i].st
      BY <1>2 DEF Known
    <2>3. EventOK(log[i], log, provider)
      BY <2>1 DEF IInv, LogOK
    <2> HIDE DEF i
    <2>4. log[i].st \in Estados
      BY <2>3 DEF EventOK, Payload
    <2>5. Success(log[i].st) => provider[handler[h].c] = "Success"
      BY <2>1, <2>3 DEF EventOK, cobrancaPagaExternamente, Success
    <2> QED
      BY <2>2, <2>4, <2>5
  <1> QED
    BY <1>1, <1>2

(* The provider is asked.                                                   *)
LEMMA AskInv ==
    ASSUME CobrancaAssumption, IInv, NEW h \in Handlers, Ask(h) PROVE IInv'
  <1>0. handler[h].pc = "ask" /\ Quiet
    BY DEF Ask, Step, Quiet, readModel
  <1>1. failed' = failed \/ Fails("http")
    BY DEF Ask, Works
  <1>2. failed \subseteq failed' /\ failed' \subseteq Kinds
    BY <1>1 DEF Fails, Kinds, IInv, RowsOK
  <1>3. CASE Set(h, Idle)
    BY <1>0, <1>2, <1>3, EndsInv DEF Quiet
  <1>4. CASE Answered(h, Known(h))
    BY <1>0, <1>2, <1>4, KnownFacts, AnsweredInv
  <1>5. CASE /\ provider[handler[h].c] # "none"
             /\ Answered(h, normalizeChargeStatus(provider[handler[h].c]))
    <2>1. provider[handler[h].c] \in {"Pending", "Success", "Expired"}
      BY <1>0, <1>5, AskFacts DEF IInv, ProviderOK
    <2>2. normalizeChargeStatus(provider[handler[h].c]) \in Estados
          /\ (Success(normalizeChargeStatus(provider[handler[h].c])) =>
                 provider[handler[h].c] = "Success")
      BY <2>1, NormalizeFacts
    <2> QED
      BY <1>0, <1>2, <1>5, <2>2, AnsweredInv
  <1> QED
    BY <1>3, <1>4, <1>5 DEF Ask

(* A notification is noted as it came.                                      *)
LEMMA NoteInv ==
    ASSUME CobrancaAssumption, IInv, NEW h \in Handlers, NoteWebhook(h) PROVE IInv'
  <1>0. handler[h].pc = "note" /\ Quiet /\ Notified(h, normalizeChargeStatus(handler[h].msg))
        /\ failed' = failed
    BY DEF NoteWebhook, Step, Quiet, readModel
  <1>1. handler[h].msg \in {"Pending", "Success", "Expired"}
        /\ (handler[h].msg = "Success" => provider[handler[h].c] = "Success")
    BY <1>0, AskFacts DEF Msgs
  <1>2. failed \subseteq failed' /\ failed' \subseteq Kinds
    BY <1>0 DEF IInv, RowsOK
  <1>3. /\ normalizeChargeStatus(handler[h].msg) \in Estados
        /\ Success(normalizeChargeStatus(handler[h].msg)) => handler[h].msg = "Success"
    BY <1>1, NormalizeFacts
  <1> QED
    BY <1>0, <1>1, <1>2, <1>3, NotifiedInv

(* The request that created the charge.                                     *)
LEMMA CreatingFacts ==
    ASSUME IInv, NEW h \in Handlers, handler[h].pc = "provider"
    PROVE  /\ handler[h].c \in Charges /\ provider[handler[h].c] = "none"
           /\ At(handler[h], "provider") /\ Logged(handler[h].c, log)
           /\ \A tipo, st : \E i \in DOMAIN log :
                 /\ Created(handler[h].c, st) = EventOver("Criada", i, st)
                 /\ log[i].c = handler[h].c /\ OfCharge(log[i]) /\ log[i].st = "aguardando"
  <1>1. HandlerOK(handler[h], log, table, provider) /\ At(handler[h], "provider")
    BY DEF IInv, HandlersOK, At
  <1>2. \E k \in DOMAIN log : log[k].c = handler[h].c /\ log[k].tipo = "Solicitada"
    BY <1>1 DEF HandlerOK
  <1> DEFINE i == CHOOSE k \in DOMAIN log : log[k].c = handler[h].c /\ log[k].tipo = "Solicitada"
  <1>3. i \in DOMAIN log /\ log[i].c = handler[h].c /\ log[i].tipo = "Solicitada"
    BY <1>2
  <1>4. \A st : Created(handler[h].c, st) = EventOver("Criada", i, st)
    BY DEF Created
  <1> HIDE DEF i
  <1>5. OfCharge(log[i]) /\ log[i].st = "aguardando"
    BY <1>3 DEF IInv, LogOK, EventOK, OfCharge, DaCobranca
  <1> QED
    BY <1>1, <1>2, <1>3, <1>4, <1>5 DEF HandlerOK, Logged

(* The provider has a new charge; the event that says so is to be recorded. *)
LEMMA CreatedInv ==
    ASSUME CobrancaAssumption, IInv, NEW h \in Handlers, handler[h].pc = "provider",
           NEW v \in {"none", "Pending", "Success", "Expired"},
           provider' = [provider EXCEPT ![handler[h].c] = v],
           NEW i \in DOMAIN log, log[i].c = handler[h].c, OfCharge(log[i]),
           log[i].st = "aguardando",
           NEW e \in Payload, e.tipo \in DaCobranca \ {"Solicitada"}, e.seen = i,
           e.c = log[i].c, e.mes = log[i].mes, Success(e.st) => v = "Success",
           NEW next \in {"idle", "confirm"}, Success(e.st) => next = "confirm",
           Go(h, <<e>>, next),
           UNCHANGED <<log, table, obligations, webhooks, shared, cursor, ops, rewound>>,
           failed \subseteq failed', failed' \subseteq Kinds
    PROVE  IInv'
  <1> DEFINE c == handler[h].c
  <1>0. c \in Charges /\ provider[c] = "none" /\ At(handler[h], "provider") /\ Logged(c, log)
    BY CreatingFacts
  <1>1. /\ provider \in [Charges -> {"none", "Pending", "Success", "Expired"}]
        /\ provider' \in [Charges -> {"none", "Pending", "Success", "Expired"}]
        /\ provider'[c] = v
        /\ \A d \in Charges \ {c} : provider'[d] = provider[d]
    BY <1>0 DEF IInv, ProviderOK
  <1>2. \A d \in Charges : /\ provider[d] = "Success" => provider'[d] = "Success"
                           /\ provider[d] # "none" => provider'[d] # "none"
                           /\ provider'[d] # provider[d] /\ provider[d] = "none" =>
                                 At(handler[h], "provider") /\ c = d /\ Logged(d, log)
    BY <1>0, <1>1
  <1>3. Stands(log[i], e)
    BY DEF Stands, cobrancaPagaExternamente, isSuccessfulChargeStatus
  <1>4. Success(e.st) => e.ext \/ provider'[e.c] = "Success"
    BY <1>1
  <1>5. Over(e, c, provider')
    <2> HIDE DEF c
    <2>1. PICK P : P = provider'
      OBVIOUS
    <2>2. Over(e, log[i].c, P)
      BY <1>3, <1>4, <2>1, OverOK
    <2> QED
      BY <2>1, <2>2 DEF c
  <1>6. <<e>> \in Seq(Payload)
    OBVIOUS
  <1>7. DOMAIN <<e>> = {1} /\ <<e>>[1] = e
    OBVIOUS
  <1>8. PICK todo \in Seq(Payload) : todo = <<e>> /\ DOMAIN todo = {1} /\ todo[1] = e
    BY <1>6, <1>7
  <1>9. PICK s \in Handling :
              /\ handler' = [handler EXCEPT ![h] = s]
              /\ HandlerOK(s, log, table, provider') /\ ~Begins(s) /\ ~At(s, "provider")
              /\ s.c = handler[h].c
    <2>1. PICK P : P = provider'
      OBVIOUS
    <2>2. \A d \in Charges : /\ provider[d] = "Success" => P[d] = "Success"
                             /\ provider[d] # "none" => P[d] # "none"
      BY <1>2, <2>1
    <2>3. \A k \in DOMAIN todo :
              /\ EventOK(todo[k], log, P) /\ SameMonth(todo[k], log)
              /\ todo[k].c \in {handler[h].c, None}
              /\ OfCharge(todo[k]) => /\ todo[k].seen # 0
                                      /\ Success(todo[k].st) => next = "confirm"
      BY <1>5, <1>8, <2>1 DEF Over
    <2>4. Go(h, todo, next) /\ handler[h].pc \notin {"idle", "save", "apply"}
      BY <1>8
    <2>5. handler[h].c \in Charges /\ next \in {"idle", "confirm", "guard", "cancelopen"}
          /\ next \notin {"guard", "cancelopen"}
      BY <1>0
    <2>6. \E s \in Handling :
              /\ handler' = [handler EXCEPT ![h] = s]
              /\ HandlerOK(s, log, table, P) /\ ~Begins(s) /\ ~At(s, "provider")
              /\ s.c = handler[h].c /\ s.todo = todo /\ (todo # <<>> => s.pc = "save")
      BY <2>2, <2>3, <2>4, <2>5, GoOK
    <2> QED
      BY <2>1, <2>6
  <1>10. ops' \in Nat /\ ops' <= MaxOps /\ webhooks' \subseteq Charges
         /\ shared' \in Charges \cup {None}
    BY DEF IInv, RowsOK
  <1>11. handler[h].pc \notin {"save", "apply", "confirm"}
    OBVIOUS
  <1> QED
    BY <1>1, <1>2, <1>9, <1>10, <1>11, QuietStep

(* The provider is asked for a charge.                                      *)
LEMMA CreateInv ==
    ASSUME CobrancaAssumption, IInv, NEW h \in Handlers, CreateCharge(h) PROVE IInv'
  <1>0. /\ handler[h].pc = "provider"
        /\ UNCHANGED <<log, table, obligations, webhooks, shared, cursor, ops, rewound>>
    BY DEF CreateCharge, Step, readModel
  <1>1. {"Criada", "Falhou"} \subseteq DaCobranca \ {"Solicitada"} /\ "Failed" \in Estados
        /\ ~Success("Failed")
    BY DEF DaCobranca, Estados, Success, isSuccessfulChargeStatus
  <1>2. ASSUME NEW metodo \in {"GPO", "REF"}, NEW claim \in {"Pending", "Success", "Expired"},
               provider' = [provider EXCEPT ![handler[h].c] =
                              IF metodo = "REF" /\ claim = "Success" THEN "Pending" ELSE claim],
               Go(h, <<Created(handler[h].c, statusNaCriacao(metodo, claim))>>,
                  IF isSuccessfulChargeStatus(statusNaCriacao(metodo, claim))
                  THEN "confirm" ELSE "idle"),
               Works
        PROVE  IInv'
    <2>1. PICK st \in Estados : /\ st = statusNaCriacao(metodo, claim)
                                /\ Success(st) => claim = "Success" /\ metodo # "REF"
      BY DEF statusNaCriacao, normalizeChargeStatus, Estados, Success, isSuccessfulChargeStatus
    <2>2. PICK i \in DOMAIN log :
             /\ Created(handler[h].c, st) = EventOver("Criada", i, st)
             /\ log[i].c = handler[h].c /\ OfCharge(log[i]) /\ log[i].st = "aguardando"
      BY <1>0, CreatingFacts
    <2>3. PICK e \in Payload :
              /\ e = EventOver("Criada", i, st) /\ e.tipo = "Criada" /\ e.st = st /\ e.seen = i
              /\ e.c = log[i].c /\ e.mes = log[i].mes
      BY <1>1, OverFacts DEF IInv
    <2>4. PICK v \in {"none", "Pending", "Success", "Expired"} :
              /\ provider' = [provider EXCEPT ![handler[h].c] = v]
              /\ Success(st) => v = "Success"
      BY <1>2, <2>1
    <2>5. PICK next \in {"idle", "confirm"} : /\ Go(h, <<e>>, next)
                                              /\ Success(st) => next = "confirm"
      BY <1>2, <2>1, <2>2, <2>3 DEF Success
    <2>6. failed \subseteq failed' /\ failed' \subseteq Kinds
      BY <1>2 DEF Works, IInv, RowsOK
    <2> QED
      BY <1>0, <1>1, <2>2, <2>3, <2>4, <2>5, <2>6, CreatedInv
  <1>3. ASSUME NEW raw \in {"none", "Pending"},
               provider' = [provider EXCEPT ![handler[h].c] = raw],
               Go(h, <<[Created(handler[h].c, "Failed") EXCEPT !.tipo = "Falhou"]>>, "idle"),
               Fails("http")
        PROVE  IInv'
    <2>2. PICK i \in DOMAIN log :
             /\ Created(handler[h].c, "Failed") = EventOver("Criada", i, "Failed")
             /\ log[i].c = handler[h].c /\ OfCharge(log[i]) /\ log[i].st = "aguardando"
      BY <1>0, CreatingFacts
    <2>3. PICK r \in Payload :
              /\ r = EventOver("Criada", i, "Failed") /\ r.st = "Failed" /\ r.seen = i
              /\ r.c = log[i].c /\ r.mes = log[i].mes
      BY <1>1, OverFacts DEF IInv
    <2>4. PICK e \in Payload :
              /\ e = [r EXCEPT !.tipo = "Falhou"] /\ e.tipo = "Falhou" /\ e.st = "Failed"
              /\ e.seen = i /\ e.c = log[i].c /\ e.mes = log[i].mes
      BY <1>1, <2>3, WithEvent
    <2>5. Go(h, <<e>>, "idle") /\ ~Success(e.st)
      BY <1>1, <1>3, <2>2, <2>3, <2>4
    <2>6. failed \subseteq failed' /\ failed' \subseteq Kinds
      BY <1>3 DEF Fails, Kinds, IInv, RowsOK
    <2> QED
      BY <1>0, <1>1, <1>3, <2>2, <2>4, <2>5, <2>6, CreatedInv
  <1> QED
    BY <1>2, <1>3 DEF CreateCharge

(* The provider is asked for a QR code: the payer has not paid yet.         *)
LEMMA CreateQRInv ==
    ASSUME CobrancaAssumption, IInv, NEW h \in Handlers, CreateGPOQRCode(h) PROVE IInv'
  <1>0. /\ handler[h].pc = "provider"
        /\ UNCHANGED <<log, table, obligations, webhooks, shared, cursor, ops, rewound>>
        /\ provider' = [provider EXCEPT ![handler[h].c] = "Pending"]
        /\ Go(h, <<Created(handler[h].c, "aguardando")>>, "idle") /\ failed' = failed
    BY DEF CreateGPOQRCode, Step, readModel, Works
  <1>1. "Criada" \in DaCobranca \ {"Solicitada"} /\ "aguardando" \in Estados
        /\ ~Success("aguardando")
    BY DEF DaCobranca, Estados, Success, isSuccessfulChargeStatus
  <1>2. PICK i \in DOMAIN log :
           /\ Created(handler[h].c, "aguardando") = EventOver("Criada", i, "aguardando")
           /\ log[i].c = handler[h].c /\ OfCharge(log[i]) /\ log[i].st = "aguardando"
    BY <1>0, CreatingFacts
  <1>3. PICK e \in Payload :
            /\ e = EventOver("Criada", i, "aguardando") /\ e.tipo = "Criada"
            /\ e.st = "aguardando" /\ e.seen = i /\ e.c = log[i].c /\ e.mes = log[i].mes
    BY <1>1, OverFacts DEF IInv
  <1>4. Go(h, <<e>>, "idle") /\ ~Success(e.st)
    BY <1>0, <1>1, <1>2, <1>3
  <1>5. failed \subseteq failed' /\ failed' \subseteq Kinds
    BY <1>0 DEF IInv, RowsOK
  <1> QED
    BY <1>0, <1>1, <1>2, <1>3, <1>4, <1>5, CreatedInv
-----------------------------------------------------------------------------
(* The event of a request is shown in the read model.                       *)

\* Where the latest event of a stream is.
LastOf(j, e) ==
    /\ j \in DOMAIN log /\ Stream(log[j]) = Stream(e) /\ log[j].c = e.c
    /\ \A i \in DOMAIN log : Stream(log[i]) = Stream(e) /\ log[i].c = e.c => i <= j

(* The stream of a charge has its events and its confirmation.              *)
LEMMA StreamFacts ==
    ASSUME CobrancaAssumption, IInv
    PROVE  /\ \A e : OfCharge(e) => Stream(e) = e.c
           /\ \A j \in DOMAIN log, e \in Payload :
                 LastOf(j, e) /\ OfCharge(e) /\ e.c \in Charges =>
                    OfCharge(log[j]) \/ (log[j].tipo = "Confirmada" /\ log[j].c = e.c)
  <1>1. \A e : OfCharge(e) => Stream(e) = e.c
    BY DEF OfCharge, DaCobranca, Stream
  <1>2. ASSUME NEW j \in DOMAIN log, NEW e \in Payload, LastOf(j, e), OfCharge(e), e.c \in Charges
        PROVE  OfCharge(log[j]) \/ (log[j].tipo = "Confirmada" /\ log[j].c = e.c)
    <2>1. Stream(log[j]) = e.c /\ log[j].c = e.c
      BY <1>1, <1>2 DEF LastOf
    <2>2. e.c # "academia" /\ e.c # "webhook"
      BY <1>2, CobrancaAssumption
    <2>3. log[j].tipo \notin {"Anulada", "Reativada", "Webhook"}
      BY <2>1, <2>2 DEF Stream
    <2>4. log[j].tipo \in DaCobranca \cup DaObrigacao \cup {"Webhook"}
      <3>1. log[j] \in Payload
        BY DEF IInv
      <3> QED
        BY <3>1 DEF Payload
    <2> QED
      BY <2>1, <2>3, <2>4 DEF OfCharge, DaObrigacao
  <1> QED
    BY <1>1, <1>2

(* The request goes on with the rest of what it has to record.              *)
LEMMA ApplyStep ==
    ASSUME CobrancaAssumption, IInv, NEW h \in Handlers, handler[h].pc = "apply",
           Go(h, Tail(handler[h].todo), handler[h].next), NEW T,
           \A c \in Charges : table[c] # 0 => T[c] # 0
    PROVE  \E t \in Handling :
              /\ handler' = [handler EXCEPT ![h] = t]
              /\ HandlerOK(t, log, T, provider) /\ ~Begins(t)
              /\ \A p \in Nexts : At(t, p) <=> At(handler[h], p)
              /\ t.c = handler[h].c
  <1>0. PICK s \in Handling : s = handler[h]
    BY DEF IInv
  <1>1. /\ HandlerOK(s, log, table, provider) /\ Saving(s) /\ s.todo \in Seq(Payload)
        /\ s.todo # <<>> /\ s.next \in Nexts
    BY <1>0, HeadFacts DEF Saving, IInv, HandlersOK
  <1>2. PICK tail \in Seq(Payload) :
          /\ tail = Tail(s.todo)
          /\ \A k \in DOMAIN tail : k + 1 \in DOMAIN s.todo /\ tail[k] = s.todo[k + 1]
          /\ Len(tail) = Len(s.todo) - 1
    <2>1. Tail(s.todo) \in Seq(Payload) /\ Len(Tail(s.todo)) = Len(s.todo) - 1
      BY <1>1
    <2>2. DOMAIN s.todo = 1..Len(s.todo) /\ Len(s.todo) \in Nat
          /\ DOMAIN Tail(s.todo) = 1..(Len(s.todo) - 1)
      BY <1>1, <2>1
    <2>3. \A k \in 1..(Len(s.todo) - 1) : Tail(s.todo)[k] = s.todo[k + 1]
      BY <1>1
    <2>4. \A k \in DOMAIN Tail(s.todo) :
             k + 1 \in DOMAIN s.todo /\ Tail(s.todo)[k] = s.todo[k + 1]
      BY <2>2, <2>3
    <2> QED
      BY <2>1, <2>4
  <1>3. PICK t \in Handling :
          /\ handler' = [handler EXCEPT ![h] = t]
          /\ Is(t, IF tail = <<>> THEN s.next ELSE "save", s.op, s.c, s.seen, tail, s.next,
                s.left, s.msg)
    <2>1. Go(h, tail, s.next)
      BY <1>0, <1>2
    <2> QED
      BY <1>0, <1>1, <2>1, GoStep DEF Is
  <1>4. /\ t.pc = (IF tail = <<>> THEN s.next ELSE "save") /\ t.op = s.op /\ t.c = s.c
        /\ t.todo = tail /\ t.next = s.next /\ t.left = s.left /\ t.msg = s.msg
    BY <1>3 DEF Is
  <1>5. ASSUME NEW p \in Nexts PROVE (At(t, p) <=> p = s.next) /\ (At(s, p) <=> p = s.next)
    BY <1>0, <1>1, <1>4 DEF At, Saving, Nexts
  <1>6. \A k \in DOMAIN tail : ~(OfCharge(tail[k]) /\ tail[k].seen = 0)
    <2> SUFFICES ASSUME NEW k \in DOMAIN tail, OfCharge(tail[k]), tail[k].seen = 0
                 PROVE  FALSE
      OBVIOUS
    <2>1. TodoOK(s, s.todo[k + 1], log, provider)
      BY <1>1, <1>2 DEF HandlerOK
    <2>2. Len(s.todo) = 1
      BY <1>2, <2>1 DEF TodoOK
    <2>3. Len(tail) = 0 /\ DOMAIN tail = 1..Len(tail)
      BY <1>2, <2>2
    <2> QED
      BY <2>3
  <1>7. ASSUME NEW k \in DOMAIN tail PROVE TodoOK(t, tail[k], log, provider)
    <2>1. TodoOK(s, s.todo[k + 1], log, provider)
      BY <1>1, <1>2 DEF HandlerOK
    <2>2. TodoOK(s, tail[k], log, provider)
      BY <1>2, <2>1
    <2> QED
      BY <1>4, <1>6, <2>2 DEF TodoOK
  <1>8. s.next = "provider" => /\ tail = <<>> /\ t.pc = "provider"
                               /\ \E k \in DOMAIN log : /\ log[k].c = s.c
                                                        /\ log[k].tipo = "Solicitada"
    <2> SUFFICES ASSUME s.next = "provider"
                 PROVE  /\ tail = <<>> /\ t.pc = "provider"
                        /\ \E k \in DOMAIN log : log[k].c = s.c /\ log[k].tipo = "Solicitada"
      OBVIOUS
    <2>1. Len(s.todo) = 1 /\ s.todo[1].tipo = "Solicitada"
      BY <1>1 DEF HandlerOK
    <2>2. tail = <<>>
      BY <1>2, <2>1
    <2>3. PICK k \in DOMAIN log : log[k] = s.todo[1]
      BY <1>0, <1>1 DEF HandlerOK
    <2>4. TodoOK(s, s.todo[1], log, provider)
      BY <1>0, <1>1, HeadFacts
    <2>5. s.todo[1].c = s.c
      BY <2>1, <2>4 DEF TodoOK, OfCharge, DaCobranca
    <2> QED
      BY <1>4, <2>1, <2>2, <2>3, <2>5
  <1>9. HandlerOK(t, log, table, provider)
    <2>1. t.pc \in Nexts \cup {"save"}
      BY <1>1, <1>4
    <2>2. t.pc \notin {"apply", "ask", "note"}
      BY <2>1 DEF Nexts
    <2>3. Saving(t) => t.todo # <<>> /\ \A k \in DOMAIN t.todo : TodoOK(t, t.todo[k], log, provider)
      BY <1>4, <1>7, <1>1 DEF Saving, Nexts
    <2>4. /\ At(t, "confirm") <=> At(s, "confirm")
          /\ At(t, "webhook") <=> At(s, "webhook")
          /\ At(t, "provider") <=> At(s, "provider")
          /\ At(t, "guard") <=> At(s, "guard")
          /\ At(t, "cancelopen") <=> At(s, "cancelopen")
      BY <1>5 DEF Nexts
    <2>5. t.pc = "provider" => s.next = "provider"
      BY <1>4
    <2>6. ~(Saving(t) /\ t.next = "provider")
      BY <1>4, <1>8 DEF Saving
    <2>7. s.pc # "idle"
      BY <1>0
    <2> QED
      BY <1>1, <1>4, <1>8, <2>2, <2>3, <2>4, <2>5, <2>6, <2>7 DEF HandlerOK
  <1>10. HandlerOK(t, log, T, provider)
    BY <1>9, TableGrows
  <1>11. ~Begins(t)
    <2> SUFFICES ASSUME Begins(t) PROVE FALSE
      OBVIOUS
    <2>1. tail # <<>> /\ OfCharge(tail[1]) /\ tail[1].seen = 0
      BY <1>1, <1>4 DEF Begins, Nexts
    <2>2. 1 \in DOMAIN tail
      BY <2>1
    <2> QED
      BY <1>6, <2>1, <2>2
  <1> QED
    BY <1>0, <1>3, <1>4, <1>5, <1>10, <1>11

(* A payment that the table shows has a request that will confirm it.       *)
LEMMA ApplyConfirm ==
    ASSUME CobrancaAssumption, IInv, NEW h \in Handlers, handler[h].pc = "apply",
           NEW j \in DOMAIN log, LastOf(j, handler[h].todo[1]), Handle(j),
           NEW t, handler' = [handler EXCEPT ![h] = t], t \in Handling,
           \A p \in Nexts : At(t, p) <=> At(handler[h], p),
           t.c = handler[h].c, UNCHANGED <<log, failed, rewound>>
    PROVE  ConfirmOK'
  <1> DEFINE e == handler[h].todo[1]
  <1>0. e \in Payload /\ TodoOK(handler[h], e, log, provider)
    BY HeadFacts DEF Saving
  <1>1. /\ handler'[h] = t
        /\ \A g \in Handlers \ {h} : handler'[g] = handler[g]
    BY DEF IInv
  <1> SUFFICES ASSUME failed' = {}, ~rewound', NEW i \in DOMAIN log, Unconfirmed(i)'
               PROVE  /\ i > table'[log[i].c] => \E g \in Handlers : Shows(handler'[g], log[i])
                      /\ i = table'[log[i].c] =>
                            \E g \in Handlers : Confirms(handler'[g], log[i].c)
    BY DEF ConfirmOK
  <1> DEFINE c == log[i].c
  <1>2. failed = {} /\ ~rewound /\ Unconfirmed(i)
    BY DEF Unconfirmed, Confirmed
  <1>3. /\ i > table[c] => \E g \in Handlers : Shows(handler[g], log[i])
        /\ i = table[c] => \E g \in Handlers : Confirms(handler[g], c)
    BY <1>2 DEF IInv, ConfirmOK
  <1>4. OfCharge(log[i]) /\ c \in Charges /\ Stream(log[i]) = c /\ ~Confirmed(c)
        /\ i \in Nat /\ i # 0 /\ j \in Nat
    BY <1>2, StreamFacts DEF IInv, LogOK, EventOK, Unconfirmed
  <1>5. /\ OfCharge(log[j]) => table'[log[j].c] = j
        /\ \A d \in Charges : table'[d] = table[d] \/ (OfCharge(log[j]) /\ d = log[j].c)
        /\ table[c] \in Nat /\ table'[c] \in Nat
    BY <1>4, HandleFacts DEF IInv, RowsOK
  <1>6. OfCharge(log[j]) /\ log[j].c = c =>
           /\ i <= j
           /\ table[c] # 0 => table[c] <= j
    <2> SUFFICES ASSUME OfCharge(log[j]), log[j].c = c
                 PROVE  i <= j /\ (table[c] # 0 => table[c] <= j)
      OBVIOUS
    <2>1. Stream(log[j]) = c
      BY StreamFacts
    <2>2. i <= j
      BY <1>4, <2>1 DEF LastOf
    <2>3. table[c] # 0 => /\ table[c] \in DOMAIN log /\ log[table[c]].c = c
                          /\ Stream(log[table[c]]) = c
      BY <1>4, StreamFacts DEF IInv, RowsOK
    <2> HIDE DEF c
    <2>4. table[c] # 0 => table[c] <= j
      BY <2>1, <2>3 DEF LastOf
    <2> QED
      BY <2>2, <2>4
  <1>7. ASSUME Shows(handler[h], log[i])
        PROVE  OfCharge(log[j]) /\ log[j].c = c /\ i <= table'[c]
    <2>1. e = log[i]
      BY <1>7 DEF Shows
    <2>2. LastOf(j, log[i])
      BY <2>1
    <2>3. log[i] \in Payload
      BY <1>0, <2>1
    <2>4. OfCharge(log[j]) \/ (log[j].tipo = "Confirmada" /\ log[j].c = c)
      BY <1>4, <2>2, <2>3, StreamFacts
    <2>5. log[j].c = c
      BY <2>2 DEF LastOf
    <2>6. OfCharge(log[j])
      BY <1>4, <2>4 DEF Confirmed
    <2> QED
      BY <1>5, <1>6, <2>5, <2>6
  <1>8. ASSUME NEW g \in Handlers, Confirms(handler[g], c) PROVE Confirms(handler'[g], c)
    <2>1. CASE g # h
      BY <1>1, <1>8, <2>1
    <2>2. CASE g = h
      <3>1. At(handler[h], "confirm") /\ handler[h].c = c
        BY <1>8, <2>2 DEF Confirms
      <3>2. At(t, "confirm") /\ t.c = c
        BY <3>1 DEF Nexts
      <3> QED
        BY <1>1, <2>2, <3>2 DEF Confirms
    <2> QED
      BY <2>1, <2>2
  <1>9. ASSUME NEW g \in Handlers, Shows(handler[g], log[i]) PROVE Confirms(handler[g], c)
    <2>1. TodoOK(handler[g], log[i], log, provider)
      BY <1>9, HeadFacts DEF Saving, Shows
    <2>2. handler[g].c = c /\ At(handler[g], "confirm")
      BY <1>4, <1>9, <2>1 DEF TodoOK, Shows, At, Saving
    <2> QED
      BY <2>2 DEF Confirms
  <1> HIDE DEF c, e
  <1>10. ASSUME i > table'[c] PROVE \E g \in Handlers : Shows(handler'[g], log[i])
    <2>1. ~(OfCharge(log[j]) /\ log[j].c = c)
      BY <1>4, <1>5, <1>6, <1>10
    <2>2. table'[c] = table[c]
      BY <1>4, <1>5, <2>1
    <2>3. PICK g \in Handlers : Shows(handler[g], log[i])
      BY <1>3, <1>10, <2>2
    <2>4. g # h
      BY <1>7, <2>1, <2>3
    <2> QED
      BY <1>1, <2>3, <2>4
  <1>11. ASSUME i = table'[c] PROVE \E g \in Handlers : Confirms(handler'[g], c)
    <2>1. i = table[c] \/ i > table[c]
      <3>1. CASE table'[c] = table[c]
        BY <1>11, <3>1
      <3>2. CASE OfCharge(log[j]) /\ c = log[j].c
        <4>1. i = j
          BY <1>5, <1>11, <3>2
        <4>2. table[c] # 0 => table[c] <= i
          BY <1>6, <3>2, <4>1
        <4> QED
          BY <1>4, <1>5, <4>2
      <3> QED
        BY <1>4, <1>5, <3>1, <3>2
    <2>2. PICK g \in Handlers : Confirms(handler[g], c)
      BY <1>3, <1>9, <2>1
    <2> QED
      BY <1>8, <2>2
  <1> QED
    BY <1>10, <1>11 DEF c

(* The latest event of the stream is applied, or the request gives up.      *)
LEMMA ApplyInv ==
    ASSUME CobrancaAssumption, IInv, NEW h \in Handlers, ApplyLatestForAggregate(h) PROVE IInv'
  <1> DEFINE e == handler[h].todo[1]
  <1> DEFINE j == Latest(e)
  <1>0. /\ handler[h].pc = "apply" /\ Saving(handler[h])
        /\ UNCHANGED <<provider, log, cursor, ops, rewound>>
    BY DEF ApplyLatestForAggregate, Saving
  <1>1. /\ e \in Payload /\ TodoOK(handler[h], e, log, provider) /\ Head(handler[h].todo) = e
        /\ handler[h].next \in Nexts
    BY <1>0, HeadFacts
  <1>2. PICK k \in DOMAIN log : log[k] = e
    BY <1>0 DEF IInv, HandlersOK, HandlerOK
  <1>3. LastOf(j, e)
    <2>1. log \in Seq(Payload)
      BY DEF IInv
    <2> HIDE DEF e
    <2> QED
      BY <1>2, <2>1, LatestFacts DEF LastOf
  <1>4. \/ Applicable(j) /\ Handle(j) /\ Go(h, Tail(handler[h].todo), handler[h].next)
             /\ Works /\ UNCHANGED shared
        \/ (IF Applicable(j) THEN Fails("apply") ELSE Works) /\ Abandon(h)
             /\ UNCHANGED <<table, obligations>>
    BY <1>1 DEF ApplyLatestForAggregate
  <1> HIDE DEF j
  <1>5. j \in DOMAIN log
    BY <1>3 DEF LastOf
  <1>6. CASE /\ Applicable(j) /\ Handle(j) /\ Go(h, Tail(handler[h].todo), handler[h].next)
             /\ Works /\ UNCHANGED shared
    <2>1. /\ table' \in [Charges -> Nat]
          /\ \A c \in Charges : table[c] # 0 => table'[c] # 0
          /\ \A c \in Charges : table'[c] # 0 =>
                table'[c] \in DOMAIN log /\ log[table'[c]].c = c /\ OfCharge(log[table'[c]])
          /\ obligations' \subseteq {n \in DOMAIN log : log[n].tipo \in DaObrigacao}
          /\ webhooks' \subseteq Charges
      BY <1>5, <1>6, HandleFacts
    <2>2. PICK t \in Handling :
              /\ handler' = [handler EXCEPT ![h] = t]
              /\ HandlerOK(t, log, table', provider) /\ ~Begins(t)
              /\ \A p \in Nexts : At(t, p) <=> At(handler[h], p)
              /\ t.c = handler[h].c
      <3>1. PICK T : T = table'
        OBVIOUS
      <3>2. \A c \in Charges : table[c] # 0 => T[c] # 0
        BY <2>1, <3>1
      <3>3. \E t \in Handling :
              /\ handler' = [handler EXCEPT ![h] = t]
              /\ HandlerOK(t, log, T, provider) /\ ~Begins(t)
              /\ \A p \in Nexts : At(t, p) <=> At(handler[h], p)
              /\ t.c = handler[h].c
        BY <1>0, <1>6, <3>2, ApplyStep
      <3> QED
        BY <3>1, <3>3
    <2>3. /\ handler' \in [Handlers -> Handling] /\ handler'[h] = t
          /\ \A g \in Handlers \ {h} : handler'[g] = handler[g]
      BY <2>2 DEF IInv
    <2>4. HandlersOK'
      <3>1. ASSUME NEW g \in Handlers \ {h} PROVE HandlerOK(handler[g], log, table', provider)
        BY <2>1, TableGrows DEF IInv, HandlersOK
      <3> QED
        BY <1>0, <2>2, <2>3, <3>1 DEF HandlersOK
    <2>5. BeginsOK'
      BY <1>0, <2>2, <2>3 DEF IInv, BeginsOK
    <2>6. CreatesOK'
      <3>1. \A g \in Handlers : /\ At(handler'[g], "provider") <=> At(handler[g], "provider")
                                /\ handler'[g].c = handler[g].c
        BY <2>2, <2>3 DEF Nexts
      <3> QED
        BY <3>1 DEF IInv, CreatesOK
    <2>7. log' \in Seq(Payload) /\ LogOK(log', provider') /\ ProviderOK'
      BY <1>0 DEF IInv, ProviderOK
    <2>8. RowsOK'
      BY <1>0, <1>6, <2>1 DEF IInv, RowsOK, Works
    <2>9. ConfirmOK'
      <3>1. UNCHANGED <<log, failed, rewound>>
        BY <1>0, <1>6 DEF Works
      <3> QED
        BY <1>0, <1>3, <1>5, <1>6, <2>2, <3>1, ApplyConfirm
    <2> QED
      BY <2>3, <2>4, <2>5, <2>6, <2>7, <2>8, <2>9 DEF IInv
  <1>7. CASE (IF Applicable(j) THEN Fails("apply") ELSE Works) /\ Abandon(h)
             /\ UNCHANGED <<table, obligations>>
    <2>1. failed \subseteq failed' /\ failed' \subseteq Kinds
      BY <1>7 DEF Fails, Works, Kinds, IInv, RowsOK
    <2>2. webhooks' \subseteq webhooks
      BY <1>7 DEF Abandon
    <2>3. ASSUME failed' = {}, NEW i \in DOMAIN log, Unconfirmed(i)
          PROVE  ~Shows(handler[h], log[i]) /\ ~Confirms(handler[h], log[i].c)
      <3> SUFFICES ASSUME Shows(handler[h], log[i]) \/ Confirms(handler[h], log[i].c)
                   PROVE  FALSE
        OBVIOUS
      <3>1. ~Applicable(j)
        BY <1>7, <2>3 DEF Fails
      <3>2. OfCharge(log[j]) /\ ~log[j].mes
        BY <3>1 DEF Applicable, OfCharge
      <3>3. log[j].c = e.c /\ e.c \in Charges
        BY <1>3, <1>5, <3>2 DEF LastOf, IInv, LogOK, EventOK
      <3>4. e.c = handler[h].c
        BY <1>1, <3>3, CobrancaAssumption DEF TodoOK
      <3>5. log[i].c = e.c
        BY <3>4 DEF Shows, Confirms
      <3>6. OfCharge(log[i]) /\ log[i].mes
        BY <2>3 DEF Unconfirmed
      <3>7. SameMonth(log[i], log)
        BY DEF IInv, LogOK
      <3>8. log[j].mes = log[i].mes
        BY <1>5, <3>2, <3>3, <3>5, <3>6, <3>7 DEF SameMonth
      <3> QED
        BY <3>2, <3>6, <3>8
    <2> QED
      BY <1>0, <1>7, <2>1, <2>2, <2>3, AbandonInv
  <1> QED
    BY <1>4, <1>6, <1>7

-----------------------------------------------------------------------------
(* The invariant holds, and with it what it is for.                         *)

(* No request is in progress at the start.                                  *)
LEMMA InitIdle ==
    ASSUME Init
    PROVE  /\ handler \in [Handlers -> Handling] /\ HandlersOK /\ BeginsOK /\ CreatesOK
           /\ obligations = {} /\ webhooks = {} /\ shared = None /\ cursor = 0
           /\ ops = 0 /\ failed = {} /\ rewound = FALSE
  <1>1. /\ obligations = {} /\ webhooks = {} /\ shared = None /\ cursor = 0
        /\ handler = [h \in Handlers |-> Idle] /\ ops = 0 /\ failed = {} /\ rewound = FALSE
    BY DEF Init
  <1>2. /\ \A h \in Handlers : handler[h] = Idle
        /\ Idle \in Handling /\ ~Begins(Idle) /\ ~At(Idle, "provider")
        /\ \A L, T, P : HandlerOK(Idle, L, T, P)
    <2>1. \A L, T, P : HandlerOK(Idle, L, T, P)
      <3> TAKE L, T, P
      <3> QED
        BY IdleOK
    <2>2. HandlerOK(Idle, log, table, provider)
      BY <2>1
    <2>3. Idle \in Handling
      BY <2>2 DEF HandlerOK
    <2>4. ~Begins(Idle) /\ \A pc : At(Idle, pc) => pc = "idle"
      BY IdleOK
    <2>5. ~At(Idle, "provider")
      BY <2>4
    <2>6. \A h \in Handlers : handler[h] = Idle
      BY <1>1
    <2> QED
      BY <2>1, <2>3, <2>4, <2>5, <2>6
  <1>3. handler \in [Handlers -> Handling] /\ HandlersOK /\ BeginsOK /\ CreatesOK
    BY <1>1, <1>2 DEF HandlersOK, BeginsOK, CreatesOK
  <1> QED
    BY <1>1, <1>3

(* A charge of the month that has been requested and created.               *)
LEMMA InitTwo ==
    ASSUME CobrancaAssumption, Init, NEW c \in Charges, NEW mes \in BOOLEAN,
           log = <<NewEvent("Solicitada", c, "aguardando", mes),
                   [NewEvent("Criada", c, "aguardando", mes) EXCEPT !.seen = 1]>>,
           table = [d \in Charges |-> IF d = c THEN 2 ELSE 0],
           provider = [d \in Charges |-> IF d = c THEN "Pending" ELSE "none"]
    PROVE  IInv
  <1>0. /\ {"Solicitada", "Criada"} \subseteq DaCobranca \cup DaObrigacao \cup {"Webhook"}
        /\ c \in Charges \cup {None} /\ "aguardando" \in Estados
    BY DEF DaCobranca, Estados
  <1>1. PICK e \in Payload :
            /\ e = NewEvent("Solicitada", c, "aguardando", mes) /\ e.tipo = "Solicitada"
            /\ e.c = c /\ e.st = "aguardando" /\ e.seen = 0 /\ e.mes = mes /\ ~e.ext
    BY <1>0, NewFacts
  <1>2. PICK f \in Payload :
            /\ f = [NewEvent("Criada", c, "aguardando", mes) EXCEPT !.seen = 1]
            /\ f.tipo = "Criada" /\ f.c = c /\ f.st = "aguardando" /\ f.seen = 1
            /\ f.mes = mes /\ ~f.ext
    <2>1. PICK r \in Payload :
              /\ r = NewEvent("Criada", c, "aguardando", mes) /\ r.tipo = "Criada"
              /\ r.c = c /\ r.st = "aguardando" /\ r.mes = mes /\ ~r.ext
      BY <1>0, NewFacts
    <2> DEFINE g == [r EXCEPT !.seen = 1]
    <2>2. g = [tipo |-> r.tipo, c |-> r.c, st |-> r.st, ext |-> r.ext, pago |-> r.pago,
               mes |-> r.mes, seen |-> 1]
      BY DEF Payload
    <2>3. g \in Payload
      BY <2>2 DEF Payload
    <2>4. g.tipo = r.tipo /\ g.c = r.c /\ g.st = r.st /\ g.seen = 1 /\ g.mes = r.mes
          /\ g.ext = r.ext
      BY <2>2
    <2>5. g = [NewEvent("Criada", c, "aguardando", mes) EXCEPT !.seen = 1]
      BY <2>1
    <2> HIDE DEF g
    <2> QED
      BY <2>1, <2>3, <2>4, <2>5
  <1>3. log = <<e, f>>
    BY <1>1, <1>2
  <1>4. <<e, f>> \in Seq(Payload) /\ Len(<<e, f>>) = 2
    OBVIOUS
  <1>5. DOMAIN <<e, f>> = {1, 2} /\ <<e, f>>[1] = e /\ <<e, f>>[2] = f
    OBVIOUS
  <1>6. log \in Seq(Payload) /\ Len(log) = 2 /\ DOMAIN log = {1, 2} /\ log[1] = e /\ log[2] = f
    BY <1>3, <1>4, <1>5
  <1>7. /\ OfCharge(e) /\ OfCharge(f) /\ ~Success(e.st) /\ ~Success(f.st)
        /\ ~cobrancaPagaExternamente(e)
    BY <1>1, <1>2 DEF OfCharge, DaCobranca, Success, isSuccessfulChargeStatus,
                      cobrancaPagaExternamente
  <1>8. EventOK(e, log, provider)
    BY <1>1, <1>7 DEF EventOK
  <1>9. EventOK(f, log, provider)
    <2>1. Stands(log[1], f)
      BY <1>1, <1>6, <1>7 DEF Stands
    <2>2. f.seen \in DOMAIN log /\ OfCharge(log[f.seen]) /\ log[f.seen].c = f.c
      BY <1>1, <1>2, <1>6, <1>7
    <2> QED
      BY <1>2, <1>7, <2>1, <2>2 DEF EventOK
  <1>10. SameMonth(e, log) /\ SameMonth(f, log)
    <2>1. \A j \in DOMAIN log : log[j].mes = mes
      BY <1>1, <1>2, <1>6
    <2> QED
      BY <1>1, <1>2, <2>1 DEF SameMonth
  <1>11. LogOK(log, provider)
    <2>1. \A i \in DOMAIN log : i = 1 \/ i = 2
      BY <1>6
    <2>2. EventOK(log[1], log, provider) /\ log[1].seen < 1 /\ SameMonth(log[1], log)
      BY <1>1, <1>6, <1>8, <1>10
    <2>3. EventOK(log[2], log, provider) /\ log[2].seen < 2 /\ SameMonth(log[2], log)
      <3>1. log[2].seen = 1
        BY <1>2, <1>6
      <3>2. log[2].seen < 2
        BY <3>1
      <3> QED
        BY <1>6, <1>9, <1>10, <3>2
    <2> QED
      BY <2>1, <2>2, <2>3 DEF LogOK
  <1>12. ConfirmOK
    <2>1. \A i \in DOMAIN log : ~Success(log[i].st)
      BY <1>6, <1>7
    <2> QED
      BY <2>1 DEF ConfirmOK, Unconfirmed
  <1>13. ProviderOK
    <2>1. provider \in [Charges -> {"none", "Pending", "Success", "Expired"}]
      OBVIOUS
    <2>2. \A d \in Charges : provider[d] # "none" => d = c
      OBVIOUS
    <2>3. Logged(c, log)
      BY <1>1, <1>6 DEF Logged
    <2> QED
      BY <2>1, <2>2, <2>3 DEF ProviderOK
  <1>14. RowsOK
    <2>1. table \in [Charges -> Nat]
      OBVIOUS
    <2>2. \A d \in Charges : table[d] # 0 => d = c /\ table[d] = 2
      OBVIOUS
    <2>3. /\ cursor \in Nat /\ cursor <= Len(log) /\ ops \in Nat /\ ops <= MaxOps
          /\ failed \subseteq Kinds /\ rewound \in BOOLEAN
      BY <1>6, InitIdle, CobrancaAssumption DEF CobrancaAssumption
    <2>4. /\ obligations \subseteq {i \in DOMAIN log : log[i].tipo \in DaObrigacao}
          /\ webhooks \subseteq Charges /\ shared \in Charges \cup {None}
      BY InitIdle
    <2>5. \A d \in Charges : table[d] # 0 =>
              table[d] \in DOMAIN log /\ log[table[d]].c = d /\ OfCharge(log[table[d]])
      BY <1>2, <1>6, <1>7, <2>2
    <2> QED
      BY <2>1, <2>3, <2>4, <2>5 DEF RowsOK
  <1> QED
    BY <1>6, <1>11, <1>12, <1>13, <1>14, InitIdle DEF IInv

(* No charge, or one that waits for its payment.                            *)
LEMMA InitInv == ASSUME CobrancaAssumption, Init PROVE IInv
  <1>1. CASE /\ log = <<>> /\ table = [c \in Charges |-> 0]
             /\ provider = [c \in Charges |-> "none"]
    <2>1. log \in Seq(Payload) /\ Len(log) = 0 /\ DOMAIN log = {}
      BY <1>1
    <2>2. LogOK(log, provider) /\ ConfirmOK
      BY <2>1 DEF LogOK, ConfirmOK
    <2>3. ProviderOK
      BY <1>1 DEF ProviderOK
    <2>4. RowsOK
      <3>1. table \in [Charges -> Nat] /\ \A d \in Charges : table[d] = 0
        BY <1>1
      <3>2. /\ obligations \subseteq {i \in DOMAIN log : log[i].tipo \in DaObrigacao}
            /\ webhooks \subseteq Charges /\ shared \in Charges \cup {None}
            /\ failed \subseteq Kinds /\ rewound \in BOOLEAN
        BY InitIdle
      <3>3. cursor \in Nat /\ cursor <= Len(log) /\ ops \in Nat /\ ops <= MaxOps
        BY InitIdle, <2>1, CobrancaAssumption
      <3> QED
        BY <3>1, <3>2, <3>3 DEF RowsOK
    <2> QED
      BY <2>1, <2>2, <2>3, <2>4, InitIdle DEF IInv
  <1>2. ASSUME NEW c \in Charges,
               log = <<NewEvent("Solicitada", c, "aguardando", TRUE),
                       [NewEvent("Criada", c, "aguardando", TRUE) EXCEPT !.seen = 1]>>,
               table = [d \in Charges |-> IF d = c THEN 2 ELSE 0],
               provider = [d \in Charges |-> IF d = c THEN "Pending" ELSE "none"]
        PROVE  IInv
    <2> DEFINE mes == TRUE
    <2>1. mes \in BOOLEAN
      OBVIOUS
    <2>2. log = <<NewEvent("Solicitada", c, "aguardando", mes),
                  [NewEvent("Criada", c, "aguardando", mes) EXCEPT !.seen = 1]>>
      BY <1>2
    <2> HIDE DEF mes
    <2> QED
      BY <1>2, <2>1, <2>2, InitTwo
  <1> QED
    BY <1>1, <1>2 DEF Init

(* Every step.                                                              *)
LEMMA NextInv == ASSUME CobrancaAssumption, IInv, [Next]_vars PROVE IInv'
  <1>1. CASE Project
    BY <1>1, ProjectInv
  <1>2. CASE Crash
    BY <1>2, CrashInv
  <1>3. ASSUME NEW c \in Charges, NEW outcome \in {"Success", "Expired"}, Settle(c, outcome)
        PROVE  IInv'
    BY <1>3, SettleInv
  <1>4. ASSUME NEW h \in Handlers, Request(h) PROVE IInv'
    <2>1. CASE IniciarPagamentoMensalidades(h) \/ reserveCharge(h)
                  \/ RegistrarPagamentoExternoMensalidades(h)
      BY <2>1, StartsInv
    <2>2. ASSUME NEW c \in Charges, ConsultCharge(h, c) \/ CancelCharge(h, c)
                                       \/ RegistrarPagamentoExternoCobranca(h, c)
          PROVE  IInv'
      BY <2>2, StartsOverInv
    <2>3. ASSUME NEW c \in Charges, AcceptWebhook(h, c) PROVE IInv'
      BY <2>3, AcceptInv
    <2>4. ASSUME NEW op \in {"anular", "reativar"}, alterarObrigacoesMensalidade(h, op)
          PROVE  IInv'
      BY <2>4, AlterInv
    <2> QED
      BY <1>4, <2>1, <2>2, <2>3, <2>4 DEF Request
  <1>5. ASSUME NEW h \in Handlers, Continue(h) PROVE IInv'
    <2>1. CASE Save(h)
      BY <2>1, SaveInv
    <2>2. CASE ApplyLatestForAggregate(h)
      BY <2>2, ApplyInv
    <2>3. CASE CreateCharge(h)
      BY <2>3, CreateInv
    <2>4. CASE CreateGPOQRCode(h)
      BY <2>4, CreateQRInv
    <2>5. CASE Ask(h)
      BY <2>5, AskInv
    <2>6. CASE ApplyWebhook(h)
      BY <2>6, ApplyWebhookInv
    <2>7. CASE NoteWebhook(h)
      BY <2>7, NoteInv
    <2>8. CASE garantirCobrancasSemPagamento(h)
      BY <2>8, GuardInv
    <2>9. CASE Guarded(h)
      BY <2>9, GuardedInv
    <2>10. CASE cancelOpenMensalidadeCharges(h)
      BY <2>10, CancelOpenInv
    <2>11. CASE confirmMensalidadeCharge(h)
      BY <2>11, ConfirmInv
    <2> QED
      BY <1>5, <2>1, <2>2, <2>3, <2>4, <2>5, <2>6, <2>7, <2>8, <2>9, <2>10, <2>11 DEF Continue
  <1>6. CASE UNCHANGED vars
    BY <1>6 DEF vars, readModel, IInv, LogOK, HandlersOK, BeginsOK, CreatesOK, ProviderOK,
                RowsOK, ConfirmOK, Unconfirmed, Confirmed
  <1> QED
    BY <1>1, <1>2, <1>3, <1>4, <1>5, <1>6 DEF Next

(* What the invariant says of the events and of the rows.                   *)
LEMMA IInvTypes == ASSUME IInv PROVE TypeOK
  <1>1. \A i \in DOMAIN log :
          /\ log[i].tipo \in DaCobranca \cup DaObrigacao \cup {"Webhook"}
          /\ log[i].c \in Charges \cup {None}
          /\ log[i].st \in Estados /\ log[i].seen \in 0..(i - 1)
    <2> SUFFICES ASSUME NEW i \in DOMAIN log
                 PROVE  /\ log[i].tipo \in DaCobranca \cup DaObrigacao \cup {"Webhook"}
                        /\ log[i].c \in Charges \cup {None}
                        /\ log[i].st \in Estados /\ log[i].seen \in 0..(i - 1)
      OBVIOUS
    <2>1. log[i] \in Payload /\ log[i].seen < i /\ i \in Nat
      BY DEF IInv, LogOK, EventOK
    <2>2. log[i].tipo \in DaCobranca \cup DaObrigacao \cup {"Webhook"}
          /\ log[i].c \in Charges \cup {None} /\ log[i].st \in Estados /\ log[i].seen \in Nat
      BY <2>1 DEF Payload
    <2> QED
      BY <2>1, <2>2
  <1>2. \A c \in Charges : HasRow(c) => table[c] <= Len(log) /\ Row(c).c = c
                                       /\ Row(c).tipo \in DaCobranca
    BY DEF IInv, RowsOK, HasRow, Row, OfCharge
  <1>3. cursor \in 0..Len(log) /\ ops \in 0..MaxOps
    BY DEF IInv, RowsOK
  <1>4. /\ provider \in [Charges -> {"none", "Pending", "Success", "Expired"}]
        /\ obligations \subseteq {i \in DOMAIN log : log[i].tipo \in DaObrigacao}
        /\ webhooks \subseteq Charges /\ shared \in Charges \cup {None}
        /\ failed \subseteq Kinds /\ rewound \in BOOLEAN
    BY DEF IInv, RowsOK, ProviderOK
  <1> QED
    BY <1>1, <1>2, <1>3, <1>4 DEF TypeOK

(* A payment on record was paid, at the provider or outside.                *)
LEMMA IInvPaid == ASSUME IInv PROVE PaidMeansPaid
  BY DEF IInv, LogOK, EventOK, PaidMeansPaid, OfCharge

(* An event agrees with the one its payload was computed from.              *)
LEMMA IInvSeen == ASSUME IInv PROVE SeenDecisionsStand
  <1> SUFFICES ASSUME NEW i \in DOMAIN log, log[i].tipo \in DaCobranca, log[i].seen # 0
               PROVE  /\ cobrancaPagaExternamente(log[log[i].seen]) => Success(log[i].st)
                      /\ log[log[i].seen].st = "cancelada" => ~Success(log[i].st)
    BY DEF SeenDecisionsStand
  <1> QED
    BY DEF IInv, LogOK, EventOK, OfCharge, Stands

(* With no request in progress nothing is left to be confirmed.             *)
LEMMA IInvConfirmed == ASSUME IInv PROVE PaidIsConfirmed
  <1> SUFFICES ASSUME \A h \in Handlers : handler[h].pc = "idle", failed = {}, ~rewound,
                      NEW c \in Charges, HasRow(c), Row(c).mes, Success(Row(c).st)
               PROVE  \E i \in DOMAIN log : log[i].tipo = "Confirmada" /\ log[i].c = c
    BY DEF PaidIsConfirmed
  <1>1. PICK i \in DOMAIN log : i = table[c] /\ log[i].c = c /\ OfCharge(log[i]) /\ log[i] = Row(c)
    BY RowFacts
  <1>2. CASE ~Confirmed(c)
    <2>1. Unconfirmed(i) /\ i = table[log[i].c]
      BY <1>1, <1>2 DEF Unconfirmed
    <2>2. PICK h \in Handlers : Confirms(handler[h], c)
      BY <1>1, <2>1 DEF IInv, ConfirmOK
    <2> QED
      BY <2>2 DEF Confirms, At, Saving
  <1>3. CASE Confirmed(c)
    BY <1>3 DEF Confirmed
  <1> QED
    BY <1>2, <1>3

(* The invariant holds in every state.                                      *)
THEOREM InvariantTheorem == Spec => []IInv
  <1>1. Init => IInv
    BY InitInv, CobrancaAssumption
  <1>2. IInv /\ [Next]_vars => IInv'
    BY NextInv, CobrancaAssumption
  <1> QED
    BY <1>1, <1>2, PTL DEF Spec

(* Every variable has its type, and a row shows an event of its own charge. *)
THEOREM TypesTheorem == Spec => []TypeOK
  <1>1. IInv => TypeOK
    BY IInvTypes
  <1> QED
    BY <1>1, InvariantTheorem, PTL

(* A charge is recorded as paid only if it was paid, at the provider or     *)
(* outside the platform, whatever the requests and notifications overlap.   *)
THEOREM PaidMeansPaidTheorem == Spec => []PaidMeansPaid
  <1>1. IInv => PaidMeansPaid
    BY IInvPaid
  <1> QED
    BY <1>1, InvariantTheorem, PTL

(* A payment outside the platform or a cancellation that a request has seen *)
(* is not undone by what it records.                                        *)
THEOREM SeenDecisionsStandTheorem == Spec => []SeenDecisionsStand
  <1>1. IInv => SeenDecisionsStand
    BY IInvSeen
  <1> QED
    BY <1>1, InvariantTheorem, PTL

(* Once all is quiet, with no failure and no row taken back, a paid charge  *)
(* of the month has confirmed it.                                           *)
THEOREM PaidIsConfirmedTheorem == Spec => []PaidIsConfirmed
  <1>1. IInv => PaidIsConfirmed
    BY IInvConfirmed
  <1> QED
    BY <1>1, InvariantTheorem, PTL
=============================================================================
