------------------------------- MODULE Cobranca -------------------------------
(***************************************************************************)
(* The charges of one monthly fee (internal/finance/servico.go,            *)
(* pagamento_externo.go, the payment part of mensalidade.go, and the read  *)
(* models of internal/projections/financeiro_projection.go).               *)
(*                                                                         *)
(* Every handler reads the row of a charge, asks the payment provider over *)
(* HTTP, and records an event whose payload is computed from the row it    *)
(* read first.  The row is the payload of the event that was applied last, *)
(* by the handler that recorded it or by the projection manager, which     *)
(* walks through all events in their order and may so take a row back.     *)
(***************************************************************************)
EXTENDS Integers, Sequences, FiniteSets, SequencesExt

CONSTANTS
    Charges,     \* ids that uuid.New may give out
    Handlers,    \* requests that may be in progress at the same time
    MaxOps,      \* bound: requests in one behaviour
    MaxKinds     \* bound: kinds of failure in one behaviour

None == "none"

\* Streams are named by the charge or by one of these words; an id is a uuid.
ASSUME CobrancaAssumption ==
    /\ Charges \cap {None, "academia", "webhook"} = {}
    /\ MaxOps \in Nat

Kinds == {"save", "apply", "http", "crash"}
Estados == {"aguardando", "Success", "Failed", "cancelada"}
DaCobranca == {"Solicitada", "Criada", "Falhou", "Consultada", "Cancelada",
               "Conflito", "Externo"}
DaObrigacao == {"Confirmada", "Anulada", "Reativada"}

VARIABLES
    provider,     \* what the provider knows of each charge
    log,          \* the financial events, in the order of the ledger
    table,        \* financeiro_cobrancas: index of the event each row shows
    obligations,  \* indices in financeiro_mensalidade_obrigacoes_eventos
    webhooks,     \* charges whose webhook id is in financeiro_webhooks_recebidos
    shared,       \* charge that reserved the merchant id a client sends twice
    cursor,       \* checkpoint of the projection manager
    handler,      \* what each request is doing
    ops,          \* requests so far
    failed,       \* history: kinds of failure so far
    rewound       \* history: the manager took a row back to an older event

readModel == <<table, obligations, webhooks>>
vars == <<provider, log, readModel, shared, cursor, handler, ops, failed, rewound>>

Works == UNCHANGED failed
Fails(kind) ==
    /\ failed' = failed \cup {kind}
    /\ Cardinality(failed') <= MaxKinds

-----------------------------------------------------------------------------
(* Statuses, rows, events *)

isSuccessfulChargeStatus(st) == st = "Success"

isTerminalChargeStatus(st) == st \in {"Success", "Failed", "cancelada"}

(* Faults the properties are tried against are named Wrong...: the status   *)
(* of the provider is recorded as it came.                                  *)
WrongNormalizeChargeStatus(raw) == raw

(* Pending and Requested are one state here; Expired, Failed and Cancelled  *)
(* of the provider are told apart by nothing below.                         *)
normalizeChargeStatus(raw) ==
    CASE raw = "Pending" -> "aguardando"
      [] raw = "Expired" -> "Failed"
      [] OTHER -> raw

(* mes: the charge pays the month; the others are single charges that a     *)
(* client created with a merchant id of its own.                            *)
Row(c) == log[table[c]]
HasRow(c) == table[c] # 0

NewEvent(tipo, c, st, mes) ==
    [tipo |-> tipo, c |-> c, st |-> st, ext |-> FALSE, pago |-> FALSE,
     mes |-> mes, seen |-> 0]

(* The payload is copied from the row that was read at index i.             *)
EventOver(tipo, i, st) == [log[i] EXCEPT !.tipo = tipo, !.st = st, !.seen = i]

Fact(tipo, c) == NewEvent(tipo, c, "aguardando", TRUE)

payloadIndicaPagamento(r) ==
    isSuccessfulChargeStatus(r.st) \/ r.pago \/ r.ext

cobrancaPagaExternamente(r) == r.ext /\ isSuccessfulChargeStatus(r.st)

(* Folds the facts of the month in their order: a payment prevails, a       *)
(* reactivation counts only for an annulled month.                          *)
precedenciaEstado(tipos) ==
    FoldLeft(LAMBDA st, t :
        CASE t = "Anulada" /\ st # "pago" -> "anulado"
          [] t = "Reativada" /\ st = "anulado" -> "pendente"
          [] t = "Confirmada" -> "pago"
          [] OTHER -> st, "pendente", tipos)

estadoObrigacao ==
    LET order == SetToSortSeq(obligations, <)
    IN  precedenciaEstado([k \in DOMAIN order |-> log[order[k]].tipo])

mensalidadeTemCobrancaAberta ==
    \E c \in Charges : HasRow(c) /\ Row(c).mes /\ ~isTerminalChargeStatus(Row(c).st)

-----------------------------------------------------------------------------
(* The read model *)

(* A second row with the merchant id of another breaks the unique index.    *)
Applicable(i) ==
    log[i].tipo \in DaCobranca /\ ~log[i].mes /\ ~HasRow(log[i].c) =>
        \A d \in Charges : HasRow(d) => Row(d).mes

(* Handle of the financial projection, for the event at index i.            *)
Handle(i) ==
    LET e == log[i]
        paidBy == {k \in obligations : log[k].tipo = "Confirmada" /\ log[k].c = e.c}
    IN  /\ table' = IF e.tipo \in DaCobranca THEN [table EXCEPT ![e.c] = i] ELSE table
        /\ obligations' = IF e.tipo \in DaObrigacao /\ ~(e.tipo = "Confirmada" /\ paidBy # {})
                          THEN obligations \cup {i} ELSE obligations
        /\ webhooks' = IF e.tipo = "Webhook" THEN webhooks \cup {e.c} ELSE webhooks

(* The stream of an event: a charge has its own, the facts of a month that  *)
(* no charge made are in the academy's, a received webhook has a new one.   *)
Stream(e) == CASE e.tipo \in {"Anulada", "Reativada"} -> "academia"
               [] e.tipo = "Webhook" -> "webhook"
               [] OTHER -> e.c

Latest(e) == CHOOSE i \in DOMAIN log :
                /\ Stream(log[i]) = Stream(e) /\ log[i].c = e.c
                /\ \A k \in DOMAIN log :
                      Stream(log[k]) = Stream(e) /\ log[k].c = e.c => k <= i

(* The projection manager handles the next event.                           *)
Project ==
    /\ cursor < Len(log)
    /\ Applicable(cursor + 1)
    /\ Handle(cursor + 1)
    /\ cursor' = cursor + 1
    /\ rewound' = (rewound \/ \E c \in Charges : table'[c] < table[c])
    /\ UNCHANGED <<provider, log, shared, handler, ops, failed>>

-----------------------------------------------------------------------------
(* The environment: the payer pays at the provider, or lets the charge lapse. *)
Settle(c, outcome) ==
    /\ provider[c] = "Pending"
    /\ provider' = [provider EXCEPT ![c] = outcome]
    /\ UNCHANGED <<log, readModel, shared, cursor, handler, ops, failed, rewound>>

-----------------------------------------------------------------------------
(* Requests.  todo: the events still to be recorded; next: what follows;    *)
(* left: charges the request has still to look at; msg: a webhook's status. *)
Idle == [pc |-> "idle", op |-> None, c |-> None, seen |-> 0, todo |-> <<>>,
         next |-> "idle", left |-> {}, msg |-> None]

Set(h, state) == handler' = [handler EXCEPT ![h] = state]
State(op, c, pc) == [Idle EXCEPT !.op = op, !.c = c, !.pc = pc]

(* Go on: record what is to do, or take the next step.                      *)
Go(h, todo, next) ==
    Set(h, [handler[h] EXCEPT !.todo = todo, !.next = next,
                              !.pc = IF todo = <<>> THEN next ELSE "save"])

Begin(h) == handler[h].pc = "idle" /\ ops < MaxOps /\ ops' = ops + 1
Same == UNCHANGED <<provider, log, readModel, cursor, failed, rewound>>

Fresh == {c \in Charges : /\ \A i \in DOMAIN log : log[i].c # c
                          /\ \A h \in Handlers : handler[h].c # c}

(* The student starts a payment; the merchant id is random.                 *)
IniciarPagamentoMensalidades(h) ==
    /\ Begin(h)
    /\ estadoObrigacao = "pendente" /\ ~mensalidadeTemCobrancaAberta
    /\ \E c \in Fresh :
          Set(h, [State("criar", c, "save") EXCEPT
                    !.todo = <<NewEvent("Solicitada", c, "aguardando", TRUE)>>,
                    !.next = "provider"])
    /\ Same /\ UNCHANGED shared

(* An account creates a single charge with its own merchant id.  The        *)
(* reservation admits one; a repetition returns what the row shows.         *)
reserveCharge(h) ==
    /\ Begin(h) /\ shared = None
    /\ \E c \in Fresh :
          /\ shared' = c
          /\ Set(h, [State("criar", c, "save") EXCEPT
                       !.todo = <<NewEvent("Solicitada", c, "aguardando", FALSE)>>,
                       !.next = "provider"])
    /\ Same

(* Months without an open charge are paid outside the platform.             *)
RegistrarPagamentoExternoMensalidades(h) ==
    /\ Begin(h)
    /\ estadoObrigacao = "pendente" /\ ~mensalidadeTemCobrancaAberta
    /\ \E c \in Fresh :
          Set(h, [State("externo", c, "save") EXCEPT
                    !.todo = <<[NewEvent("Externo", c, "Success", TRUE) EXCEPT !.ext = TRUE]>>,
                    !.next = "confirm"])
    /\ Same /\ UNCHANGED shared

(* Fault: the provider is asked about a charge paid outside the platform.   *)
WrongConsultCharge(h, c) ==
    /\ Begin(h) /\ HasRow(c)
    /\ Set(h, [State("consultar", c, "ask") EXCEPT !.seen = table[c]])
    /\ Same /\ UNCHANGED shared

(* The refusals of these requests change nothing and are not steps.         *)
ConsultCharge(h, c) ==
    /\ Begin(h) /\ HasRow(c)
    /\ Set(h, [State("consultar", c, IF cobrancaPagaExternamente(Row(c)) THEN "confirm"
                                     ELSE "ask") EXCEPT !.seen = table[c]])
    /\ Same /\ UNCHANGED shared

CancelCharge(h, c) ==
    /\ Begin(h) /\ HasRow(c)
    /\ ~isTerminalChargeStatus(Row(c).st)
    /\ Set(h, [State("cancelar", c, "ask") EXCEPT !.seen = table[c]])
    /\ Same /\ UNCHANGED shared

RegistrarPagamentoExternoCobranca(h, c) ==
    /\ Begin(h) /\ HasRow(c)
    /\ \/ /\ cobrancaPagaExternamente(Row(c))
          /\ Set(h, State("externo", c, "confirm"))
       \/ /\ ~isTerminalChargeStatus(Row(c).st)
          /\ Set(h, [State("externo", c, "ask") EXCEPT !.seen = table[c]])
    /\ Same /\ UNCHANGED shared

(* The provider notifies, possibly late and more than once.  Its event id   *)
(* is the id of the charge: the first notification takes the row.           *)
AcceptWebhook(h, c) ==
    /\ Begin(h) /\ c \notin webhooks /\ provider[c] # "none"
    /\ webhooks' = webhooks \cup {c}
    /\ \E msg \in {provider[c], "Pending"} :
          Set(h, [State("webhook", c, "save") EXCEPT
                    !.todo = <<Fact("Webhook", c)>>, !.next = "webhook", !.msg = msg])
    /\ UNCHANGED <<provider, log, table, obligations, shared, cursor, failed, rewound>>

(* The academy annuls the month or takes the annulment back: first every    *)
(* charge of the month is looked at for a payment.                          *)
alterarObrigacoesMensalidade(h, op) ==
    /\ Begin(h)
    /\ estadoObrigacao # "pago"
    /\ Set(h, [State(op, None, "guard") EXCEPT
                 !.left = {c \in Charges : HasRow(c) /\ Row(c).mes}])
    /\ Same /\ UNCHANGED shared

-----------------------------------------------------------------------------
(* record: append to the ledger, then apply the latest event of the stream. *)
(* On an error the caller gives up; what it had reserved it releases.       *)
Abandon(h) ==
    LET e == Head(handler[h].todo)
    IN  /\ Set(h, Idle)
        /\ shared' = IF e.tipo = "Solicitada" /\ shared = e.c THEN None ELSE shared
        /\ webhooks' = IF e.tipo = "Webhook" THEN webhooks \ {e.c} ELSE webhooks

Save(h) ==
    /\ handler[h].pc = "save"
    /\ \/ /\ log' = Append(log, Head(handler[h].todo))
          /\ Set(h, [handler[h] EXCEPT !.pc = "apply"])
          /\ Works /\ UNCHANGED <<webhooks, shared>>
       \/ Fails("save") /\ Abandon(h) /\ UNCHANGED log
    /\ UNCHANGED <<provider, table, obligations, cursor, ops, rewound>>

ApplyLatestForAggregate(h) ==
    LET s == handler[h]
        i == Latest(Head(s.todo))
    IN  /\ s.pc = "apply"
        /\ \/ /\ Applicable(i)
              /\ Handle(i)
              /\ Go(h, Tail(s.todo), s.next)
              /\ Works /\ UNCHANGED shared
           \/ /\ IF Applicable(i) THEN Fails("apply") ELSE Works
              /\ Abandon(h)
              /\ UNCHANGED <<table, obligations>>
        /\ UNCHANGED <<provider, log, cursor, ops, rewound>>

-----------------------------------------------------------------------------
(* The provider answers the creation of a charge.                           *)
Step(h, pc) == handler[h].pc = pc /\ UNCHANGED <<log, readModel, shared, cursor, ops, rewound>>

\* fault: the answer to the creation of a reference is believed
WrongStatusNaCriacao(metodo, claim) == normalizeChargeStatus(claim)

(* A reference is paid later, whatever the answer to its creation says.     *)
statusNaCriacao(metodo, claim) ==
    LET st == normalizeChargeStatus(claim)
    IN  IF metodo = "REF" /\ isSuccessfulChargeStatus(st) THEN "aguardando" ELSE st

Created(c, st) ==
    LET i == CHOOSE k \in DOMAIN log : log[k].c = c /\ log[k].tipo = "Solicitada"
    IN  EventOver("Criada", i, st)

CreateCharge(h) ==
    LET c == handler[h].c
    IN  /\ Step(h, "provider")
        /\ \/ \E metodo \in {"GPO", "REF"}, claim \in {"Pending", "Success", "Expired"} :
                 LET st == statusNaCriacao(metodo, claim)
                 IN  /\ provider' = [provider EXCEPT ![c] =
                           IF metodo = "REF" /\ claim = "Success" THEN "Pending" ELSE claim]
                     /\ Go(h, <<Created(c, st)>>,
                           IF isSuccessfulChargeStatus(st) THEN "confirm" ELSE "idle")
                     /\ Works
           \/ \E raw \in {"none", "Pending"} :
                 /\ provider' = [provider EXCEPT ![c] = raw]
                 /\ Go(h, <<[Created(c, "Failed") EXCEPT !.tipo = "Falhou"]>>, "idle")
                 /\ Fails("http")

(* A QR code that was made has not been paid.                               *)
CreateGPOQRCode(h) ==
    LET c == handler[h].c
    IN  /\ Step(h, "provider")
        /\ provider' = [provider EXCEPT ![c] = "Pending"]
        /\ Go(h, <<Created(c, "aguardando")>>, "idle")
        /\ Works

-----------------------------------------------------------------------------
(* The provider answers a question about a charge.                          *)
Success(st) == isSuccessfulChargeStatus(st)

(* The events consultCharge may record for the row read at index i: a       *)
(* success after a local cancellation is a conflict; the same status is     *)
(* recorded again when the rest of the answer has changed.                  *)
consultCharge(i, st) ==
    LET r == log[i]
    IN  CASE r.st = "cancelada" /\ Success(st) ->
               {<<[EventOver("Conflito", i, "cancelada") EXCEPT !.pago = TRUE]>>}
          [] OTHER -> {<<EventOver("Consultada", i, st)>>}
                        \cup (IF st = r.st THEN {<<>>} ELSE {})

AfterConsult(i, st) ==
    IF Success(st) /\ log[i].st # "cancelada" THEN "confirm" ELSE "idle"

Consulted(h, st) ==
    \E todo \in consultCharge(handler[h].seen, st) :
        Go(h, todo, AfterConsult(handler[h].seen, st))

Cancelled(h, st) ==
    \E todo \in consultCharge(handler[h].seen, st) :
        Go(h, Append(todo, EventOver("Cancelada", handler[h].seen, "cancelada")),
           IF handler[h].op = "anular" THEN "cancelopen" ELSE "idle")

PaidOutside(h) ==
    Go(h, <<[EventOver("Externo", handler[h].seen, "Success") EXCEPT !.ext = TRUE]>>,
       "confirm")

(* Fault: a payment a webhook tells of does not confirm the month.          *)
WrongNotified(h, st) ==
    LET i == handler[h].seen
    IN  IF Success(st) /\ log[i].st = "cancelada"
        THEN Go(h, <<[EventOver("Conflito", i, "cancelada") EXCEPT !.pago = TRUE]>>, "idle")
        ELSE Go(h, <<EventOver("Consultada", i, st)>>, "idle")

(* What a webhook records once the charge has been asked about; a success   *)
(* over a cancelled row is a conflict.                                      *)
Notified(h, st) ==
    LET i == handler[h].seen
    IN  IF Success(st) /\ log[i].st = "cancelada"
        THEN Go(h, <<[EventOver("Conflito", i, "cancelada") EXCEPT !.pago = TRUE]>>, "idle")
        ELSE Go(h, <<EventOver("Consultada", i, st)>>,
                IF Success(st) THEN "confirm" ELSE "idle")

Answered(h, st) ==
    IF handler[h].op = "webhook" THEN Notified(h, st)
    ELSE IF handler[h].op = "consultar" \/ Success(st) THEN Consulted(h, st)
    ELSE IF handler[h].op = "externo" THEN PaidOutside(h)
    ELSE IF handler[h].next = "guard" THEN Go(h, <<>>, "guard")
    ELSE Cancelled(h, st)

(* No status in the answer: what was known before stands.                   *)
Known(h) == IF handler[h].op = "webhook" THEN normalizeChargeStatus(handler[h].msg)
            ELSE log[handler[h].seen].st

Ask(h) ==
    LET c == handler[h].c
    IN  /\ Step(h, "ask")
        /\ UNCHANGED provider
        /\ \/ /\ provider[c] # "none"
              /\ \E st \in {normalizeChargeStatus(provider[c]), Known(h)} : Answered(h, st)
              /\ Works
           \/ /\ IF provider[c] # "none" THEN Fails("http") ELSE Works
              /\ IF handler[h].op = "webhook" THEN Answered(h, Known(h)) ELSE Set(h, Idle)

(* The webhook is on record: does it say anything new of the row?  A        *)
(* success is checked with the provider unless the row is cancelled.        *)
ApplyWebhook(h) ==
    LET s  == handler[h]
        st == normalizeChargeStatus(s.msg)
        r  == Row(s.c)
        ignored == \/ ~HasRow(s.c)
                   \/ cobrancaPagaExternamente(r)
                   \/ isTerminalChargeStatus(r.st) /\ ~Success(st)
        read == [s EXCEPT !.seen = table[s.c]]
    IN  /\ Step(h, "webhook")
        /\ UNCHANGED <<provider, failed>>
        /\ IF ignored THEN Set(h, Idle)
           ELSE IF Success(st) /\ r.st # "cancelada" THEN Set(h, [read EXCEPT !.pc = "ask"])
           ELSE Set(h, [read EXCEPT !.pc = "note"])

NoteWebhook(h) ==
    /\ Step(h, "note")
    /\ UNCHANGED <<provider, failed>>
    /\ Notified(h, normalizeChargeStatus(handler[h].msg))

-----------------------------------------------------------------------------
(* Annulling the month and taking the annulment back.                       *)
abertas == {c \in Charges : HasRow(c) /\ Row(c).mes /\ ~isTerminalChargeStatus(Row(c).st)}

(* Any trace of a payment ends the request with a reconciliation.           *)
garantirCobrancasSemPagamento(h) ==
    LET s == handler[h]
    IN  /\ Step(h, "guard") /\ UNCHANGED <<provider, failed>>
        /\ \E c \in s.left :
              LET rest == [s EXCEPT !.left = @ \ {c}]
              IN  Set(h, IF payloadIndicaPagamento(Row(c)) THEN State(s.op, c, "confirm")
                         ELSE IF isTerminalChargeStatus(Row(c).st) THEN rest
                         ELSE [rest EXCEPT !.pc = "ask", !.c = c,
                                           !.seen = table[c], !.next = "guard"])

Guarded(h) ==
    LET s == handler[h]
    IN  /\ Step(h, "guard") /\ UNCHANGED <<provider, failed>>
        /\ s.left = {}
        /\ IF s.op = "anular" /\ estadoObrigacao # "pago"
           THEN Set(h, [State(s.op, None, "cancelopen") EXCEPT !.left = abertas])
           ELSE IF s.op = "reativar" /\ estadoObrigacao = "anulado"
           THEN Go(h, <<Fact("Reativada", None)>>, "idle")
           ELSE Set(h, Idle)

cancelOpenMensalidadeCharges(h) ==
    LET s == handler[h]
    IN  /\ Step(h, "cancelopen") /\ UNCHANGED <<provider, failed>>
        /\ \/ /\ s.left = {}
              /\ Go(h, <<Fact("Anulada", None)>>, "idle")
           \/ \E c \in s.left :
                 IF isTerminalChargeStatus(Row(c).st) THEN Set(h, Idle)
                 ELSE Set(h, [s EXCEPT !.pc = "ask", !.c = c, !.seen = table[c],
                                       !.next = "cancelopen", !.left = @ \ {c}])

-----------------------------------------------------------------------------
(* A paid charge confirms its month, unless the table says it already did.  *)
confirmMensalidadeCharge(h) ==
    LET c == handler[h].c
        done == \E i \in obligations : log[i].tipo = "Confirmada" /\ log[i].c = c
    IN  /\ Step(h, "confirm") /\ UNCHANGED <<provider, failed>>
        /\ IF done \/ ~HasRow(c) \/ ~Success(Row(c).st) \/ ~Row(c).mes THEN Set(h, Idle)
           ELSE Go(h, <<Fact("Confirmada", c)>>, "idle")

(* The process dies, and its requests with it.                              *)
Crash ==
    /\ \E h \in Handlers : handler[h].pc # "idle"
    /\ Fails("crash")
    /\ handler' = [h \in Handlers |-> Idle]
    /\ UNCHANGED <<provider, log, readModel, shared, cursor, ops, rewound>>

(* A behaviour starts with no charge, or with one of the month that the     *)
(* payer has not paid yet.                                                  *)
Init ==
    /\ \/ /\ log = <<>> /\ table = [c \in Charges |-> 0]
          /\ provider = [c \in Charges |-> "none"]
       \/ \E c \in Charges :
             /\ log = <<NewEvent("Solicitada", c, "aguardando", TRUE),
                        [NewEvent("Criada", c, "aguardando", TRUE) EXCEPT !.seen = 1]>>
             /\ table = [d \in Charges |-> IF d = c THEN 2 ELSE 0]
             /\ provider = [d \in Charges |-> IF d = c THEN "Pending" ELSE "none"]
    /\ obligations = {} /\ webhooks = {}
    /\ shared = None /\ cursor = 0
    /\ handler = [h \in Handlers |-> Idle]
    /\ ops = 0 /\ failed = {} /\ rewound = FALSE

Request(h) ==
    \/ IniciarPagamentoMensalidades(h)
    \/ reserveCharge(h)
    \/ RegistrarPagamentoExternoMensalidades(h)
    \/ \E c \in Charges : \/ ConsultCharge(h, c)
                          \/ CancelCharge(h, c)
                          \/ RegistrarPagamentoExternoCobranca(h, c)
                          \/ AcceptWebhook(h, c)
    \/ \E op \in {"anular", "reativar"} : alterarObrigacoesMensalidade(h, op)

Continue(h) ==
    \/ Save(h) \/ ApplyLatestForAggregate(h)
    \/ CreateCharge(h) \/ CreateGPOQRCode(h)
    \/ Ask(h) \/ ApplyWebhook(h) \/ NoteWebhook(h)
    \/ garantirCobrancasSemPagamento(h) \/ Guarded(h)
    \/ cancelOpenMensalidadeCharges(h)
    \/ confirmMensalidadeCharge(h)

Next ==
    \/ Project \/ Crash
    \/ \E c \in Charges, outcome \in {"Success", "Expired"} : Settle(c, outcome)
    \/ \E h \in Handlers : Request(h) \/ Continue(h)

Spec == Init /\ [][Next]_vars

-----------------------------------------------------------------------------
(* Every variable has its type; a row shows an event of its own charge.     *)
TypeOK ==
    /\ provider \in [Charges -> {"none", "Pending", "Success", "Expired"}]
    /\ \A i \in DOMAIN log :
          /\ log[i].tipo \in DaCobranca \cup DaObrigacao \cup {"Webhook"}
          /\ log[i].c \in Charges \cup {None}
          /\ log[i].st \in Estados /\ log[i].seen \in 0..(i - 1)
    /\ \A c \in Charges : HasRow(c) => table[c] <= Len(log) /\ Row(c).c = c
                                       /\ Row(c).tipo \in DaCobranca
    /\ obligations \subseteq {i \in DOMAIN log : log[i].tipo \in DaObrigacao}
    /\ webhooks \subseteq Charges /\ shared \in Charges \cup {None}
    /\ cursor \in 0..Len(log) /\ ops \in 0..MaxOps
    /\ failed \subseteq Kinds /\ rewound \in BOOLEAN

(* A charge is recorded as paid only if the payer paid at the provider or   *)
(* the academy declared a payment outside the platform (servico.go:305-327, *)
(* 1084-1098, pagamento_externo.go:201-206).                                *)
PaidMeansPaid ==
    \A i \in DOMAIN log : log[i].tipo \in DaCobranca /\ Success(log[i].st) =>
        log[i].ext \/ provider[log[i].c] = "Success"

(* No handler that has seen an external payment writes it away, and none    *)
(* that has seen a cancellation turns it into a payment (servico.go:896,    *)
(* 937-944, 1080-1117).                                                     *)
SeenDecisionsStand ==
    \A i \in DOMAIN log : log[i].tipo \in DaCobranca /\ log[i].seen # 0 =>
        LET r == log[log[i].seen]
        IN  /\ cobrancaPagaExternamente(r) => Success(log[i].st)
            /\ r.st = "cancelada" => ~Success(log[i].st)

(* When everything has settled without a failure and the manager took no    *)
(* row back, a paid charge of the month has confirmed it, whichever request *)
(* found the payment (servico.go:338, 438, 1118, pagamento_externo.go:209). *)
PaidIsConfirmed ==
    /\ \A h \in Handlers : handler[h].pc = "idle"
    /\ failed = {} /\ ~rewound
    => \A c \in Charges : HasRow(c) /\ Row(c).mes /\ Success(Row(c).st) =>
          \E i \in DOMAIN log : log[i].tipo = "Confirmada" /\ log[i].c = c
=============================================================================
