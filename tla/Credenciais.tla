------------------------------ MODULE Credenciais ------------------------------
(***************************************************************************)
(* The credentials of a payment provider in one financial context          *)
(* (internal/finance/credenciais.go, provedor_config.go).  Their life is   *)
(* in the ledger and its read model; their secrets are in a vault of their *)
(* own, which no replay of the ledger restores.  Removing credentials is   *)
(* never refused: while charges are pending with them they stay on as a    *)
(* snapshot, and the snapshot goes with its last pending charge.           *)
(*                                                                         *)
(* The factory knows one provider: the context has it as its active        *)
(* provider or has none, and DefinirProvedor never has anything to record. *)
(***************************************************************************)
EXTENDS Integers, Sequences, FiniteSets

CONSTANTS
    Credentials,  \* ids that uuid.New may give out
    Payments,     \* charges made with them
    Callers,      \* requests that may be in progress at the same time
    MaxCalls,     \* bound: requests in one behaviour
    MaxFaults     \* bound: kinds of fault in one behaviour

Nil == "nil"
Faults == {"ledger", "vault", "cut"}
Complete == {"campos", "webhook"}   \* the secrets of complete credentials

VARIABLES
    events,    \* credential events in the order of the ledger
    row,       \* the row of financeiro_credenciais_provedor, or Nil
    archived,  \* financeiro_credenciais_arquivadas
    ativo,     \* the context has a row in financeiro_provedores_pagamento
    vault,     \* financeiro_segredos_provedor
    payment,   \* the charges: status and credential
    position,  \* checkpoint of the projection manager
    caller,    \* what each request is doing
    calls,     \* requests so far
    faults,    \* history: kinds of fault so far
    raced,     \* history: charges recorded while their credentials went away
    synced     \* history: charges that were paid when they were created

rowVars == <<row, archived, ativo>>
vars == <<events, rowVars, vault, payment, position, caller, calls, faults, raced, synced>>

Sound == UNCHANGED faults
Fault(kind) ==
    /\ faults' = faults \cup {kind}
    /\ Cardinality(faults') <= MaxFaults

-----------------------------------------------------------------------------
(* The read model of the credentials *)

(* One row per context and provider: the row of another id cannot go in.    *)
Applicable(e) == e.tipo = "Configuradas" => row \in {Nil, e.id}

Handle(e) ==
    CASE e.tipo = "Configuradas" ->
            row' = e.id /\ ativo' = TRUE /\ UNCHANGED archived
      [] e.tipo = "Removidas" /\ row = e.id ->
            /\ row' = Nil /\ ativo' = FALSE
            /\ archived' = IF e.arquivada THEN archived \cup {e.id} ELSE archived
      [] e.tipo = "Purgadas" ->
            archived' = archived \ {e.id} /\ UNCHANGED <<row, ativo>>
      [] OTHER -> UNCHANGED rowVars

(* The removal is three statements without a transaction: after the first,  *)
(* doing it again finds no row and does nothing.                            *)
CutShort(e) ==
    /\ e.tipo = "Removidas" /\ row = e.id
    /\ row' = Nil /\ UNCHANGED <<archived, ativo>>

Latest(id) == events[CHOOSE i \in DOMAIN events :
                 events[i].id = id /\ \A k \in DOMAIN events : events[k].id = id => k <= i]

Project ==
    /\ position < Len(events)
    /\ Applicable(events[position + 1])
    /\ Handle(events[position + 1])
    /\ position' = position + 1
    /\ UNCHANGED <<events, vault, payment, caller, calls, faults, raced, synced>>

-----------------------------------------------------------------------------
(* Which credentials a charge speaks with *)

Open(c) == payment[c].st = "open"
CobrancasPendentes == {c \in Payments : Open(c)}
pendentesDoSnapshot(id) == {c \in CobrancasPendentes : payment[c].cred = id}
Usable(id) == "campos" \in vault[id]
loadCredentialAtiva == ativo /\ row # Nil /\ Usable(row)

(* The credentials that made the charge, active or archived; then those     *)
(* active now; then a snapshot.  The first that is found must be complete.  *)
credencialDaCobranca(c) ==
    LET id == payment[c].cred
    IN  IF id = row \/ id \in archived THEN Usable(id)
        ELSE IF row # Nil THEN Usable(row)
        ELSE \E a \in archived : Usable(a)

(* A notification is authenticated by the secret of any credentials of the  *)
(* provider, active or archived; it then counts for their context only.     *)
AuthenticateWebhook(c) ==
    LET id == payment[c].cred
    IN  (id = row \/ id \in archived) /\ "webhook" \in vault[id]

-----------------------------------------------------------------------------
(* Requests.  event: what is to be recorded; next: what follows; keys: the  *)
(* secrets to save; left: snapshots still to look at.                       *)
Rest == [pc |-> "idle", op |-> Nil, event |-> [tipo |-> Nil, id |-> Nil, arquivada |-> FALSE],
         next |-> "idle", keys |-> {}, left |-> {}]

Event(tipo, id, arquivada) == [tipo |-> tipo, id |-> id, arquivada |-> arquivada]
Set(h, state) == caller' = [caller EXCEPT ![h] = state]
Recording(op, e, next) == [Rest EXCEPT !.pc = "record", !.op = op, !.event = e, !.next = next]
Call(h) == caller[h].pc = "idle" /\ calls < MaxCalls /\ calls' = calls + 1
Unread == UNCHANGED <<events, rowVars, vault, payment, position, faults, raced, synced>>

Unused == {id \in Credentials : /\ \A i \in DOMAIN events : events[i].id # id
                                /\ \A h \in Callers : caller[h].event.id # id}

(* The secret of the webhooks is made the first time only.                  *)
ConfigureCredential(h) ==
    /\ Call(h)
    /\ \E id \in IF row # Nil THEN {row} ELSE Unused :
          Set(h, [Recording("configurar", Event("Configuradas", id, FALSE), "secrets")
                    EXCEPT !.keys = IF "webhook" \in vault[id] THEN {"campos"} ELSE Complete])
    /\ Unread

RotateWebhookSecret(h) ==
    /\ Call(h) /\ row # Nil
    /\ Set(h, [Recording("rotacionar", Event("Rotacionado", row, FALSE), "secrets")
                 EXCEPT !.keys = {"webhook"}])
    /\ Unread

(* Faults the properties are tried against are named Wrong...: the removal  *)
(* keeps no snapshot, or never looks at the one it made.                    *)
WrongRemoveCredential(h) ==
    /\ Call(h) /\ row # Nil
    /\ Set(h, Recording("remover", Event("Removidas", row, FALSE), "wipe"))
    /\ Unread

WrongRemoveWithoutPurge(h) ==
    /\ Call(h) /\ row # Nil
    /\ LET arquivar == CobrancasPendentes # {}
       IN  Set(h, Recording("remover", Event("Removidas", row, arquivar),
                            IF arquivar THEN "idle" ELSE "wipe"))
    /\ Unread

RemoveCredential(h) ==
    /\ Call(h) /\ row # Nil
    /\ LET arquivar == CobrancasPendentes # {}
       IN  Set(h, Recording("remover", Event("Removidas", row, arquivar),
                            IF arquivar THEN "list" ELSE "wipe"))
    /\ Unread

(* A new charge takes the active credentials.                               *)
loadCredential(h) ==
    /\ Call(h) /\ loadCredentialAtiva
    /\ Set(h, [Rest EXCEPT !.pc = "charge", !.op = "cobrar", !.event = Event(Nil, row, FALSE)])
    /\ Unread

(* A pending charge ends: a consultation, a cancellation, a webhook or a    *)
(* payment outside the platform, each a record that then purges.            *)
liberarSnapshotsSeCobrancaTerminal(h, c) ==
    /\ Call(h) /\ Open(c)
    /\ payment' = [payment EXCEPT ![c].st = "closed"]
    /\ Set(h, [Rest EXCEPT !.pc = "list", !.op = "encerrar"])
    /\ UNCHANGED <<events, rowVars, vault, position, faults, raced, synced>>

-----------------------------------------------------------------------------
(* The steps of a request *)

GoingAway(id) ==
    \/ \E i \in DOMAIN events : events[i].tipo = "Removidas" /\ events[i].id = id
    \/ \E g \in Callers : caller[g].op = "remover"

(* The charge is recorded with the credentials loaded before; when the      *)
(* provider answers, it may be paid at once, which purges nothing.          *)
comCredencial(h) ==
    LET id == caller[h].event.id
    IN  /\ caller[h].pc = "charge"
        /\ \E c \in Payments, atOnce \in BOOLEAN :
              /\ payment[c].st = "none"
              /\ payment' = [payment EXCEPT ![c] = [st |-> "open", cred |-> id]]
              /\ Set(h, IF atOnce THEN [caller[h] EXCEPT !.pc = "created", !.left = {c}]
                                  ELSE Rest)
              /\ raced' = IF GoingAway(id) THEN raced \cup {c} ELSE raced
        /\ UNCHANGED <<events, rowVars, vault, position, calls, faults, synced>>

CobrancaCriada(h) ==
    LET paid == caller[h].left
    IN  /\ caller[h].pc = "created"
        /\ payment' = [c \in Payments |->
              IF c \in paid THEN [payment[c] EXCEPT !.st = "closed"] ELSE payment[c]]
        /\ synced' = synced \cup {c \in paid : Open(c)}
        /\ Set(h, Rest)
        /\ UNCHANGED <<events, rowVars, vault, position, calls, faults, raced>>

(* record: append, then apply the latest event of the credentials.          *)
Record(h) ==
    /\ caller[h].pc = "record"
    /\ \/ /\ events' = Append(events, caller[h].event)
          /\ Set(h, [caller[h] EXCEPT !.pc = "apply"])
          /\ Sound
       \/ /\ Fault("ledger")
          /\ \/ events' = Append(events, caller[h].event)
             \/ UNCHANGED events
          /\ Set(h, Rest)
    /\ UNCHANGED <<rowVars, vault, payment, position, calls, raced, synced>>

Apply(h) ==
    LET s == caller[h]
        e == Latest(s.event.id)
    IN  /\ s.pc = "apply"
        /\ \/ /\ Applicable(e) /\ Handle(e)
              /\ Set(h, IF s.next = "idle" THEN Rest ELSE [s EXCEPT !.pc = s.next])
              /\ Sound
           \/ /\ ~Applicable(e) /\ Set(h, Rest)
              /\ Sound /\ UNCHANGED rowVars
           \/ /\ CutShort(e) /\ Fault("cut") /\ Set(h, Rest)
        /\ UNCHANGED <<events, vault, payment, position, calls, raced, synced>>

(* Each secret is a statement of its own.                                   *)
saveSecrets(h) ==
    LET s == caller[h]
    IN  /\ s.pc = "secrets"
        /\ \/ vault' = [vault EXCEPT ![s.event.id] = @ \cup s.keys] /\ Sound
           \/ /\ Fault("vault")
              /\ \E some \in SUBSET s.keys \ {s.keys} :
                    vault' = [vault EXCEPT ![s.event.id] = @ \cup some]
        /\ Set(h, Rest)
        /\ UNCHANGED <<events, rowVars, payment, position, calls, raced, synced>>

(* The secrets go; a purge goes on to the next snapshot.                    *)
Wipe(h) ==
    LET s == caller[h]
    IN  /\ s.pc = "wipe"
        /\ \/ /\ vault' = [vault EXCEPT ![s.event.id] = {}]
              /\ Set(h, IF s.left = {} THEN Rest ELSE [s EXCEPT !.pc = "purge"])
              /\ Sound
           \/ Fault("vault") /\ Set(h, Rest) /\ UNCHANGED vault
        /\ UNCHANGED <<events, rowVars, payment, position, calls, raced, synced>>

(* The snapshots are listed once, then each is purged unless a charge is    *)
(* still pending with it.                                                   *)
ListSnapshots(h) ==
    /\ caller[h].pc = "list"
    /\ Set(h, IF archived = {} THEN Rest
              ELSE [caller[h] EXCEPT !.pc = "purge", !.left = archived])
    /\ UNCHANGED <<events, rowVars, vault, payment, position, calls, faults, raced, synced>>

purgarArquivadasSemPendentes(h) ==
    LET s == caller[h]
    IN  /\ s.pc = "purge"
        /\ \E id \in s.left :
              LET rest == [s EXCEPT !.left = @ \ {id}]
              IN  Set(h, IF pendentesDoSnapshot(id) = {}
                         THEN [rest EXCEPT !.pc = "record", !.next = "wipe",
                                           !.event = Event("Purgadas", id, FALSE)]
                         ELSE IF rest.left = {} THEN Rest ELSE rest)
        /\ UNCHANGED <<events, rowVars, vault, payment, position, calls, faults, raced, synced>>

Init ==
    /\ events = <<>> /\ row = Nil /\ archived = {} /\ ativo = FALSE
    /\ vault = [id \in Credentials |-> {}]
    /\ payment = [c \in Payments |-> [st |-> "none", cred |-> Nil]]
    /\ position = 0
    /\ caller = [h \in Callers |-> Rest]
    /\ calls = 0 /\ faults = {} /\ raced = {} /\ synced = {}

Step(h) ==
    \/ ConfigureCredential(h) \/ RotateWebhookSecret(h)
    \/ RemoveCredential(h) \/ loadCredential(h)
    \/ \E c \in Payments : liberarSnapshotsSeCobrancaTerminal(h, c)
    \/ comCredencial(h) \/ CobrancaCriada(h)
    \/ Record(h) \/ Apply(h) \/ saveSecrets(h) \/ Wipe(h)
    \/ ListSnapshots(h) \/ purgarArquivadasSemPendentes(h)

Next == Project \/ \E h \in Callers : Step(h)

Spec == Init /\ [][Next]_vars

-----------------------------------------------------------------------------
TypeOK ==
    /\ \A i \in DOMAIN events : events[i].id \in Credentials \cup {Nil}
    /\ row \in Credentials \cup {Nil} /\ archived \subseteq Credentials
    /\ ativo \in BOOLEAN
    /\ vault \in [Credentials -> SUBSET Complete]
    /\ payment \in [Payments -> [st : {"none", "open", "closed"}, cred : Credentials \cup {Nil}]]
    /\ position \in 0..Len(events) /\ calls \in 0..MaxCalls
    /\ faults \subseteq Faults /\ raced \subseteq Payments /\ synced \subseteq Payments

(* Whatever is configured, removed and purged meanwhile, a pending charge   *)
(* can still be asked about at the provider that made it, and the           *)
(* notifications of it are authenticated, unless it was recorded while its  *)
(* credentials were going away (credenciais.go:278-336, 515-570, 626-642).  *)
PendingChargeIsReachable ==
    faults = {} => \A c \in CobrancasPendentes \ raced :
        credencialDaCobranca(c) /\ AuthenticateWebhook(c)

(* A request that had read the row before its removal recorded another      *)
(* event over it, and the removal was applied by the manager only.  The row *)
(* may be of other credentials by then: the event of the overtaken ones     *)
(* cannot go in, and a purge that meets them stops there, before the        *)
(* snapshots it has not come to (credenciais.go:668-697).                   *)
Overtaken ==
    \E i, k \in DOMAIN events :
        /\ i < k /\ events[i].id = events[k].id
        /\ events[i].tipo = "Removidas" /\ events[k].tipo # "Purgadas"

(* When nothing is under way any more, a snapshot that is left has a charge *)
(* pending with it, or one that was paid the moment it was created, unless  *)
(* some removal was overtaken (credenciais.go:320-335, 668-697,             *)
(* servico.go:979-996).                                                     *)
SnapshotIsNeeded ==
    /\ \A h \in Callers : caller[h].pc = "idle"
    /\ position = Len(events) /\ faults = {} /\ ~Overtaken
    => \A id \in archived : \E c \in Payments :
          payment[c].cred = id /\ (Open(c) \/ c \in synced)
=============================================================================
