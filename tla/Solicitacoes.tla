---------------------------- MODULE Solicitacoes ----------------------------
(***************************************************************************)
(* Requests to change a protected datum: a student asks for a new name or  *)
(* identity card and the academy decides, an academy asks for a new tax    *)
(* number and an admin decides (internal/handlers/solicitacao_edicao_dado_ *)
(* estudante_handlers.go, solicitacao_alteracao_nif_academia_handlers.go). *)
(* At most one request per datum may be pending.  The handlers check this  *)
(* on a read model that lags behind the ledger, so a row of the table      *)
(* unique_operation_guards (internal/db/unique_operation_guard.go) covers  *)
(* the gap.  The module has one datum, that is, one key of the guard.      *)
(***************************************************************************)
EXTENDS Integers, Sequences, FiniteSets, SequencesExt

CONSTANTS
    Requests,    \* POSTs that ask for a change; each makes one request at most
    Deciders,    \* decisions that may be in progress at the same time
    MaxKinds     \* bound: kinds of failure that happen in one behaviour

Kinds == {"upload", "save", "reply", "consume", "release", "apply", "delete", "crash"}

VARIABLES
    guard,      \* status of the row each request inserted in the guard table
    creator,    \* what the handler of each POST is doing
    decider,    \* what each handler of a decision is doing
    log,        \* the events of all requests, in the order of the ledger
    projected,  \* how many of them the read model has absorbed
    applied,    \* requests whose value was written to the datum's own stream
    docs,       \* requests whose document is in the temporary storage
    failed      \* history: the kinds of failure so far

requests == <<guard, creator>>
vars == <<requests, decider, log, projected, applied, docs, failed>>

Active == {"reserved", "consumed"}
Decided == {"Aprovada", "Reprovada"}

(* basis: what was in the ledger when the command was decided (history).    *)
Event(type, r, basis) == [type |-> type, sol |-> r, basis |-> basis]
Happened(type, r) == \E e \in ToSet(log) : e.type = type /\ e.sol = r
Events(prefix, r) == {e \in ToSet(SubSeq(log, 1, prefix)) : e.sol = r}

(* The status of a request after a prefix of the log: Apply of its          *)
(* aggregate on the whole log, the row of the read model on a part of it.   *)
Status(prefix, r) ==
    CASE Events(prefix, r) = {} -> "absent"
      [] \E e \in Events(prefix, r) : e.type \in Decided -> "decided"
      [] OTHER -> "pendente"

Idle == [pc |-> "idle"]

(* A call that may fail: it works, or it fails in one of the given ways. *)
Works == UNCHANGED failed
Fails(kind) ==
    /\ failed' = failed \cup {kind}
    /\ Cardinality(failed') <= MaxKinds

-----------------------------------------------------------------------------
(* The POST *)

(* Reservations are stamped with a TTL of 30 minutes; requests are shorter, *)
(* and the projection manager's timer of 20 minutes shows it what they did. *)
Expirable ==
    {r \in Requests : /\ guard[r] = "reserved" /\ creator[r] = "over"
                      /\ Happened("Criada", r) =>
                            Status(projected, r) # "absent"}

(* Faults the properties are tried against are named Wrong...: no index,    *)
(* the index without its consumed rows.                                     *)
WrongReserve(r, expired) ==
    /\ guard' = [q \in Requests |-> IF q = r THEN "reserved"
                                    ELSE IF q \in expired THEN "expired" ELSE guard[q]]
    /\ creator' = [creator EXCEPT ![r] = "check"]

(* One transaction: expire what is due, insert, or fail on the partial      *)
(* unique index and roll back ("já existe solicitação ... em criação").     *)
TryReserve(r, expired) ==
    LET taken == \E q \in Requests \ expired : guard[q] \in Active
    IN  /\ guard' = IF taken THEN guard
                    ELSE [q \in Requests |-> IF q = r THEN "reserved"
                                  ELSE IF q \in expired THEN "expired" ELSE guard[q]]
        /\ creator' = [creator EXCEPT ![r] = IF taken THEN "over" ELSE "check"]

Reserve(r) ==
    /\ creator[r] = "new"
    /\ \E expired \in SUBSET Expirable : TryReserve(r, expired)
    /\ UNCHANGED <<decider, log, projected, applied, docs, failed>>

ExistePendente(r) ==
    /\ creator[r] = "check"
    /\ creator' = [creator EXCEPT ![r] =
          IF \E q \in Requests : Status(projected, q) = "pendente"
          THEN "release" ELSE "upload"]
    /\ UNCHANGED <<guard, decider, log, projected, applied, docs, failed>>

Upload(r) ==
    /\ creator[r] = "upload"
    /\ \/ /\ Works /\ docs' = docs \cup {r}
          /\ creator' = [creator EXCEPT ![r] = "save"]
       \/ /\ Fails("upload") /\ UNCHANGED docs
          /\ creator' = [creator EXCEPT ![r] = "release"]
    /\ UNCHANGED <<guard, decider, log, projected, applied>>

(* Criar and SaveWithAudit, which may fail, or be thought to have failed;   *)
(* then the document is deleted (if that fails too, only storage is lost).  *)
SaveRequest(r) ==
    /\ creator[r] = "save"
    /\ \/ /\ Works /\ UNCHANGED docs
          /\ log' = Append(log, Event("Criada", r, 0))
          /\ creator' = [creator EXCEPT ![r] = "consume"]
       \/ /\ Fails("save") /\ docs' = docs \ {r} /\ UNCHANGED log
          /\ creator' = [creator EXCEPT ![r] = "release"]
       \/ /\ Fails("reply") /\ docs' = docs \ {r}
          /\ log' = Append(log, Event("Criada", r, 0))
          /\ creator' = [creator EXCEPT ![r] = "release"]
    /\ UNCHANGED <<guard, decider, projected, applied>>

(* UPDATE ... WHERE id AND status = 'reserved': the rows affected are not   *)
(* looked at, the decision may have released the key already.               *)
Consume(r) ==
    /\ creator[r] = "consume"
    /\ \/ /\ Works
          /\ guard' = [guard EXCEPT ![r] = IF @ = "reserved" THEN "consumed" ELSE @]
          /\ creator' = [creator EXCEPT ![r] = "over"]
       \/ /\ Fails("consume") /\ UNCHANGED guard
          /\ creator' = [creator EXCEPT ![r] = "release"]
    /\ UNCHANGED <<decider, log, projected, applied, docs>>

(* The deferred Release of a guard that was not consumed. *)
Release(r) ==
    /\ creator[r] = "release"
    /\ creator' = [creator EXCEPT ![r] = "over"]
    /\ \/ Works /\ guard' = [guard EXCEPT ![r] = IF @ \in Active THEN "released" ELSE @]
       \/ Fails("release") /\ UNCHANGED guard
    /\ UNCHANGED <<decider, log, projected, applied, docs>>

-----------------------------------------------------------------------------
(* The decision *)

(* "solicitação já decidida" unless the read model says pending. *)
GetByCodigo(d) ==
    /\ decider[d].pc = "idle"
    /\ \E r \in Requests, aprovar \in BOOLEAN :
          /\ Status(projected, r) = "pendente"
          /\ decider' = [decider EXCEPT ![d] =
                [pc |-> "load", sol |-> r, aprovar |-> aprovar, loaded |-> 0]]
    /\ UNCHANGED <<requests, log, projected, applied, docs, failed>>

(* The aggregate is rebuilt from the ledger; its status is not looked at    *)
(* before the datum has been changed.                                       *)
Load(d) ==
    /\ decider[d].pc = "load"
    /\ decider' = [decider EXCEPT ![d].loaded = Len(log),
                                  ![d].pc = IF decider[d].aprovar THEN "apply" ELSE "decide"]
    /\ UNCHANGED <<requests, log, projected, applied, docs, failed>>

(* aplicarEdicaoAprovada, aplicarAlteracaoNIFAprovada: the value is saved   *)
(* in the stream of the student or the academy, or the handler answers.     *)
WrongAplicar(d) ==   \* fault: an error here does not end the request
    /\ \/ Works /\ applied' = applied \cup {decider[d].sol}
       \/ Fails("apply") /\ UNCHANGED applied
    /\ decider' = [decider EXCEPT ![d].pc = "decide"]

AplicarOuFalhar(d) ==
    \/ /\ Works /\ applied' = applied \cup {decider[d].sol}
       /\ decider' = [decider EXCEPT ![d].pc = "decide"]
    \/ /\ Fails("apply") /\ UNCHANGED applied
       /\ decider' = [decider EXCEPT ![d] = Idle]

Aplicar(d) ==
    /\ decider[d].pc = "apply"
    /\ AplicarOuFalhar(d)
    /\ UNCHANGED <<requests, log, projected, docs>>

(* Aprovar and Reprovar of the aggregate refuse a decided request. *)
WrongPodeDecidir(d) == TRUE
PodeDecidir(d) == Status(decider[d].loaded, decider[d].sol) = "pendente"

WrongAnswer(d) == [decider EXCEPT ![d].pc = "delete"]   \* fault: no return after the error
Answer(d) == [decider EXCEPT ![d] = Idle]

Verdict(d) == IF decider[d].aprovar THEN "Aprovada" ELSE "Reprovada"

AppendVerdict(d) ==
    log' = Append(log, Event(Verdict(d), decider[d].sol, decider[d].loaded))

(* Then SaveWithAudit, which appends to the stream whatever is in it now. *)
Decide(d) ==
    /\ decider[d].pc = "decide"
    /\ \/ /\ PodeDecidir(d) /\ Works /\ AppendVerdict(d)
          /\ decider' = [decider EXCEPT ![d].pc = "releaseKey"]
       \/ /\ PodeDecidir(d) /\ Fails("reply") /\ AppendVerdict(d)
          /\ decider' = Answer(d)
       \/ /\ PodeDecidir(d) /\ Fails("save") /\ UNCHANGED log
          /\ decider' = Answer(d)
       \/ /\ ~PodeDecidir(d) /\ Works /\ UNCHANGED log
          /\ decider' = Answer(d)
    /\ UNCHANGED <<requests, projected, applied, docs>>

WrongReleased(s) == IF s = "reserved" THEN "released" ELSE s   \* fault
Released(s) == IF s \in Active THEN "released" ELSE s

(* Every active row of the key; an error is ignored. *)
ReleaseKey(d) ==
    /\ decider[d].pc = "releaseKey"
    /\ \/ Works /\ guard' = [r \in Requests |-> Released(guard[r])]
       \/ Fails("release") /\ UNCHANGED guard
    /\ decider' = [decider EXCEPT ![d].pc = "delete"]
    /\ UNCHANGED <<creator, log, projected, applied, docs>>

DeleteDocument(d) ==
    /\ decider[d].pc = "delete"
    /\ \/ Works /\ docs' = docs \ {decider[d].sol}
       \/ Fails("delete") /\ UNCHANGED docs
    /\ decider' = [decider EXCEPT ![d] = Idle]
    /\ UNCHANGED <<requests, log, projected, applied>>

-----------------------------------------------------------------------------
(* The read model has a partial unique index on its pending rows: an event  *)
(* Criada that would make a second one fails, now and whenever it is tried. *)
WrongProjectable == projected <= Len(log)   \* fault: past the end of the ledger

Projectable ==
    /\ projected < Len(log)
    /\ log[projected + 1].type = "Criada" =>
          \A r \in Requests : Status(projected, r) # "pendente"

Project ==
    /\ Projectable
    /\ projected' = projected + 1
    /\ UNCHANGED <<requests, decider, log, applied, docs, failed>>

(* Every handler is gone; the tables and the storage are as they are. *)
Crash ==
    /\ Fails("crash")
    /\ creator' = [r \in Requests |-> IF creator[r] = "new" THEN "new" ELSE "over"]
    /\ decider' = [d \in Deciders |-> Idle]
    /\ UNCHANGED <<guard, log, projected, applied, docs>>

Init ==
    /\ guard = [r \in Requests |-> "none"]
    /\ creator = [r \in Requests |-> "new"]
    /\ decider = [d \in Deciders |-> Idle]
    /\ log = <<>> /\ projected = 0
    /\ applied = {} /\ docs = {}
    /\ failed = {}

Post(r) ==
    Reserve(r) \/ ExistePendente(r) \/ Upload(r) \/ SaveRequest(r) \/ Consume(r) \/ Release(r)

Decision(d) ==
    GetByCodigo(d) \/ Load(d) \/ Aplicar(d) \/ Decide(d) \/ ReleaseKey(d) \/ DeleteDocument(d)

Next ==
    \/ \E r \in Requests : Post(r)
    \/ \E d \in Deciders : Decision(d)
    \/ Project \/ Crash

Spec == Init /\ [][Next]_vars

-----------------------------------------------------------------------------
TypeOK ==
    /\ guard \in [Requests -> {"none", "reserved", "consumed", "released", "expired"}]
    /\ creator \in [Requests -> {"new", "check", "upload", "save", "consume", "release", "over"}]
    /\ \A d \in Deciders : decider[d].pc \in {"idle", "load", "apply", "decide", "releaseKey", "delete"}
    /\ log \in Seq([type : {"Criada"} \cup Decided, sol : Requests, basis : Nat])
    /\ projected \in 0..Len(log)
    /\ applied \subseteq Requests /\ docs \subseteq Requests
    /\ failed \subseteq Kinds

Pending == {r \in Requests : Status(Len(log), r) = "pendente"}

DecidedTwice ==
    \E i, j \in DOMAIN log :
        i < j /\ log[i].type \in Decided /\ log[j].type \in Decided /\ log[i].sol = log[j].sol

(* "Não permitir mais de uma solicitação pendente" (tasks 13 and 14), in    *)
(* the ledger, not in a read model: a second one never gets past the read   *)
(* model's index, and nothing behind it is projected again.  It takes two   *)
(* decisions of one request, a restart, or the lost answer to a save or a   *)
(* Consume to break it: then a guard is freed that covers another request.  *)
AtMostOnePending ==
    (failed \cap {"crash", "reply", "consume"} = {} /\ ~DecidedTwice)
        => Cardinality(Pending) <= 1

(* "Solicitação aprovada ou reprovada não pode ser aprovada/reprovada       *)
(* novamente" (task 13, 3.3): only a decision that had loaded the request   *)
(* before the first one was in the ledger is recorded as a second.          *)
DecidedOnce ==
    \A i, j \in DOMAIN log :
        (i < j /\ log[i].type \in Decided /\ log[j].type \in Decided /\ log[i].sol = log[j].sol)
            => log[j].basis < i

(* The datum is changed "ANTES de marcar a solicitação como aprovada": an   *)
(* approval in the ledger is never a promise that was not kept, whatever    *)
(* call failed and wherever the server stopped.                             *)
ApprovedIsApplied ==
    \A r \in Requests : Happened("Aprovada", r) => r \in applied

(* Who decides a pending request still has the document it is based on,     *)
(* unless the answer to the save of the request was lost.                   *)
PendingHasDocument == "reply" \notin failed => Pending \subseteq docs

(* After a decision the key is free for the next request (task 14, test 4): *)
(* a guard outlives its request only while some handler is about to free it *)
(* ("não deixa bloqueios órfãos permanentes"), unless the server or the     *)
(* release failed after the decision was saved.                             *)
DecidedFreesTheKey ==
    failed \cap {"crash", "reply", "release"} = {} =>
        \A r \in Requests :
            (guard[r] = "consumed" /\ Status(Len(log), r) = "decided")
                => \E d \in Deciders : decider[d].pc = "releaseKey"

(* "Reprovado: nenhum dado da Academia é tocado" (the handler's comment):   *)
(* a request that ends rejected has not changed the datum.                  *)
RejectedLeavesData ==
    \A r \in Requests :
        (Happened("Reprovada", r) /\ ~Happened("Aprovada", r)) => r \notin applied
=============================================================================
