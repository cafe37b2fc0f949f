------------------------------- MODULE Ledger -------------------------------
(***************************************************************************)
(* The event store of Spuri: the append-only table spuri_ledger, its hash  *)
(* trigger, and the repository every command of the backend writes with    *)
(* (internal/db/repository.go, internal/db/event_store.go).                *)
(*                                                                         *)
(* A writer is one request goroutine: it loads an aggregate (or makes a    *)
(* new one), decides a batch of events, and saves the batch with a bounded *)
(* number of attempts.  Each attempt is one SERIALIZABLE transaction over  *)
(* a snapshot.  The transactions of several writers interleave at the      *)
(* granularity of SQL statements, so the id a row gets from the BIGSERIAL  *)
(* sequence says when it was inserted, not when it was committed.          *)
(***************************************************************************)
EXTENDS Integers, FiniteSets

CONSTANTS
    Writers,      \* request goroutines
    Aggregates,   \* aggregate ids
    MaxAttempts,  \* attempts of one SaveWithAudit (10 in the code)
    MaxBatch,     \* bound: events raised by one command
    MaxCommands,  \* bound: commands handled by one writer
    Spurious      \* writers that PostgreSQL may abort (40001) with no key in conflict

ASSUME LedgerAssumption ==
    /\ MaxAttempts \in Nat \ {0}
    /\ MaxBatch \in Nat \ {0}
    /\ MaxCommands \in Nat
    /\ Spurious \subseteq Writers

VARIABLES
    ledger,    \* the committed rows of spuri_ledger
    seq,       \* last value handed out by the BIGSERIAL sequence
    pc,        \* what each writer is doing
    target,    \* the aggregate each writer works on
    seen,      \* length of the stream its decision was based on (0: new)
    size,      \* uncommitted events of its aggregate
    attempt,   \* transactions begun for the command in hand
    handled,   \* commands each writer has begun (a bound, and an identity)
    snap,      \* rows visible to its open transaction
    own        \* rows its open transaction inserted

vars == <<ledger, seq, pc, target, seen, size, attempt, handled, snap, own>>
command == <<target, seen, size>>

NoHash == <<>>

(* sha256 over the event's content and the previous hash.  event_id is a   *)
(* fresh UUID per insert, as id is a fresh number, so one stands for both.  *)
Hash(id, agg, prev) == <<id, agg, prev>>

Stream(rows, a) == {r \in rows : r.agg = a}

(* COALESCE(MAX(event_version), 0) of one aggregate *)
Version(rows, a) ==
    IF Stream(rows, a) = {} THEN 0
    ELSE (CHOOSE r \in Stream(rows, a) :
             \A s \in Stream(rows, a) : s.ver <= r.ver).ver

(* ledger_hash of the row with the highest event_version, NULL if none *)
LatestHash(rows, a) ==
    IF Stream(rows, a) = {} THEN NoHash
    ELSE (CHOOSE r \in Stream(rows, a) :
             \A s \in Stream(rows, a) : s.ver <= r.ver).hash

Visible(w) == snap[w] \cup own[w]

(* What a verification of one aggregate's stream accepts. *)
VerifyHashChain(rows, a) ==
    /\ \A r, s \in Stream(rows, a) : r.ver = s.ver => r = s
    /\ \A r \in Stream(rows, a) :
          /\ r.ver \in Nat \ {0}
          /\ r.hash = Hash(r.id, r.agg, r.prev)
          /\ r.ver = 1 => r.prev = NoHash
          /\ r.ver > 1 =>
                \E s \in Stream(rows, a) : s.ver = r.ver - 1 /\ s.hash = r.prev

-----------------------------------------------------------------------------
(* The statements of one writer *)

(* Faults the properties are tried against are named Wrong...: this one     *)
(* trusts the version the command loaded instead of reading it again, the   *)
(* next two forget that versions start at 1 and that the index is unique.   *)
WrongNextVersionLoaded(w) == seen[w] + Cardinality(own[w]) + 1
WrongNextVersionZero(w) == Version(snap[w], target[w]) + Cardinality(own[w])
WrongNoIndex(w) == FALSE

NextVersion(w) == Version(snap[w], target[w]) + Cardinality(own[w]) + 1

Key(r) == <<r.agg, r.ver>>
NextKey(w) == <<target[w], NextVersion(w)>>

KeyCommitted(w) == \E r \in ledger : Key(r) = NextKey(w)
KeyLocked(w) == \E v \in Writers \ {w} : \E r \in own[v] : Key(r) = NextKey(w)

(* One command: who raised it, its number, and how it was decided. *)
Command(w) == [by |-> w, n |-> handled[w], size |-> size[w],
               seen |-> seen[w], attempt |-> attempt[w]]

(* Faults: the hash of a batch's rows all chained to the snapshot; an id    *)
(* counted from the rows instead of drawn from the sequence.                *)
WrongRowChain(w) ==
    LET prev == LatestHash(snap[w], target[w])
    IN  [id |-> seq + 1, agg |-> target[w], ver |-> NextVersion(w),
         prev |-> prev, hash |-> Hash(seq + 1, target[w], prev),
         cmd |-> Command(w)]
WrongRowId(w) ==
    LET prev == LatestHash(Visible(w), target[w])
        id == Cardinality(Visible(w)) + 1
    IN  [id |-> id, agg |-> target[w], ver |-> NextVersion(w),
         prev |-> prev, hash |-> Hash(id, target[w], prev),
         cmd |-> Command(w)]

NewRow(w) ==
    LET prev == LatestHash(Visible(w), target[w])
    IN  [id |-> seq + 1, agg |-> target[w], ver |-> NextVersion(w),
         prev |-> prev, hash |-> Hash(seq + 1, target[w], prev),
         cmd |-> Command(w)]

Init ==
    /\ ledger = {}
    /\ seq = 0
    /\ pc = [w \in Writers |-> "idle"]
    /\ target \in [Writers -> Aggregates]
    /\ seen = [w \in Writers |-> 0]
    /\ size = [w \in Writers |-> 0]
    /\ attempt = [w \in Writers |-> 0]
    /\ handled = [w \in Writers |-> 0]
    /\ snap = [w \in Writers |-> {}]
    /\ own = [w \in Writers |-> {}]

(* A request reads the stream of an existing aggregate; an empty stream is *)
(* "agregado não encontrado" and the request ends where it began.          *)
Load(w, a) ==
    /\ pc[w] = "idle" /\ handled[w] < MaxCommands
    /\ Stream(ledger, a) # {}
    /\ pc' = [pc EXCEPT ![w] = "loaded"]
    /\ target' = [target EXCEPT ![w] = a]
    /\ seen' = [seen EXCEPT ![w] = Version(ledger, a)]
    /\ handled' = [handled EXCEPT ![w] = @ + 1]
    /\ UNCHANGED <<ledger, seq, size, attempt, snap, own>>

(* A constructor makes the aggregate in memory, nothing is loaded: a new    *)
(* UUID, or the fixed stream id of a finance record that already has rows.  *)
Construct(w, a) ==
    /\ pc[w] = "idle" /\ handled[w] < MaxCommands
    /\ pc' = [pc EXCEPT ![w] = "loaded"]
    /\ target' = [target EXCEPT ![w] = a]
    /\ seen' = [seen EXCEPT ![w] = 0]
    /\ handled' = [handled EXCEPT ![w] = @ + 1]
    /\ UNCHANGED <<ledger, seq, size, attempt, snap, own>>

(* The command raises a batch of events on the aggregate in memory. *)
RaiseEvents(w) ==
    /\ pc[w] = "loaded"
    /\ \E n \in 1..MaxBatch : size' = [size EXCEPT ![w] = n]
    /\ pc' = [pc EXCEPT ![w] = "save"]
    /\ attempt' = [attempt EXCEPT ![w] = 0]
    /\ UNCHANGED <<ledger, seq, target, seen, handled, snap, own>>

(* One attempt begins: the first statement, the read of MAX(event_version), *)
(* fixes the snapshot of the transaction.                                   *)
Begin(w) ==
    /\ pc[w] = "save"
    /\ pc' = [pc EXCEPT ![w] = "tx"]
    /\ attempt' = [attempt EXCEPT ![w] = @ + 1]
    /\ snap' = [snap EXCEPT ![w] = ledger]
    /\ UNCHANGED <<ledger, seq, handled, own, command>>

(* Fault: the transaction of a failed attempt is left open. *)
WrongLeftOpen(w) ==
    /\ snap' = [snap EXCEPT ![w] = {}]
    /\ UNCHANGED own

Rollback(w) ==
    /\ snap' = [snap EXCEPT ![w] = {}]
    /\ own' = [own EXCEPT ![w] = {}]

(* AppendTx of the next event.  The trigger chains it to the latest row the *)
(* transaction sees.  A row another open transaction holds under the same   *)
(* (aggregate_id, event_version) makes the statement wait.                  *)
Insert(w) ==
    /\ pc[w] = "tx" /\ Cardinality(own[w]) < size[w]
    /\ ~KeyCommitted(w) /\ ~KeyLocked(w)
    /\ own' = [own EXCEPT ![w] = @ \cup {NewRow(w)}]
    /\ seq' = seq + 1
    /\ UNCHANGED <<ledger, pc, attempt, handled, snap, command>>

(* What SaveWithAudit does with an error it may retry. *)
AfterConflict(w) ==
    IF attempt[w] < MaxAttempts THEN "save" ELSE "failed"

(* 23505 on (aggregate_id, event_version): the id drawn for it is lost. *)
VersionConflict(w) ==
    /\ pc[w] = "tx" /\ Cardinality(own[w]) < size[w]
    /\ KeyCommitted(w)
    /\ Rollback(w)
    /\ seq' = seq + 1
    /\ pc' = [pc EXCEPT ![w] = AfterConflict(w)]
    /\ UNCHANGED <<ledger, attempt, handled, command>>

(* 40001: some transaction committed since the snapshot was taken.  The    *)
(* predicate locks are coarse: it need not be one on the same aggregate.   *)
SerializationFailure(w) ==
    /\ w \in Spurious
    /\ pc[w] = "tx" /\ snap[w] # ledger
    /\ Rollback(w)
    /\ pc' = [pc EXCEPT ![w] = AfterConflict(w)]
    /\ UNCHANGED <<ledger, seq, attempt, handled, command>>

(* The connection is lost before COMMIT: no retry, nothing was written. *)
ConnectionLost(w) ==
    /\ pc[w] = "tx"
    /\ Rollback(w)
    /\ pc' = [pc EXCEPT ![w] = "failed"]
    /\ UNCHANGED <<ledger, seq, attempt, handled, command>>

CommitRows(w) ==
    /\ pc[w] = "tx" /\ Cardinality(own[w]) = size[w]
    /\ ledger' = ledger \cup own[w]
    /\ Rollback(w)
    /\ UNCHANGED <<seq, attempt, handled, command>>

Commit(w) ==
    /\ CommitRows(w)
    /\ pc' = [pc EXCEPT ![w] = "saved"]

(* How SaveWithAudit classifies an error of COMMIT that is neither 40001    *)
(* nor a version conflict: it gives up.                                     *)
WrongRetryAnyway(w) == AfterConflict(w)

AfterLostReply(w) == "failed"

(* COMMIT took effect and its answer was lost: the caller sees an error. *)
CommitReplyLost(w) ==
    /\ CommitRows(w)
    /\ pc' = [pc EXCEPT ![w] = AfterLostReply(w)]

(* The goroutine of a request ends, and its aggregate in memory with it. *)
EndRequest(w) ==
    /\ pc' = [pc EXCEPT ![w] = "idle"]
    /\ seen' = [seen EXCEPT ![w] = 0]
    /\ size' = [size EXCEPT ![w] = 0]
    /\ attempt' = [attempt EXCEPT ![w] = 0]
    /\ UNCHANGED <<ledger, seq, target, handled, snap, own>>

(* The handler answers the client. *)
Respond(w) == pc[w] \in {"saved", "failed"} /\ EndRequest(w)

(* The command is refused by the aggregate: nothing is saved. *)
Refuse(w) == pc[w] = "loaded" /\ EndRequest(w)

(* The server dies: every request is gone, every open transaction undone. *)
Crash ==
    /\ \E w \in Writers : pc[w] # "idle"
    /\ pc' = [w \in Writers |-> "idle"]
    /\ seen' = [w \in Writers |-> 0]
    /\ size' = [w \in Writers |-> 0]
    /\ attempt' = [w \in Writers |-> 0]
    /\ snap' = [w \in Writers |-> {}]
    /\ own' = [w \in Writers |-> {}]
    /\ UNCHANGED <<ledger, seq, target, handled>>

Save(w) ==
    \/ Begin(w) \/ Insert(w) \/ Commit(w)
    \/ VersionConflict(w) \/ SerializationFailure(w)
    \/ ConnectionLost(w) \/ CommitReplyLost(w)

Step(w) ==
    \/ \E a \in Aggregates : Load(w, a) \/ Construct(w, a)
    \/ RaiseEvents(w) \/ Refuse(w) \/ Save(w) \/ Respond(w)

Next == (\E w \in Writers : Step(w)) \/ Crash

Spec == Init /\ [][Next]_vars

(* A goroutine inside SaveWithAudit keeps running and PostgreSQL answers    *)
(* it, unless its statement waits for a row another transaction holds.      *)
Progress(w) ==
    Begin(w) \/ Insert(w) \/ VersionConflict(w) \/ Commit(w) \/ CommitReplyLost(w)

FairSpec == Spec /\ \A w \in Writers : WF_vars(Progress(w))

-----------------------------------------------------------------------------
Commands == [by : Writers, n : Nat, size : Nat, seen : Nat, attempt : Nat]

RowOK(r) ==
    /\ r.id \in Nat
    /\ r.agg \in Aggregates
    /\ r.ver \in Nat \ {0}
    /\ r.cmd \in Commands

TypeOK ==
    /\ \A r \in ledger : RowOK(r)
    /\ seq \in Nat
    /\ pc \in [Writers -> {"idle", "loaded", "save", "tx", "saved", "failed"}]
    /\ target \in [Writers -> Aggregates]
    /\ seen \in [Writers -> Nat]
    /\ size \in [Writers -> Nat]
    /\ attempt \in [Writers -> Nat]
    /\ handled \in [Writers -> Nat]
    /\ \A w \in Writers : snap[w] \subseteq ledger
    /\ \A w \in Writers : \A r \in own[w] : RowOK(r)
    /\ DOMAIN snap = Writers /\ DOMAIN own = Writers

(* Whatever the interleaving of transactions, conflicts, lost connections   *)
(* and crashes, verify_hash_chain accepts every stream: versions start at 1 *)
(* without gap or duplicate, and each row is chained to the one before it.  *)
LedgerVerifies == \A a \in Aggregates : VerifyHashChain(ledger, a)

(* The inductive invariant behind LedgerVerifies.  ChainTo(rows, a, n): the *)
(* stream of a within rows is a chain of exactly n rows.                    *)
ChainTo(rows, a, n) ==
    /\ \A r, s \in Stream(rows, a) : r.ver = s.ver => r = s
    /\ \A v \in 1..n : \E r \in Stream(rows, a) : r.ver = v
    /\ \A r \in Stream(rows, a) :
          /\ r.ver \in 1..n
          /\ r.hash = Hash(r.id, r.agg, r.prev)
          /\ r.ver = 1 => r.prev = NoHash
          /\ r.ver > 1 =>
                \E s \in Stream(rows, a) : s.ver = r.ver - 1 /\ s.hash = r.prev

Chained(rows, a) ==
    /\ Version(rows, a) \in Nat
    /\ ChainTo(rows, a, Version(rows, a))

(* The rows a transaction inserted continue the stream of its snapshot. *)
OwnContinuesSnapshot(w) ==
    LET a == target[w]  n == Version(snap[w], a)
    IN  /\ Chained(snap[w], a)
        /\ ChainTo(Visible(w), a, n + Cardinality(own[w]))
        /\ \A r \in own[w] : r.agg = a /\ r.ver > n

(* No row waiting for its COMMIT has the key of another row. *)
KeysDisjoint ==
    \A w \in Writers : \A r \in own[w] :
        /\ \A s \in ledger : Key(s) # Key(r)
        /\ \A v \in Writers \ {w} : \A s \in own[v] : Key(s) # Key(r)

(* What every transaction knows of the ledger, at any point of its life:    *)
(* committed streams are chains, its own rows continue the chain it read,   *)
(* and the unique index keeps those rows its own until it commits.          *)
ChainInvariant ==
    /\ TypeOK
    /\ \A a \in Aggregates : Chained(ledger, a)
    /\ \A w \in Writers : IsFiniteSet(own[w])
    /\ \A w \in Writers : pc[w] = "tx" => OwnContinuesSnapshot(w)
    /\ \A w \in Writers : pc[w] # "tx" => own[w] = {}
    /\ KeysDisjoint

(* A row that becomes visible has a greater id than every visible row of    *)
(* its own aggregate: a reader that follows ids never meets the events of   *)
(* one aggregate out of version order.  (Across aggregates this is false.)  *)
StreamsGrowInIdOrder ==
    [][\A r \in ledger' \ ledger : \A s \in ledger :
          s.agg = r.agg => s.id < r.id]_ledger

(* Every failed attempt has a winner: where only real version conflicts     *)
(* make attempts fail, a command that is at its n-th attempt was overtaken  *)
(* by n - 1 distinct commands of other writers on the same aggregate.  This *)
(* is the argument for MaxAttempts in the code ("até N-1 retentativas").    *)
Winners(w) ==
    {r.cmd : r \in {s \in ledger : s.agg = target[w] /\ s.cmd.by # w}}

EveryConflictHasAWinner ==
    \A w \in Writers \ Spurious :
        pc[w] \in {"save", "tx"} => attempt[w] <= Cardinality(Winners(w)) + 1

(* SaveWithAudit always returns, with success or with an error: no attempt  *)
(* waits for ever on a row of another, and the attempts are bounded.        *)
SaveReturns == \A w \in Writers : pc[w] = "save" ~> pc[w] \in {"saved", "failed", "idle"}

BatchOf(r) == {s \in ledger : s.cmd.by = r.cmd.by /\ s.cmd.n = r.cmd.n}

(* internal/utils/errors.go:375 says a serialization failure is "safe to   *)
(* retry only after rebuilding the aggregate from the latest event stream": *)
(* a batch saved by a retry was decided on the stream it is appended to.    *)
RetriesRebuildTheAggregate ==
    \A r \in ledger :
        (r.cmd.attempt > 1 /\ r.cmd.seen > 0 /\ \A s \in BatchOf(r) : r.ver <= s.ver)
            => r.cmd.seen = r.ver - 1
=============================================================================
