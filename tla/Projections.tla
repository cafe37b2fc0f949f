---------------------------- MODULE Projections ----------------------------
(***************************************************************************)
(* The projection manager (internal/projections/manager.go): one goroutine *)
(* that polls the ledger and brings every read model up to date from its   *)
(* checkpoint, and the rebuild of read models from the whole ledger, which *)
(* runs in a request goroutine beside it.                                  *)
(*                                                                         *)
(* The ledger is seen through IdFeed: ids become visible at commit.  A     *)
(* read model is reduced to how often each event was applied to it since   *)
(* it was last cleared, which is what a counter in it shows.               *)
(***************************************************************************)
EXTENDS IdFeed, Sequences, FiniteSets, FiniteSetsExt, SequencesExt

CONSTANTS
    Plain,           \* projections with Handle, then a checkpoint
    Transactional,   \* projections with HandleTx: both in one transaction
    BatchSize,       \* LIMIT of one fetch (100 in the code)
    MaxEvents,       \* bound: ids handed out
    MaxCrashes,      \* bound: restarts of the server
    MaxRebuilds,     \* bound: rebuilds requested
    OutOfOrder       \* may a later id commit before an earlier one?

All == Plain \cup Transactional

ASSUME ProjectionsAssumption ==
    /\ Plain \cap Transactional = {}
    /\ IsFiniteSet(All) /\ All # {}
    /\ BatchSize \in Nat \ {0}
    /\ {MaxEvents, MaxCrashes, MaxRebuilds} \subseteq Nat
    /\ OutOfOrder \in BOOLEAN

VARIABLES
    owed,        \* committed writers that have not yet called the hook
    wake,        \* the wake channel, capacity 1
    silent,      \* history: committed ids no hook was called for
    checkpoint,  \* last_processed_event_id of each projection
    applied,     \* times each event was applied to each read model
    mgr,         \* the manager goroutine
    rb,          \* the rebuild goroutine
    crashes, rebuilds

write == <<owed, wake, silent>>
budget == <<crashes, rebuilds>>
vars == <<feed, write, checkpoint, applied, mgr, rb, budget>>

Ids == 1..MaxEvents

-----------------------------------------------------------------------------
(* Writers *)

AppendEvent ==
    /\ last < MaxEvents /\ Assign
    /\ UNCHANGED <<write, checkpoint, applied, mgr, rb, budget>>

MayCommit(i) == OutOfOrder \/ \A j \in inflight : i <= j

(* COMMIT, after which Save calls notifyLedgerWritten. *)
CommitEvent ==
    /\ \E i \in inflight : MayCommit(i) /\ Publish({i})
    /\ owed' = owed + 1
    /\ UNCHANGED <<wake, silent, checkpoint, applied, mgr, rb, budget>>

(* The hook is skipped when Save sees an error instead of its COMMIT. *)
CommitReplyLost ==
    /\ \E i \in inflight :
          MayCommit(i) /\ Publish({i}) /\ silent' = silent \cup {i}
    /\ UNCHANGED <<owed, wake, checkpoint, applied, mgr, rb, budget>>

(* Fault the properties are tried against (they are named Wrong...): a      *)
(* channel without capacity, where only a waiting manager is signalled.     *)
WrongUnbufferedWake ==
    /\ owed > 0
    /\ owed' = owed - 1
    /\ wake' = (wake \/ mgr.pc = "sleep")
    /\ UNCHANGED <<feed, silent, checkpoint, applied, mgr, rb, budget>>

(* Manager.Wake: a non-blocking send on a channel of capacity 1. *)
Wake ==
    /\ owed > 0
    /\ owed' = owed - 1
    /\ wake' = TRUE
    /\ UNCHANGED <<feed, silent, checkpoint, applied, mgr, rb, budget>>

-----------------------------------------------------------------------------
(* The manager goroutine.  pc: "pick" a projection of the cycle, "fetch"    *)
(* its events, "handle" the first one, store its "checkpoint", or "sleep".  *)
(* unread: projections whose checkpoint or events this cycle could not read *)
(* (history: no line of the code remembers it).                             *)

NoProjection == "-"

StartOfCycle ==
    [pc |-> "pick", todo |-> All, cur |-> NoProjection, from |-> 0,
     batch |-> {}, processed |-> FALSE, slow |-> FALSE, unread |-> {}]

PickProjection ==
    /\ mgr.pc = "pick" /\ mgr.todo # {}
    /\ \E p \in mgr.todo :
          mgr' = [mgr EXCEPT !.pc = "fetch", !.cur = p, !.todo = @ \ {p},
                             !.from = checkpoint[p]]
    /\ UNCHANGED <<feed, write, checkpoint, applied, rb, budget>>

NextProjection(m) == [m EXCEPT !.pc = "pick", !.cur = NoProjection,
                               !.from = 0, !.batch = {}]

(* WHERE id > from ORDER BY id LIMIT BatchSize *)
NewEvents(from) ==
    LET new == {i \in visible : i > from}
    IN  {i \in new : Cardinality({j \in new : j < i}) < BatchSize}

FetchEvents ==
    /\ mgr.pc = "fetch"
    /\ LET events == NewEvents(mgr.from)
       IN  mgr' = IF events = {} THEN NextProjection(mgr)
                  ELSE [mgr EXCEPT !.pc = "handle", !.batch = events]
    /\ UNCHANGED <<feed, write, checkpoint, applied, rb, budget>>

(* The checkpoint or the events cannot be read: the next projection's turn, *)
(* and nothing counts as processed.                                         *)
ReadFails ==
    /\ mgr.pc = "fetch"
    /\ mgr' = [NextProjection(mgr) EXCEPT !.unread = @ \cup {mgr.cur}]
    /\ UNCHANGED <<feed, write, checkpoint, applied, rb, budget>>

(* One more application of an event; "more than once" is not told apart.    *)
Apply(p, i) == applied' = [applied EXCEPT ![p][i] = IF @ < 2 THEN @ + 1 ELSE @]

(* Past one event: the rest of the batch, or this projection is done. *)
AfterEvent(m) ==
    LET rest == m.batch \ {Min(m.batch)}
    IN  IF rest = {} THEN [NextProjection(m) EXCEPT !.processed = TRUE]
        ELSE [m EXCEPT !.pc = "handle", !.batch = rest]

(* Fault: the checkpoint is stored after the transaction, not in it. *)
WrongHandleTx ==
    /\ mgr.pc = "handle" /\ mgr.cur \in Transactional
    /\ Apply(mgr.cur, Min(mgr.batch))
    /\ mgr' = [mgr EXCEPT !.pc = "checkpoint"]
    /\ UNCHANGED <<feed, write, checkpoint, rb, budget>>

HandleTx ==
    /\ mgr.pc = "handle" /\ mgr.cur \in Transactional
    /\ Apply(mgr.cur, Min(mgr.batch))
    /\ checkpoint' = [checkpoint EXCEPT ![mgr.cur] = Min(mgr.batch)]
    /\ mgr' = AfterEvent(mgr)
    /\ UNCHANGED <<feed, write, rb, budget>>

Handle ==
    /\ mgr.pc = "handle" /\ mgr.cur \in Plain
    /\ Apply(mgr.cur, Min(mgr.batch))
    /\ mgr' = [mgr EXCEPT !.pc = "checkpoint"]
    /\ UNCHANGED <<feed, write, checkpoint, rb, budget>>

CommitCheckpoint ==
    /\ mgr.pc = "checkpoint"
    /\ checkpoint' = [checkpoint EXCEPT ![mgr.cur] = Min(mgr.batch)]
    /\ mgr' = AfterEvent(mgr)
    /\ UNCHANGED <<feed, write, applied, rb, budget>>

(* An error of UpdateCheckpoint is only logged. *)
CheckpointFails ==
    /\ mgr.pc = "checkpoint"
    /\ mgr' = AfterEvent(mgr)
    /\ UNCHANGED <<feed, write, checkpoint, applied, rb, budget>>

(* Fault: an event that failed its retries is passed over. *)
WrongSkipFailed(m) == AfterEvent(m)

(* Past an event that failed its retries: this projection stops there. *)
AfterFailure(m) == [NextProjection(m) EXCEPT !.processed = TRUE]

HandleFails ==
    /\ mgr.pc = "handle"
    /\ mgr' = AfterFailure(mgr)
    /\ UNCHANGED <<feed, write, checkpoint, applied, rb, budget>>

(* The cycle is over: a short timer after work, a long one otherwise. *)
Sleep ==
    /\ mgr.pc = "pick" /\ mgr.todo = {}
    /\ mgr' = [StartOfCycle EXCEPT !.pc = "sleep", !.todo = {},
                                   !.slow = ~mgr.processed,
                                   !.unread = IF mgr.processed THEN {} ELSE mgr.unread]
    /\ UNCHANGED <<feed, write, checkpoint, applied, rb, budget>>

Timer ==
    /\ mgr.pc = "sleep"
    /\ mgr' = StartOfCycle
    /\ UNCHANGED <<feed, write, checkpoint, applied, rb, budget>>

WokenUp ==
    /\ mgr.pc = "sleep" /\ wake
    /\ wake' = FALSE
    /\ mgr' = StartOfCycle
    /\ UNCHANGED <<feed, owed, silent, checkpoint, applied, rb, budget>>

-----------------------------------------------------------------------------
(* The rebuild goroutine.  queue: projections to rebuild, verify: does      *)
(* executeRebuild check the ledger itself (rebuild of a single projection)? *)
(* rows: what is left to replay of the ids it queried.                      *)

NoRebuild == [pc |-> "none", queue |-> <<>>, verify |-> FALSE,
              rows |-> {}, asked |-> {}, max |-> 0]

Cur == Head(rb.queue)

(* beginRebuild admits one rebuild; "rebuild já em andamento" otherwise. *)
BeginRebuild ==
    /\ rb.pc = "none" /\ rebuilds < MaxRebuilds
    /\ rebuilds' = rebuilds + 1
    /\ \/ \E p \in All :
             rb' = [NoRebuild EXCEPT !.pc = "start", !.queue = <<p>>, !.verify = TRUE]
       \/ \E order \in SetToSeqs(All) :
             rb' = [NoRebuild EXCEPT !.pc = "verifyAll", !.queue = order]
    /\ UNCHANGED <<feed, write, checkpoint, applied, mgr, crashes>>

(* RebuildAll verifies the ledger once, before it touches any projection. *)
VerifyAll ==
    /\ rb.pc = "verifyAll"
    /\ \/ rb' = [rb EXCEPT !.pc = "start"]
       \/ rb' = NoRebuild
    /\ UNCHANGED <<feed, write, checkpoint, applied, mgr, budget>>

StartCheckpoint(p) == [checkpoint EXCEPT ![p] = 0]

MarkRebuildStart ==
    /\ rb.pc = "start"
    /\ checkpoint' = StartCheckpoint(Cur)
    /\ rb' = [rb EXCEPT !.pc = IF rb.verify THEN "verify" ELSE "clear"]
    /\ UNCHANGED <<feed, write, applied, mgr, budget>>

(* A ledger that cannot be verified ends the rebuild: markRebuildFailed     *)
(* leaves the checkpoint where markRebuildStart put it.                     *)
VerifyLedger ==
    /\ rb.pc = "verify"
    /\ \/ rb' = [rb EXCEPT !.pc = "clear"]
       \/ rb' = NoRebuild
    /\ UNCHANGED <<feed, write, checkpoint, applied, mgr, budget>>

Clear ==
    /\ rb.pc = "clear"
    /\ applied' = [applied EXCEPT ![Cur] = [i \in Ids |-> 0]]
    /\ rb' = [rb EXCEPT !.pc = "query"]
    /\ UNCHANGED <<feed, write, checkpoint, mgr, budget>>

QueryLedger ==
    /\ rb.pc = "query"
    /\ rb' = [rb EXCEPT !.pc = "replay", !.rows = visible, !.asked = visible]
    /\ UNCHANGED <<feed, write, checkpoint, applied, mgr, budget>>

WrongAfterError(r) == [r EXCEPT !.rows = @ \ {Min(@)}]   \* fault: on with the next event

(* A handler that fails ends the rebuild (markRebuildFailed). *)
AfterError(r) == NoRebuild

Replay ==
    /\ rb.pc = "replay" /\ rb.rows # {}
    /\ \/ /\ Apply(Cur, Min(rb.rows))
          /\ rb' = [rb EXCEPT !.rows = @ \ {Min(@)}]
       \/ rb' = AfterError(rb) /\ UNCHANGED applied
    /\ UNCHANGED <<feed, write, checkpoint, mgr, budget>>

ReadMaxId ==
    /\ rb.pc = "replay" /\ rb.rows = {}
    /\ rb' = [rb EXCEPT !.pc = "complete", !.max = Max({0} \cup visible)]
    /\ UNCHANGED <<feed, write, checkpoint, applied, mgr, budget>>

(* markRebuildComplete; then the next projection, or endRebuild. *)
WrongCompleteAtSequence(p, max) == [checkpoint EXCEPT ![p] = last]

CompleteCheckpoint(p, max) == [checkpoint EXCEPT ![p] = max]

MarkRebuildComplete ==
    /\ rb.pc = "complete"
    /\ checkpoint' = CompleteCheckpoint(Cur, rb.max)
    /\ rb' = IF Len(rb.queue) = 1 THEN NoRebuild
             ELSE [rb EXCEPT !.pc = "start", !.queue = Tail(@), !.asked = {}, !.max = 0]
    /\ UNCHANGED <<feed, write, applied, mgr, budget>>

-----------------------------------------------------------------------------
(* The server dies and starts again: open transactions roll back, signals,  *)
(* the rebuild and its lock are gone, the manager begins with a cycle.      *)
Crash ==
    /\ crashes < MaxCrashes
    /\ crashes' = crashes + 1
    /\ inflight' = {} /\ UNCHANGED <<last, visible>>
    /\ owed' = 0 /\ wake' = FALSE /\ UNCHANGED silent
    /\ mgr' = StartOfCycle
    /\ rb' = NoRebuild
    /\ UNCHANGED <<checkpoint, applied, rebuilds>>

Init ==
    /\ FeedInit
    /\ owed = 0 /\ wake = FALSE /\ silent = {}
    /\ checkpoint = [p \in All |-> 0]
    /\ applied = [p \in All |-> [i \in Ids |-> 0]]
    /\ mgr = StartOfCycle
    /\ rb = NoRebuild
    /\ crashes = 0 /\ rebuilds = 0

Writer == AppendEvent \/ CommitEvent \/ CommitReplyLost \/ Wake

Cycle ==
    \/ PickProjection \/ FetchEvents \/ ReadFails
    \/ HandleTx \/ Handle \/ HandleFails \/ CommitCheckpoint \/ CheckpointFails
    \/ Sleep

Rebuild ==
    \/ VerifyAll \/ MarkRebuildStart \/ VerifyLedger \/ Clear
    \/ QueryLedger \/ Replay \/ ReadMaxId \/ MarkRebuildComplete

Next == Writer \/ Cycle \/ Timer \/ WokenUp \/ BeginRebuild \/ Rebuild \/ Crash

Spec == Init /\ [][Next]_vars

(* The manager goroutine runs and its timers fire; a read or a handler that *)
(* fails now succeeds when it is tried again and again (MANAGER-01: errors  *)
(* are temporary); a map with every name is walked to its end.              *)
Fairness ==
    /\ WF_vars(Cycle) /\ WF_vars(Timer)
    /\ \A p \in All :
          /\ SF_vars(mgr.cur = p /\ FetchEvents)
          /\ SF_vars(mgr.cur = p /\ (HandleTx \/ Handle))
          /\ SF_vars(mgr.cur = p /\ CommitCheckpoint)

FairSpec == Spec /\ Fairness

-----------------------------------------------------------------------------
TypeOK ==
    /\ FeedTypeOK
    /\ owed \in Nat /\ wake \in BOOLEAN /\ silent \subseteq visible
    /\ checkpoint \in [All -> 0..MaxEvents]
    /\ applied \in [All -> [Ids -> 0..2]]
    /\ mgr.pc \in {"pick", "fetch", "handle", "checkpoint", "sleep"}
    /\ mgr.cur \in All \cup {NoProjection}
    /\ rb.pc \in {"none", "verifyAll", "start", "verify", "clear", "query",
                  "replay", "complete"}
    /\ rb.queue \in Seq(All)

(* The comment of Manager.Wake: "o próximo ciclo já processa tudo que       *)
(* estiver pendente no ledger".  A checkpoint passes no committed event the *)
(* read model has not absorbed: what is below it will never be fetched.     *)
NoEventSkipped ==
    rb.pc = "none" =>
        \A p \in All : \A i \in visible :
            i <= checkpoint[p] => applied[p][i] > 0

(* total_estudantes, an "acumulador não-idempotente" kept by HandleTx:      *)
(* no failure, retry or restart counts an event twice.                      *)
CountedOnce == \A p \in Transactional : \A i \in Ids : applied[p][i] <= 1

(* The long timer is armed only when "não há mais nada novo para processar" *)
(* (manager.go): what is left is announced by a wake-up on its way, or its  *)
(* save saw an error for its COMMIT, or it could not be read in this cycle. *)
LongSleepMeansDrained ==
    (mgr.pc = "sleep" /\ mgr.slow) =>
        wake \/ owed > 0 \/ \A p \in All \ mgr.unread : \A i \in visible \ silent :
                                i <= checkpoint[p]

(* Every committed event reaches every read model, through failed reads,    *)
(* failed handlers, lost wake-ups and restarts.                             *)
EventuallyProjected ==
    \A p \in All : \A i \in Ids : i \in visible ~> applied[p][i] > 0

(* A rebuild "deve ser uma função pura do ledger" (task 01): one that is    *)
(* marked complete has applied every event it read from the ledger, though  *)
(* the manager, failures and restarts work on the same read model; and its  *)
(* checkpoint is a committed id, as one beyond would hide what comes below. *)
CompleteRebuildHasAll ==
    [][MarkRebuildComplete => /\ \A i \in rb.asked : applied[Cur][i] > 0
                              /\ checkpoint'[Cur] \in {0} \cup visible]_vars
=============================================================================
