------------------------------ MODULE MCLedger ------------------------------
(***************************************************************************)
(* Small instances of Ledger for TLC, and the abstract specifications it   *)
(* implements.                                                             *)
(***************************************************************************)
EXTENDS Ledger, Sequences, TLC

\* The writers are interchangeable, and so are the aggregates.
Symmetry == Permutations(Writers) \cup Permutations(Aggregates)

CommandId(r) == [by |-> r.cmd.by, n |-> r.cmd.n]

(* The stream of an aggregate, read as the sequence of its rows' commands. *)
LogOf(a) ==
    [i \in 1..Cardinality(Stream(ledger, a)) |->
        CommandId(CHOOSE r \in Stream(ledger, a) : r.ver = i)]

Log == INSTANCE EventLog WITH
    Streams <- Aggregates,
    Batches <- [by : Writers, n : 1..MaxCommands],
    MaxSize <- MaxBatch,
    log <- [a \in Aggregates |-> LogOf(a)]

(* Ledger implements EventLog: a save is one append of one whole batch to   *)
(* the end of one stream, and no batch is appended twice, whatever retries, *)
(* lost connections and crashes happen on the way.                          *)
ImplementsEventLog == Log!LogSpec

Feed == INSTANCE IdFeed WITH
    last <- seq,
    inflight <- UNION {{r.id : r \in own[w]} : w \in Writers},
    visible <- {r.id : r \in ledger}

(* Ledger implements IdFeed, the view the projection manager polls.         *)
ImplementsIdFeed == Feed!FeedSpec
=============================================================================
