------------------------------ MODULE EventLog ------------------------------
(***************************************************************************)
(* What the event store promises its callers: each aggregate has a stream, *)
(* and a command's batch of events is appended to one stream as a whole,   *)
(* at its end, at most once.  Module Ledger implements this.               *)
(***************************************************************************)
EXTENDS Naturals, Sequences

CONSTANTS
    Streams,   \* aggregate ids
    Batches,   \* identities of commands
    MaxSize    \* events of one batch at most

VARIABLE log   \* for each stream, the batch each of its events came from

Appended == UNION {{log[s][i] : i \in 1..Len(log[s])} : s \in Streams}

LogInit == log = [s \in Streams |-> <<>>]

AppendBatch(s, b, n) ==
    /\ b \notin Appended
    /\ log' = [log EXCEPT ![s] = @ \o [i \in 1..n |-> b]]

LogNext ==
    \E s \in Streams, b \in Batches, n \in 1..MaxSize : AppendBatch(s, b, n)

LogSpec == LogInit /\ [][LogNext]_log
=============================================================================
