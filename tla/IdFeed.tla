------------------------------- MODULE IdFeed -------------------------------
(***************************************************************************)
(* What a reader that follows the ids of spuri_ledger sees of it: ids are  *)
(* handed out in order by the BIGSERIAL sequence when a row is inserted,   *)
(* and become visible when the transaction that inserted them commits, in  *)
(* any order.  Ids of rolled back transactions are never seen.             *)
(* Module Ledger implements this; module Projections reads it.             *)
(***************************************************************************)
EXTENDS Integers

VARIABLES
    last,      \* last id handed out
    inflight,  \* ids inserted by transactions that are still open
    visible    \* ids of committed rows

feed == <<last, inflight, visible>>

FeedInit == last = 0 /\ inflight = {} /\ visible = {}

(* Fault, to try the properties against: the id before the sequence moves. *)
WrongAssign ==
    /\ last' = last + 1
    /\ inflight' = inflight \cup {last}
    /\ UNCHANGED visible

(* An open transaction inserts a row. *)
Assign ==
    /\ last' = last + 1
    /\ inflight' = inflight \cup {last + 1}
    /\ UNCHANGED visible

(* A transaction commits the rows it inserted, all at once. *)
Publish(S) ==
    /\ S # {}
    /\ S \subseteq inflight
    /\ inflight' = inflight \ S
    /\ visible' = visible \cup S
    /\ UNCHANGED last

(* Transactions end without effect; a rejected insert still spends an id. *)
Drop ==
    /\ last' \in {last, last + 1}
    /\ inflight' \subseteq inflight
    /\ UNCHANGED visible

FeedNext == Assign \/ (\E S \in SUBSET inflight : Publish(S)) \/ Drop

FeedSpec == FeedInit /\ [][FeedNext]_feed

FeedTypeOK ==
    /\ last \in Nat
    /\ inflight \subseteq 1..last
    /\ visible \subseteq (1..last) \ inflight
=============================================================================
