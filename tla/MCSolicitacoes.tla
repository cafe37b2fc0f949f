--------------------------- MODULE MCSolicitacoes ---------------------------
(* Small instances of Solicitacoes for TLC. *)
EXTENDS Solicitacoes

VARIABLE shape   \* which requests are made, who decides, how many kinds of failure happen

\* Two instances: all requests, decided one at a time, with one kind of failure,
\* and one request, decided by several, with three.  Requests are interchangeable,
\* and so are deciders: they are numbers, and requests begin in that order.
Shapes ==
    {[requests |-> Requests, deciders |-> {1}, kinds |-> 1],
     [requests |-> {1}, deciders |-> Deciders, kinds |-> 3]}

InOrder == \A r, q \in Requests : r < q /\ creator[r] = "new" => creator[q] = "new"

InShape ==
    /\ InOrder
    /\ \A r \in Requests \ shape.requests : creator[r] = "new"
    /\ \A d \in Deciders \ shape.deciders : decider[d] = Idle
    /\ Cardinality(failed) <= shape.kinds

MCInit == Init /\ shape \in Shapes
MCNext == UNCHANGED shape /\ Next /\ InShape'
MCSpec == MCInit /\ [][MCNext]_<<vars, shape>>
=============================================================================
