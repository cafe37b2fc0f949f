--------------------------- MODULE MCProjections ---------------------------
(* Small instances of Projections for TLC. *)
EXTENDS Projections
=============================================================================
