----------------------------- MODULE MCCobranca -----------------------------
(* Small instances of Cobranca for TLC. *)
EXTENDS Cobranca, TLC

\* The charges are interchangeable, and so are the requests.
Symmetry == Permutations(Charges) \cup Permutations(Handlers)
=============================================================================
