------------------------------- MODULE MCJobs -------------------------------
(* Small instances of Jobs for TLC. *)
EXTENDS Jobs, TLC

\* The goroutines of the pool are interchangeable.
Symmetry == Permutations(Workers)
=============================================================================
