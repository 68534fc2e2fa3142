---------------------------- MODULE MCJobService ----------------------------
(* Small instances of JobService for TLC. *)
EXTENDS JobService, TLC

Symmetry == Permutations(Jobs) \cup Permutations(Callers)
=============================================================================
