------------------------------- MODULE MCJobsApi -------------------------------
(* Instances of JobsApi for TLC. *)
EXTENDS JobsApi, TLC

CONSTANTS a1, a2, a3, j1, j2, k1

Symmetry == Permutations({a1, a2, a3}) \cup Permutations({j1, j2})
=============================================================================
