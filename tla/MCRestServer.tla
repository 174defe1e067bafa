----------------------------- MODULE MCRestServer -----------------------------
(* Instances of RestServer for TLC. *)
EXTENDS RestServer, TLC

CONSTANTS p1, p2, f1, f2, f3, f4

Symmetry == Permutations({p1, p2}) \cup Permutations({f1, f2, f3})
=============================================================================
