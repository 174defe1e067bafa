----------------------------- MODULE MCSystemMode ------------------------------
(* Instances of SystemMode for TLC. *)
EXTENDS SystemMode, TLC

CONSTANTS r1, r2, r3, u1, u2, g1
=============================================================================
