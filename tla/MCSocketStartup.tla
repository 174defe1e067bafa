---------------------------- MODULE MCSocketStartup ----------------------------
(* Instances of SocketStartup for TLC. *)
EXTENDS SocketStartup, TLC

CONSTANTS s1, s2, s3, s4, self, other, root

Symmetry == Permutations({s1, s2, s3, s4})
=============================================================================
