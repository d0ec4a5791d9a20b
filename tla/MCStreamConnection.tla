------------------------- MODULE MCStreamConnection -------------------------
(* Instances of StreamConnection for TLC.                                  *)
EXTENDS StreamConnection, TLC

(* The two peers are interchangeable when they have the same role.         *)
Symmetry == Permutations(Peers)
=============================================================================
