---------------------------- MODULE MCStreamData ----------------------------
(* Instances of StreamData for TLC.                                        *)
EXTENDS StreamData, TLC

(* Two streams of the same kind are interchangeable.                       *)
Symmetry == Permutations(Streams)
=============================================================================
