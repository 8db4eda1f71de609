---------------------------- MODULE MCParser2012 ----------------------------
(* Parser2012 for TLC: interchangeable packets and cipher contexts. *)
EXTENDS Parser2012, TLC

Symmetry == Permutations(Packets) \cup Permutations(Contexts)

=============================================================================
