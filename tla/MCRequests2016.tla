--------------------------- MODULE MCRequests2016 ---------------------------
(* Requests2016 for TLC: interchangeable packets and meta operations. *)
EXTENDS Requests2016, TLC

Symmetry == Permutations(Operations) \cup Permutations(Packets)

=============================================================================
