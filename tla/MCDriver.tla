------------------------------ MODULE MCDriver -------------------------------
(* Driver and Log for TLC: interchangeable threads of each kind. *)
EXTENDS Driver, TLC

Symmetry == Permutations(Deferred) \cup Permutations(Threads \ Deferred)

=============================================================================
