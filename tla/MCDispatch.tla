----------------------------- MODULE MCDispatch -----------------------------
(* Dispatch for TLC: interchangeable reads and callers. *)
EXTENDS Dispatch

Symmetry ==
    Permutations(Reads) \cup Permutations(Subscribers) \cup Permutations(Answers)
      \cup Permutations(Callers \ Broadcasters)

=============================================================================
