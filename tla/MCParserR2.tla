----------------------------- MODULE MCParserR2 -----------------------------
(* ParserR2 for TLC: interchangeable packets and cipher contexts, in an orderly *)
(* environment, in those that differ from it in one way, and in one where       *)
(* nothing is taken for granted.                                                *)
EXTENDS ParserR2, TLC

Symmetry == Permutations(Packets) \cup Permutations(Contexts)

Env(drains, remounts, pends) == [drains |-> drains, remounts |-> remounts, pends |-> pends]

Tried == {Env(TRUE, FALSE, FALSE), Env(FALSE, FALSE, FALSE), Env(TRUE, TRUE, FALSE),
          Env(TRUE, FALSE, TRUE), Env(FALSE, TRUE, TRUE)}

=============================================================================
