---------------------------- MODULE MCParser2016 ----------------------------
(* Parser2016 for TLC. *)
EXTENDS Parser2016
=============================================================================
