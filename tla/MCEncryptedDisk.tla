-------------------------- MODULE MCEncryptedDisk ---------------------------
(* EncryptedDisk for TLC: interchangeable requests, contents and keys. *)
EXTENDS EncryptedDisk, TLC

Symmetry == Permutations(Requests) \cup Permutations(Data) \cup Permutations(Keys)

=============================================================================
