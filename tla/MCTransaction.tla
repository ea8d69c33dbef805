--------------------------- MODULE MCTransaction ---------------------------
(* Small instances of Transaction for TLC. *)
EXTENDS Transaction, TLC

\* Calls are interchangeable: the safety runs are symmetric in them.
CallSymmetry == Permutations(Call)

=============================================================================
