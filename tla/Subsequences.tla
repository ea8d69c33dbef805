--------------------------- MODULE Subsequences ---------------------------
(***************************************************************************)
(* The elements of a sequence that are in a set, in their order: SelectSeq *)
(* with a set for its test, which the lemmas of SequenceLemmas reason      *)
(* about.                                                                  *)
(***************************************************************************)
EXTENDS Integers, Sequences, SequencesExt

Those(seq, S) == FlattenSeq([i \in DOMAIN seq |-> IF seq[i] \in S THEN <<seq[i]>> ELSE <<>>])

=============================================================================
