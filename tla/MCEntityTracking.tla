------------------------- MODULE MCEntityTracking -------------------------
(* Two sessions, two rows and two columns for TLC. *)
EXTENDS EntityTracking, TLC

\* Keys, and the sessions, are interchangeable.
Symmetry == Permutations(Session) \cup Permutations(Key)

=============================================================================
