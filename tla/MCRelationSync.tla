---------------------------- MODULE MCRelationSync ----------------------------
(* Two sessions, two parents and two targets of every kind of relation. *)
EXTENDS RelationSync, TLC
CONSTANTS s1, s2

MCSessions == {s1, s2}
MCMaxReads == s1 :> 1 @@ s2 :> 0
MCMaxRows == s1 :> 2 @@ s2 :> 1
MCKinds == {"O2M", "O2M NOT NULL", "M2M", "M2O"}
Symmetry == Permutations(Parents) \cup Permutations(Targets)
===============================================================================
