--------------------------- MODULE MCControlPlane ----------------------------
(* Two wire ids are interchangeable: nothing compares them but for equality, *)
(* and no CHOOSE ranges over them.  The bounds are in the .cfg files.        *)
EXTENDS ControlPlane, TLC

IdSymmetry == Permutations(Ids)
=============================================================================
