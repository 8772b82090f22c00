------------------------- MODULE MCImportOperations -------------------------
(* ImportOperations on small sets of operations.                           *)
EXTENDS ImportOperations, TLC

CONSTANTS o1, o2, o3, c1

MCSymmetry == Permutations(Ops)
=============================================================================
