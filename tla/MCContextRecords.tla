-------------------------- MODULE MCContextRecords --------------------------
(* Two records, so that one can supersede the other, and one archive.      *)
EXTENDS ContextRecords, TLC

CONSTANTS r1, r2, s1, c1, c2

MCSymmetry == Permutations(Records) \cup Permutations(Contents)
=============================================================================
