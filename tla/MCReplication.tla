---------------------------- MODULE MCReplication ----------------------------
(* Two records, so that one can supersede the other.                       *)
EXTENDS Replication, TLC

CONSTANTS r1, r2

MCSymmetry == Permutations(Records)
=============================================================================
