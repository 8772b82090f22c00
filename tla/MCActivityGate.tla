--------------------------- MODULE MCActivityGate ---------------------------
(* Two tasks (one of them the lifespan), two threads and two workers; one  *)
(* thread and one worker are writers.                                      *)
EXTENDS ActivityGate, TLC

CONSTANTS lifespan, request, th1, th2, l1, l2

MCSymmetry == Permutations({l1, l2})
=============================================================================
