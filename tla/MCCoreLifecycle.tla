-------------------------- MODULE MCCoreLifecycle --------------------------
(* One or two admin requests, at most one installation and the lifespan,   *)
(* around up to three workers.                                             *)
EXTENDS CoreLifecycle, TLC

CONSTANTS a1, a2, i1, app

MCSymmetry == Permutations({a1, a2})
=============================================================================
