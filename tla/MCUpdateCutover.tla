-------------------------- MODULE MCUpdateCutover --------------------------
(* One update with a few writes of the Core, a power loss and failing steps. *)
EXTENDS UpdateCutover
=============================================================================
