------------------------- MODULE MCAppRegistration -------------------------
(* The three shortcuts of the program and the two values a build stamps. *)
EXTENDS AppRegistration

PlansDef == <<"launcher", "desktop", "uninstall">>
MetaDef == <<"DisplayVersion", "ATCBuildIdentity">>
=============================================================================
