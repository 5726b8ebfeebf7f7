--------------------------- MODULE MCProvisioning ---------------------------
(***************************************************************************)
(* Two requests in flight; one application and one schema to create, from  *)
(* a submission of each kind or directly.                                  *)
(***************************************************************************)
EXTENDS Provisioning

CONSTANTS r1, r2, app1, sch1, subA, subS
=============================================================================
