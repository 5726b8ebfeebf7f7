---------------------------- MODULE MCTokenKeys ----------------------------
(***************************************************************************)
(* Two verifications, and two keys: the portal can use one of them only.   *)
(***************************************************************************)
EXTENDS TokenKeys

CONSTANTS k1, k2, r1, r2

MCUsable == [s \in Kinds |-> IF s = "portal" THEN {k1} ELSE {k1, k2}]
MCFirstSets == {{k1}, {k2}}
=============================================================================
