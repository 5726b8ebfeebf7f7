----------------------- MODULE MCPolicyDecisionPoint -----------------------
(***************************************************************************)
(* Two schemas, of two fields and of one, one or two applications, two     *)
(* requests at work.  The first schema is published with both fields, then *)
(* with fewer or different ones; one request breaks the owner constraint,  *)
(* one names a field twice.                                                *)
(***************************************************************************)
EXTENDS PolicyDecisionPoint, TLC

CONSTANTS r1, r2, name, nic, car, a1, a2, citizen, drp, dmt

MCSchemaOf == name :> drp @@ nic :> drp @@ car :> dmt
MCGrantLength == [d \in {"30d"} |-> 1]

Owned(f, access) == [field |-> f, isOwner |-> FALSE, owner |-> citizen, access |-> access]
Own(f, access) == [field |-> f, isOwner |-> TRUE, owner |-> None, access |-> access]

MCMetadataRequests ==
    {{Owned(name, "restricted"), Own(nic, "restricted")},
     {Owned(name, "public")},
     {[Owned(name, "restricted") EXCEPT !.isOwner = TRUE]},
     {Owned(nic, "restricted"), Own(nic, "restricted")},
     {Owned(car, "restricted")}}

MCFieldSets == {{name}, {nic, car}}

Interchangeable == Permutations(Requests) \union Permutations(Apps)
=============================================================================
