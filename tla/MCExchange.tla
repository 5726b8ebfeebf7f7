----------------------------- MODULE MCExchange -----------------------------
(***************************************************************************)
(* One query for a field of each of two schemas, one application, the      *)
(* data owner and somebody else, one request at a time at the PDP.         *)
(* Metadata of each schema are published, one field is made public later.  *)
(***************************************************************************)
EXTENDS Exchange, TLC

CONSTANTS q1, p1, c1, c2, app, ann, ben, name, car, nic, drp, dmt, personName, vehicle,
          v1, citizen

MCSourceOf == personName :> drp @@ vehicle :> dmt
MCKeyOf == drp :> drp @@ dmt :> dmt
MCArgOf == drp :> nic @@ dmt :> nic
MCColumnOf == v1 :> (name :> personName @@ car :> vehicle)

MCQuestions == {[app |-> app, fields |-> {name, car}, args |-> <<[name |-> nic, value |-> ann]>>]}
MCConsents == [app : Apps, owner : Owners, columns : SUBSET Columns]

MCGrantLength == [d \in {"30d"} |-> 0]
Owned(c, access) == [field |-> c, isOwner |-> FALSE, owner |-> citizen, access |-> access]
MCMetadataRequests == {{Owned(personName, "restricted")}, {Owned(vehicle, "restricted")},
                       {Owned(personName, "public")}}
MCFieldSets == {{personName, vehicle}}

Interchangeable == Permutations(ConsentIds)
=============================================================================
