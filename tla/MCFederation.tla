---------------------------- MODULE MCFederation ----------------------------
(***************************************************************************)
(* One query of two fields.  The first schema has them at two providers,   *)
(* of which one uses OAuth2; the second at two schema ids of one provider. *)
(***************************************************************************)
EXTENDS Federation, TLC

CONSTANTS q1, app, ann, ben, name, car, nic, regno, drp, drpNew, dmt, drpKey, dmtKey,
          personName, newName, vehicle, v1, v2

MCSourceOf == personName :> drp @@ newName :> drpNew @@ vehicle :> dmt
MCKeyOf == drp :> drpKey @@ drpNew :> drpKey @@ dmt :> dmtKey
MCArgOf == drp :> nic @@ drpNew :> nic @@ dmt :> nic
MCColumnOf == v1 :> (name :> personName @@ car :> vehicle)
           @@ v2 :> (name :> newName @@ car :> personName)

Ask(fields, values) ==
    [app |-> app, fields |-> fields,
     args |-> [i \in DOMAIN values |-> [name |-> nic, value |-> values[i]]]]

\* A query may give the argument two values, or none that is a string.
MCQuestions == {Ask({name, car}, <<ann, ben>>), Ask({car}, <<None>>)}

MCConsents == {[app |-> app, owner |-> ann, columns |-> {personName}],
               [app |-> app, owner |-> ben, columns |-> {personName, vehicle}]}
=============================================================================
