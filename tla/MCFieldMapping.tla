-------------------------- MODULE MCFieldMapping ---------------------------
(***************************************************************************)
(* A schema like the engine's schema.graphql: fields of two registries,    *)
(* one of which has two fields at the root of its queries, and a list of   *)
(* vehicles; names that two registries use, nested objects and nulls.      *)
(* Beside it, that the sets of paths of ProviderQueries grow as the trees  *)
(* of pushFieldToAst do.                                                   *)
(***************************************************************************)
EXTENDS FieldMapping

CONSTANTS drp, rgd, dmt

Field(source, list, type) == [source |-> source, list |-> list, type |-> type]
From(p, schema, path) == [provider |-> p, schema |-> schema, path |-> path]
OfObject(type) == Field(None, FALSE, type)
OfLeaf(p, path) == Field(From(p, "v1", path), FALSE, None)

MCTypes ==
    [Query |-> [personInfo |-> OfObject("PersonInfo")],
     PersonInfo |->
        [fullName |-> OfLeaf(drp, <<"person", "fullName">>),
         address |-> Field(From(drp, "v2", <<"person", "home", "address">>), FALSE, None),
         name |-> OfLeaf(rgd, <<"getPersonInfo", "name">>),
         birthInfo |-> OfObject("BirthInfo"),
         ownedVehicles |-> Field(From(dmt, "v1", <<"vehicle", "infos">>), TRUE, "Vehicle")],
     BirthInfo |->
        [place |-> OfLeaf(rgd, <<"getPersonInfo", "birth", "place">>),
         brNo |-> OfLeaf(rgd, <<"birth", "no">>)],
     Vehicle |->
        [regNo |-> OfLeaf(dmt, <<"vehicle", "infos", "no">>),
         make |-> OfLeaf(dmt, <<"vehicle", "infos", "make">>)]]

MCRecords == UNION {{MCTypes[t][f].source : f \in DOMAIN MCTypes[t]} : t \in DOMAIN MCTypes}
                \ {None}

P(fs) == <<"personInfo">> \o fs
MCLeaves == {P(<<"fullName">>), P(<<"address">>), P(<<"name">>),
             P(<<"birthInfo", "place">>), P(<<"birthInfo", "brNo">>),
             P(<<"ownedVehicles", "regNo">>), P(<<"ownedVehicles", "make">>)}
MCQueries == {UNION {{SubSeq(p, 1, n) : n \in 1..Len(p)} : p \in ps} :
                ps \in SUBSET MCLeaves \ {{}}}

Birth(no) == Object([no |-> no])
MCRgd == {Object([getPersonInfo |-> Object([name |-> Leaf("n"), birth |-> Object([place |-> Leaf("p")])]),
                  birth |-> Birth(Leaf("b"))]),
          Object([getPersonInfo |-> Object([name |-> Leaf("n"), birth |-> Null]),
                  birth |-> Birth(Null)])}
MCDmt == {Object([vehicle |-> Object([infos |-> List(items)])]) :
             items \in {<<>>,
                        <<Object([no |-> Leaf("1"), make |-> Leaf("x")]),
                          Object([no |-> Leaf("2"), make |-> Null])>>,
                        <<Null, Object([make |-> Leaf("y")])>>}}
MCWorlds == {(drp :> Object([person |-> Object([fullName |-> Leaf("f"),
                                                home |-> Object([address |-> Leaf("a")])])]))
             @@ (rgd :> r) @@ (dmt :> d) : r \in MCRgd, d \in MCDmt}

Mapping(p, target) == [provider |-> p, schema |-> "v1", name |-> "nic", target |-> target]
MCMappings == {Mapping(drp, <<"person">>), Mapping(rgd, <<"getPersonInfo">>),
               Mapping(rgd, <<"birth">>), Mapping(dmt, <<"vehicle", "infos">>)}

-----------------------------------------------------------------------------
(* Trees of fields, as builder.go makes them, and as sets of paths *)

RECURSIVE Push(_, _)
Push(path, fields) ==
    LET sub == IF path[1] \in DOMAIN fields THEN fields[path[1]] ELSE NoFields
    IN With(fields, path[1], IF Len(path) = 1 THEN sub ELSE Push(Tail(path), sub))

RECURSIVE TreePaths(_)
TreePaths(fields) ==
    UNION {{<<f>>} \union {<<f>> \o p : p \in TreePaths(fields[f])} : f \in DOMAIN fields}

Short == UNION {[1..n -> {"a", "b"}] : n \in 1..3}

ASSUME PushedAsPaths ==
    \A p, q, r \in Short :
       TreePaths(Push(r, Push(q, Push(p, NoFields))))
          = PushField(r, PushField(q, PushField(p, {})))
=============================================================================
