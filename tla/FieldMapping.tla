--------------------------- MODULE FieldMapping ----------------------------
(***************************************************************************)
(* How the orchestration engine maps a consumer's query to provider        *)
(* queries and their answers back (src/exchange/orchestration-engine/      *)
(* federator: mapper.go, builder.go, arghandler.go, accumulator.go).  One  *)
(* query runs through the steps; its answers are put together in the       *)
(* order in which Go iterates over a map, that is, in any order.  The      *)
(* provider queries are those of ProviderQueries.                          *)
(*                                                                         *)
(* A path is a sequence of field names.  A query is the set of the paths   *)
(* it selects, and an answer a JSON value: a leaf, an object or a list.    *)
(***************************************************************************)
EXTENDS ProviderQueries, TLC

CONSTANTS
    Types,      \* the unified schema: the fields of every object type
    Queries,    \* the queries to try: sets of paths, closed under prefixes
    Worlds,     \* what providers may hold: a JSON object for every provider
    None

Front(s) == SubSeq(s, 1, Len(s) - 1)
Last(s) == s[Len(s)]

\* A field of the schema: its @sourceInfo or None, whether its type is a list,
\* and the name of its object type or None.
ASSUME ConstantsAssumption ==
    /\ "Query" \in DOMAIN Types
    /\ \A t \in DOMAIN Types : \A f \in DOMAIN Types[t] :
          /\ Types[t][f].list \in BOOLEAN
          /\ Types[t][f].type \in DOMAIN Types \union {None}
          /\ Types[t][f].source # None => Types[t][f].source \in Records
    /\ \A q \in Queries : \A p \in q : Len(p) = 1 \/ Front(p) \in q
    /\ \A w \in Worlds : DOMAIN w = Providers

VARIABLES
    query, world,
    infos,      \* the schema info map: consumer paths to their sources
    answered,   \* the providers that have answered
    todo,       \* the entries of infos not accumulated yet
    response    \* the data of the answer

vars == <<queryVars, query, world, infos, answered, todo, response>>

Leaf(v) == [k |-> "leaf", v |-> v]
Object(of) == [k |-> "object", of |-> of]
List(items) == [k |-> "list", items |-> items]
Null == [k |-> "null"]
Nothing == [k |-> "error"]
NoFields == [f \in {} |-> None]

Init == /\ QueryInit /\ query \in Queries /\ world \in Worlds
        /\ infos = NoFields /\ answered = {} /\ todo = {} /\ response = Object(NoFields)

-----------------------------------------------------------------------------
(* mapper.go: the schema *)

RECURSIVE FieldDef(_, _)
FieldDef(type, path) ==
    IF type = None \/ path[1] \notin DOMAIN Types[type] THEN None
    ELSE IF Len(path) = 1 THEN Types[type][path[1]]
    ELSE FieldDef(Types[type][path[1]].type, Tail(path))

Def(path) == FieldDef("Query", path)
Sourced(path) == Def(path) # None /\ Def(path).source # None
InList(path) == \E n \in 1..(Len(path) - 1) :
                   Def(SubSeq(path, 1, n)) # None /\ Def(SubSeq(path, 1, n)).list

\* RecursivelyExtractSourceSchemaInfo and its variant for lists: the sources of
\* all fields selected, at any depth.
Collected == {Def(p).source : p \in {q \in query : Sourced(q)}}

\* Mutant: the path of a sub-field is not made relative to the element.
FullPath(path) == path

\* Within an element of a list only the last part of the provider's path counts.
Relative(path) == <<Last(path)>>

\* processNestedFieldsForArray: the fields selected directly in the elements.
SubFields(path) ==
    [f \in {Last(p) : p \in {q \in query : Len(q) = Len(path) + 1 /\ Prefix(path, q) /\ Sourced(q)}}
        |-> Relative(Def(Append(path, f)).source.path)]

\* buildSchemaInfoMapRecursive does not descend into lists.
SchemaInfoMap ==
    [p \in {q \in query : Sourced(q) /\ ~InList(q)} |->
        [provider |-> Def(p).source.provider, path |-> Def(p).source.path,
         list |-> Def(p).list, sub |-> IF Def(p).list THEN SubFields(p) ELSE NoFields]]

Collect ==
    /\ CollectSources(Collected)
    /\ infos' = SchemaInfoMap
    /\ todo' = DOMAIN SchemaInfoMap
    /\ UNCHANGED <<query, world, answered, response>>

-----------------------------------------------------------------------------
(* The providers *)

Below(tree, f) == {Tail(p) : p \in {q \in tree : q[1] = f /\ Len(q) > 1}}

RECURSIVE Restricted(_, _)
Restricted(data, tree) ==
    CASE data.k = "object" ->
           Object([f \in {p[1] : p \in tree} \intersect DOMAIN data.of |->
                      Restricted(data.of[f], Below(tree, f))])
      [] data.k = "list" ->
           List([i \in DOMAIN data.items |-> Restricted(data.items[i], tree)])
      [] OTHER -> data

\* What a provider answers: the fields it was asked for.
Data(p) == Restricted(world[p], requests[p].tree)

Ask == /\ Send
       /\ answered' \in SUBSET DOMAIN requests
       /\ UNCHANGED <<query, world, infos, todo, response>>

-----------------------------------------------------------------------------
(* accumulator.go *)

\* getValueRecursive: through a list it returns the values of all elements, or
\* nothing if one of them has none.
RECURSIVE GetValue(_, _)
GetValue(data, path) ==
    IF path = <<>> THEN data
    ELSE CASE data.k = "object" ->
                IF path[1] \in DOMAIN data.of THEN GetValue(data.of[path[1]], Tail(path)) ELSE Nothing
           [] data.k = "list" ->
                LET found == [i \in DOMAIN data.items |-> GetValue(data.items[i], path)]
                IN IF \E i \in DOMAIN found : found[i] = Nothing THEN Nothing ELSE List(found)
           [] OTHER -> Nothing

\* Mutant: an object that is there already is replaced by a new one.
RECURSIVE PushFresh(_, _, _)
PushFresh(data, path, value) ==
    IF path = <<>> THEN value
    ELSE IF data.k \in {"object", "null"}
    THEN LET sub == PushFresh(Object(NoFields), Tail(path), value)
         IN Object(With(IF data.k = "null" THEN NoFields ELSE data.of, path[1], sub))
    ELSE Nothing

\* pushRecursive: creates the objects on the way; a value in the way is an error.
RECURSIVE PushValue(_, _, _)
PushValue(data, path, value) ==
    IF path = <<>> THEN value
    ELSE CASE data.k = "object" ->
                LET child == IF path[1] \in DOMAIN data.of THEN data.of[path[1]] ELSE Object(NoFields)
                    sub == PushValue(child, Tail(path), value)
                IN IF sub = Nothing THEN Nothing ELSE Object(With(data.of, path[1], sub))
           [] data.k = "list" ->
                LET pushed == [i \in DOMAIN data.items |-> PushValue(data.items[i], path, value)]
                IN IF \E i \in DOMAIN pushed : pushed[i] = Nothing THEN Nothing ELSE List(pushed)
           [] data.k = "null" -> PushValue(Object(NoFields), path, value)
           [] OTHER -> Nothing

\* The object accumulateArrayResponse makes of an element: the sub-fields it has.
Element(item, sub) ==
    LET value(f) == IF item.k = "object" THEN GetValue(item, sub[f]) ELSE Nothing
    IN Object([f \in {g \in DOMAIN sub : value(g) # Nothing} |-> value(f)])

\* The value of an entry of the schema info map, or nothing.
Value(info) ==
    IF info.provider \notin answered THEN Nothing
    ELSE LET found == GetValue(Data(info.provider), info.path) IN
         IF ~info.list THEN found
         ELSE IF found.k # "list" THEN Nothing
         ELSE List([i \in DOMAIN found.items |-> Element(found.items[i], info.sub)])

\* One entry, in the order of the map; an entry without a value, or one that
\* cannot be pushed, is logged and left out.
Accumulate ==
    /\ pc = "accumulate"
    /\ \E p \in todo :
          LET value == Value(infos[p])
              pushed == IF value = Nothing THEN Nothing ELSE PushValue(response, p, value)
          IN /\ response' = IF pushed = Nothing THEN response ELSE pushed
             /\ todo' = todo \ {p}
    /\ UNCHANGED <<queryVars, query, world, infos, answered>>

Next == \/ Collect
        \/ (Build \/ Arguments) /\ UNCHANGED <<query, world, infos, answered, todo, response>>
        \/ Ask
        \/ Accumulate

Spec == Init /\ [][Next]_vars

-----------------------------------------------------------------------------
(* Properties *)

\* The leaves of a JSON value with their paths, in which an element of a list is
\* named by its position.
RECURSIVE Flat(_)
Flat(data) ==
    CASE data.k = "object" ->
           UNION {{<<<<f>> \o x[1], x[2]>> : x \in Flat(data.of[f])} : f \in DOMAIN data.of}
      [] data.k = "list" ->
           UNION {{<<<<ToString(i)>> \o x[1], x[2]>> : x \in Flat(data.items[i])} : i \in DOMAIN data.items}
      [] OTHER -> {<<<<>>, data>>}

\* The leaf at path of what a provider holds, or in the elements of the list at
\* prefix, with the position of the element.
HeldAt(p, path) == {x[2] : x \in {y \in Flat(world[p]) : y[1] = path}}
HeldIn(p, prefix, path) ==
    {<<y[1][Len(prefix) + 1], y[2]>> :
       y \in {z \in Flat(world[p]) :
                /\ Len(z[1]) = Len(path) + 1
                /\ Prefix(prefix, z[1])
                /\ prefix \o SubSeq(z[1], Len(prefix) + 2, Len(z[1])) = path}}

Single == \A s, t \in collected : s.provider = t.provider => s.schema = t.schema

\* What the consumer should see: for every leaf selected, what the provider that
\* answered holds at its source, and for a leaf in a list that of each element.
Expected ==
    LET leaves == {p \in query : Sourced(p) /\ Def(p).type = None}
        asked(p) == Def(p).source.provider \in answered
    IN UNION {{<<p, v>> : v \in HeldAt(Def(p).source.provider, Def(p).source.path)} :
                p \in {q \in leaves : asked(q) /\ ~InList(q)}}
       \union
       UNION {{<<Front(p) \o <<x[1], Last(p)>>, x[2]>> :
                 x \in HeldIn(Def(p).source.provider, Def(Front(p)).source.path, Def(p).source.path)} :
                p \in {q \in leaves : asked(q) /\ InList(q)}}

\* When all entries are accumulated, in whatever order, the response has exactly the
\* values at the sources of the fields selected, of the providers that answered,
\* each at its place, and elements of lists are not mixed up.  The schema has
\* sources on leaves and on lists of objects, one schema id per provider, and in a
\* list only fields of the elements themselves.
AnswerMatches ==
    pc = "accumulate" /\ todo = {} /\ Single => Flat(response) = Expected
=============================================================================
