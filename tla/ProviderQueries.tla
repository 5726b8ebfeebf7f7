-------------------------- MODULE ProviderQueries ---------------------------
(***************************************************************************)
(* The provider queries of one consumer query in the orchestration engine  *)
(* (src/exchange/orchestration-engine/federator: builder.go,               *)
(* arghandler.go and QueryBuilder of mapper.go): one for each provider,    *)
(* with the fields the consumer's fields come from and the arguments that  *)
(* are mapped to them.                                                     *)
(*                                                                         *)
(* A path is a sequence of field names, a provider query the set of the    *)
(* paths of its fields.                                                    *)
(***************************************************************************)
EXTENDS Naturals, Sequences

CONSTANTS
    Providers,
    Records,   \* the sources (ProviderLevelFieldRecord) a schema may name
    Mappings   \* the argument mappings, with different target paths

Paths == Seq(STRING) \ {<<>>}

ASSUME RecordsAssumption ==
    /\ Records \subseteq [provider : Providers, schema : STRING, path : Paths]
    /\ Mappings \subseteq [provider : Providers, schema : STRING, name : STRING, target : Paths]
    /\ \A x, y \in Mappings : x.target = y.target => x = y

VARIABLES
    pc,
    collected,  \* the sources the consumer's query needs
    records,    \* those that are not in a provider query yet
    requests,   \* the provider queries built so far
    args        \* <<provider, path, name>>: the arguments of their fields

queryVars == <<pc, collected, records, requests, args>>

NoRequests == [p \in {} |-> {}]

QueryInit == /\ pc = "collect" /\ collected = {} /\ records = {}
             /\ requests = NoRequests /\ args = {}

\* isPathPrefix
Prefix(p, q) == Len(p) <= Len(q) /\ SubSeq(q, 1, Len(p)) = p

\* A path and the fields on the way to it.
Prefixes(path) == {SubSeq(path, 1, n) : n \in 1..Len(path)}

\* ProviderSchemaCollector has found the sources of the query.
CollectSources(sources) ==
    /\ pc = "collect"
    /\ collected' = sources
    /\ records' = sources
    /\ pc' = "build"
    /\ UNCHANGED <<requests, args>>

-----------------------------------------------------------------------------
(* builder.go *)

With(f, x, y) == [z \in DOMAIN f \union {x} |-> IF z = x THEN y ELSE f[z]]

\* pushFieldToAst goes down the selection sets and adds what they lack of a path.
PushField(path, tree) == tree \union Prefixes(path)

\* A provider has one query, for the schema of its first record; others are
\* passed over.
QueryOf(rec) == IF rec.provider \in DOMAIN requests THEN requests[rec.provider]
                ELSE [schema |-> rec.schema, first |-> rec.path[1], tree |-> {}]

\* Mutant: a field that is there already is taken to be complete.
PushedWhenNew(rec, request) ==
    IF request.schema = rec.schema /\ SubSeq(rec.path, 1, 1) \notin request.tree
    THEN [request EXCEPT !.tree = PushField(rec.path, @)] ELSE request

Pushed(rec, request) ==
    IF request.schema = rec.schema
    THEN [request EXCEPT !.tree = PushField(rec.path, @)] ELSE request

\* BuildProviderLevelQuery takes one record after the other.
Build ==
    /\ pc = "build"
    /\ IF records = {}
       THEN pc' = "arguments" /\ UNCHANGED <<records, requests>>
       ELSE \E rec \in records :
              /\ requests' = With(requests, rec.provider, Pushed(rec, QueryOf(rec)))
              /\ records' = records \ {rec}
              /\ UNCHANGED pc
    /\ UNCHANGED <<collected, args>>

-----------------------------------------------------------------------------
(* arghandler.go *)

\* The path PushArgumentsToProviderQueryAst computes while it visits a field: it
\* never leaves the first field at the root.
Visited(request, path) ==
    IF path[1] = request.first THEN path ELSE <<request.first>> \o path

\* FindRequiredArguments, for the sources of the query.
Required == {m \in Mappings : \E s \in collected :
                m.provider = s.provider /\ m.schema = s.schema /\ Prefix(m.target, s.path)}

RequiredBy(p) == {m \in Required : m.provider = p /\ m.schema = requests[p].schema}

\* The fields of a provider query that a mapping puts its argument on: its target
\* and the fields on the way to it.
Placed(p, m) ==
    {<<p, path, m.name>> :
        path \in {q \in requests[p].tree : Prefix(Visited(requests[p], q), m.target)}}

\* QueryBuilder: every provider query gets the arguments of its provider and schema.
Arguments ==
    /\ pc = "arguments"
    /\ args' = UNION {UNION {Placed(p, m) : m \in RequiredBy(p)} : p \in DOMAIN requests}
    /\ pc' = "ask"
    /\ UNCHANGED <<collected, records, requests>>

\* performFederation takes the provider queries as they are.
Send == /\ pc = "ask"
        /\ pc' = "accumulate"
        /\ UNCHANGED <<collected, records, requests, args>>

QueryNext == \/ \E sources \in SUBSET Records : CollectSources(sources)
             \/ Build
             \/ Arguments
             \/ Send

QuerySpec == QueryInit /\ [][QueryNext]_queryVars

-----------------------------------------------------------------------------
(* Properties *)

\* The provider queries have been built: there is one for every provider of a
\* source, whatever the order of the fields, and it selects exactly the sources
\* in the schema it is asked in.  Below its first field an argument is on the
\* field it is mapped to, and on no field that is not on the way there.
RequestsComplete ==
    pc = "ask" =>
    /\ DOMAIN requests = {s.provider : s \in collected}
    /\ \A p \in DOMAIN requests :
          /\ requests[p].tree =
                UNION {Prefixes(s.path) :
                         s \in {t \in collected : t.provider = p /\ t.schema = requests[p].schema}}
          /\ \A m \in RequiredBy(p) :
                m.target[1] = requests[p].first => <<p, m.target, m.name>> \in args
    /\ \A a \in args :
          a[2][1] = requests[a[1]].first =>
             \E m \in RequiredBy(a[1]) : m.name = a[3] /\ Prefix(a[2], m.target)
=============================================================================
