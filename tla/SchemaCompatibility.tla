------------------------- MODULE SchemaCompatibility -------------------------
(***************************************************************************)
(* POST /sdl/check-compatibility of the orchestration engine               *)
(* (services/schema.go): a new SDL is compared with the active schema,     *)
(* while versions are created and activated.  Nothing makes an operator    *)
(* ask before an activation, and what an answer says is about the schema   *)
(* that was active when it was given.                                      *)
(*                                                                         *)
(* An SDL is what the parser makes of it: the fields of its object types,  *)
(* each with its type, or nothing.  A type is a name inside any number of  *)
(* lists and non-null types.                                               *)
(***************************************************************************)
EXTENDS SchemaRegistry, Sequences, FiniteSets

CONSTANTS
    Documents,   \* the SDLs the versions may have
    Unparsable,  \* an SDL with a syntax error
    Depth        \* a bound on the depth of a consumer's query

\* What a type is named, and what it is wrapped in, from the inside out.
FieldTypes == [name : STRING \ {"["}, wraps : Seq({"nonnull", "list"})]
Named(name) == [name |-> name, wraps |-> <<>>]
NonNull(type) == [type EXCEPT !.wraps = Append(@, "nonnull")]
ListOf(type) == [type EXCEPT !.wraps = Append(@, "list")]

\* A field is named by its object type and its name.
IsSchema(sdl) == /\ sdl \in [DOMAIN sdl -> FieldTypes]
                 /\ DOMAIN sdl \subseteq STRING \X STRING

Sdls(sdls) == {sdls[v] : v \in Versions}

ASSUME DocumentsAssumption ==
    /\ \A sdls \in Documents :
          /\ DOMAIN sdls = Versions
          /\ \A v \in Versions : sdls[v] # Unparsable => IsSchema(sdls[v])
          /\ None \notin Sdls(sdls)
          /\ None \notin [old : Sdls(sdls) \union {None}, new : Sdls(sdls)]
    /\ Depth \in Nat

VARIABLES
    document, \* the SDL of every version, which does not change
    check,    \* what the last check compared, if it was found compatible
    served    \* history: the documents served since an upgrade that was not checked

compatVars == <<vars, document, check, served>>

CompatInit == Init /\ document \in Documents /\ check = None /\ served = {}

-----------------------------------------------------------------------------
(* services/schema.go *)

ParseSDL(sdl) == sdl # Unparsable

Mark(wrap) == IF wrap = "list" THEN "]" ELSE "!"
Lists(type) == {i \in DOMAIN type.wraps : type.wraps[i] = "list"}

\* getTypeDefinition: the type as it is written, with a bracket before its name
\* for every list, and a mark after it for every list and non-null type.
TypeDefinition(type) ==
    [i \in 1..Cardinality(Lists(type)) |-> "["] \o <<type.name>>
       \o [i \in DOMAIN type.wraps |-> Mark(type.wraps[i])]

\* Mutant: only the name of a type is compared.
NameDefinitions(sdl) == [field \in DOMAIN sdl |-> <<sdl[field].name>>]

FieldDefinitions(sdl) == [field \in DOMAIN sdl |-> TypeDefinition(sdl[field])]

HasRemovedFields(old, new) ==
    /\ ParseSDL(old) /\ ParseSDL(new)
    /\ \E field \in DOMAIN FieldDefinitions(old) : field \notin DOMAIN FieldDefinitions(new)

CompareFieldTypes(oldFields, newFields) ==
    \E field \in DOMAIN oldFields :
       field \in DOMAIN newFields => oldFields[field] # newFields[field]

HasTypeChanges(old, new) ==
    /\ ParseSDL(old) /\ ParseSDL(new)
    /\ CompareFieldTypes(FieldDefinitions(old), FieldDefinitions(new))

\* Added and deprecated fields are only noted.
AnalyzeCompatibility(old, new) == ~HasRemovedFields(old, new) /\ ~HasTypeChanges(old, new)

\* GetActiveSchema: SELECT ... WHERE is_active LIMIT 1, in no particular order.
GetActiveSchema == IF active = {} THEN {None} ELSE {document[v] : v \in active}

\* The answer when the query fails is that the SDL is not compatible.
CheckCompatibility ==
    \E v \in Versions, old \in GetActiveSchema :
       check' \in {None, IF old = None \/ AnalyzeCompatibility(old, document[v])
                         THEN [old |-> old, new |-> document[v]] ELSE None}

-----------------------------------------------------------------------------
\* A step from one active version to another that was checked just before.
CheckedUpgrade ==
    \E v, w \in Versions :
       /\ active = {v} /\ active' = {w}
       /\ check = [old |-> document[v], new |-> document[w]]

CompatNext ==
    \/ /\ Next
       /\ served' = IF active' = active THEN served
                    ELSE {document[v] : v \in active'} \union (IF CheckedUpgrade THEN served ELSE {})
       /\ UNCHANGED <<document, check>>
    \/ CheckCompatibility /\ UNCHANGED <<vars, document, served>>

CompatSpec == CompatInit /\ [][CompatNext]_compatVars /\ Fairness

-----------------------------------------------------------------------------
(* Properties *)

\* The queries of a schema with the types of what they select: chains of fields
\* that begin at the type Query.
Chains(sdl) ==
    {s \in UNION {[1..n -> DOMAIN sdl] : n \in 1..Depth} :
       /\ s[1][1] = "Query"
       /\ \A i \in 2..Len(s) : s[i][1] = sdl[s[i - 1]].name}
Answers(sdl) == {[i \in DOMAIN s |-> <<s[i], sdl[s[i]]>>] : s \in Chains(sdl)}

\* A series of upgrades, each of which the engine was asked about and found
\* compatible with the schema it replaced, leaves every query of every schema of
\* the series valid, with the same types: a check compares two schemas only, and
\* activations run between and beside the checks.  It says nothing of an SDL that
\* cannot be parsed, with which everything is compatible.
UpgradesKeepQueries ==
    \A v \in Versions :
       active = {v} /\ Unparsable \notin served =>
          \A sdl \in served : Answers(sdl) \subseteq Answers(document[v])
=============================================================================
