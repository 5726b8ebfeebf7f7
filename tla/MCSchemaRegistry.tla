-------------------------- MODULE MCSchemaRegistry --------------------------
(***************************************************************************)
(* Two activations of one stored version and of versions that are created  *)
(* before, while or after they run.  v2 adds fields to v1; v3 adds one     *)
(* more, or makes a list of a field of v2, or cannot be parsed.            *)
(***************************************************************************)
EXTENDS SchemaCompatibility, TLC

CONSTANTS r1, r2, v1, v2, v3

Person == Named("Person")
Text == Named("String")

First == (<<"Query", "person">> :> Person) @@ (<<"Person", "name">> :> NonNull(Text))
Added == First @@ (<<"Person", "births">> :> ListOf(NonNull(Named("Birth"))))
               @@ (<<"Birth", "place">> :> Text)
Grown == (<<"Person", "age">> :> Text) @@ Added
Changed == (<<"Birth", "place">> :> ListOf(Text)) @@ Added

\* What the recursion of getTypeDefinition returns, on the types of up to three
\* wraps.
RECURSIVE Written(_, _)
Written(type, n) ==
    IF n = 0 THEN <<type.name>>
    ELSE IF type.wraps[n] = "list" THEN <<"[">> \o Written(type, n - 1) \o <<"]">>
    ELSE Append(Written(type, n - 1), "!")

ASSUME WrittenAsTypeDefinition ==
    \A wraps \in UNION {[1..n -> {"nonnull", "list"}] : n \in 0..3} :
       LET type == [name |-> "Birth", wraps |-> wraps] IN
       TypeDefinition(type) = Written(type, Len(wraps))

MCDocuments ==
    {(v1 :> First) @@ (v2 :> Added) @@ (v3 :> sdl) : sdl \in {Grown, Changed, Unparsable}}
=============================================================================
