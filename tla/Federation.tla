----------------------------- MODULE Federation -----------------------------
(***************************************************************************)
(* A query in the orchestration engine                                     *)
(* (src/exchange/orchestration-engine/federator): the active schema says   *)
(* which provider has which field, the policy decision point and the       *)
(* consent engine are asked, one request per provider is sent              *)
(* concurrently, and what comes back is accumulated into one answer.       *)
(*                                                                         *)
(* Policies, approved consents and the active schema belong to other       *)
(* actors and change at any time.  A consumer field is mapped to a column, *)
(* which is a field of a source; a source is a schema id of a provider     *)
(* key.                                                                    *)
(***************************************************************************)
EXTENDS Naturals, Sequences

CONSTANTS
    Queries,            \* queries in flight
    Questions,          \* what they may ask
    Apps, Owners, Fields, ArgNames,
    Columns, Sources, Keys,
    SourceOf, KeyOf,    \* the source of a column, the provider key of a source
    ArgOf,              \* the argument that is mapped to a source, or None
    Schemas,
    ColumnOf,           \* the column of every field of every schema, or None
    FallbackSchema,     \* the schema of the configuration or of the file
    Registered,         \* the sources in the provider table
    Unbounded,          \* those with OAuth2, whose HTTP client has no timeout
    Consents,           \* the consents that may be approved
    None

Rules == {"refused", "open", "consent"}
CallStates == {"none", "sent", "received", "appended", "failed"}
Config == [pdp : BOOLEAN, ce : BOOLEAN]   \* which clients have a URL

ASSUME ConstantsAssumption ==
    /\ Questions \subseteq [app : Apps, fields : SUBSET Fields,
                            args : Seq([name : ArgNames, value : Owners \union {None}])]
    /\ SourceOf \in [Columns -> Sources]
    /\ KeyOf \in [Sources -> Keys]
    /\ ArgOf \in [Sources -> ArgNames \union {None}]
    /\ ColumnOf \in [Schemas -> [Fields -> Columns \union {None}]]
    /\ FallbackSchema \in Schemas \union {None}
    /\ Registered \subseteq Sources /\ Unbounded \subseteq Registered
    /\ Consents \subseteq [app : Apps, owner : Owners, columns : SUBSET Columns]
    /\ None \notin Owners \union Columns \union Schemas \union ArgNames \union Questions

VARIABLES
    config,      \* the clients that are configured
    active,      \* the schemas marked active in the database
    policy,      \* the rule of the PDP for an application and a column
    approved,    \* the consents that are approved
    query,       \* the local state of every query
    seen         \* history: what was granted and approved since its arrival

vars == <<config, active, policy, approved, query, seen>>
world == <<active, policy, approved>>

-----------------------------------------------------------------------------
(* What a query holds, and what it derives from the schema it has loaded *)

NoCalls == [s \in Sources |-> "none"]
Idle == [pc |-> "idle", ask |-> None, schema |-> None, need |-> {},
         calls |-> NoCalls, result |-> {}]

\* ProviderFieldMap: the columns of the fields that have a @sourceInfo.
ColumnsOf(r) == {ColumnOf[r.schema][f] : f \in r.ask.fields} \ {None}
SourcesOf(r) == {SourceOf[c] : c \in ColumnsOf(r)}

\* FindRequiredArguments and ExtractRequiredArguments: the value of the first
\* argument of the query that is mapped to one of the sources S.
FirstArgument(args, S) ==
    LET I == {i \in DOMAIN args : \E s \in S : args[i].name = ArgOf[s]}
    IN IF I = {} THEN None ELSE args[CHOOSE i \in I : \A j \in I : i <= j].value

\* extractedArgs[0] is taken for the data owner.
Owner(r) == FirstArgument(r.ask.args, SourcesOf(r))

\* Mutant: a later argument of the same name replaces an earlier one.
LastSubject(r, s) ==
    LET I == {i \in DOMAIN r.ask.args : r.ask.args[i].name = ArgOf[s]}
    IN IF I = {} THEN None
       ELSE r.ask.args[CHOOSE i \in I : \A j \in I : j <= i].value

\* The value that QueryBuilder pushes into the request to source s.
Subject(r, s) == FirstArgument(r.ask.args, {s})

\* The fields an answer can contain, given the sources with an answer: a response
\* has what was requested and nothing else.
Accumulated(r, S) ==
    {f \in r.ask.fields : /\ ColumnOf[r.schema][f] # None
                          /\ SourceOf[ColumnOf[r.schema][f]] \in S}

Early == {"load", "pdp", "ce", "build"}
InState(r, st) == {s \in Sources : r.calls[s] = st}
Asked(r) == {s \in Sources : r.calls[s] # "none"}
Replied(r) == r.pc \in {"answered", "failed"}

-----------------------------------------------------------------------------
(* The query *)

Becomes(q, r) == query' = [query EXCEPT ![q] = r]

Granted(app, pol) == {c \in Columns : pol[<<app, c>>] \in {"open", "consent"}}
Open(app, pol) == {c \in Columns : pol[<<app, c>>] = "open"}
Observe(app, pol, cons) ==
    [granted |-> Granted(app, pol), open |-> Open(app, pol),
     approved |-> {c \in cons : c.app = app}]
Nothing == [granted |-> {}, open |-> {}, approved |-> {}]

Init == /\ config \in Config
        /\ active = {}
        /\ policy = [p \in Apps \X Columns |-> "refused"]
        /\ approved = {}
        /\ query = [q \in Queries |-> Idle]
        /\ seen = [q \in Queries |-> Nothing]

\* A query that ends in an error.
Failed(r) == [r EXCEPT !.pc = "failed"]

\* A query moves on; what it saw matters until the providers are asked.
Moves(q, r) ==
    /\ Becomes(q, r)
    /\ seen' = IF r.pc \in Early THEN seen ELSE [seen EXCEPT ![q] = Nothing]
    /\ UNCHANGED <<config, world>>

\* A consumer, known from its token, posts a query.
Receive(q) ==
    /\ query[q].pc = "idle"
    /\ \E k \in Questions :
          /\ Becomes(q, [Idle EXCEPT !.pc = "load", !.ask = k])
          /\ seen' = [seen EXCEPT ![q] = Observe(k.app, policy, approved)]
    /\ UNCHANGED <<config, world>>

\* Mutant: nobody looks for the data owner.
DecidedWithoutOwner(r, need) ==
    [r EXCEPT !.need = need,
              !.pc = IF need # {} /\ ~config.ce THEN "failed"
                     ELSE IF need # {} THEN "ce" ELSE "build"]

\* What follows a clean decision, or the lack of a PDP: the data owner must be
\* known, and the consent engine must be there if a column needs consent.
Decided(r, need) ==
    [r EXCEPT !.need = need,
              !.pc = IF Owner(r) = None \/ (need # {} /\ ~config.ce) THEN "failed"
                     ELSE IF need # {} THEN "ce" ELSE "build"]

\* GetActiveSchema takes any active row; without one, or if the read fails, the
\* configured schema or the file is used.  Nothing is said to the PDP if there
\* is no client for it.
LoadSchema(q) ==
    /\ query[q].pc = "load"
    /\ \E s \in active \union {FallbackSchema} :
          LET r == [query[q] EXCEPT !.schema = s] IN
          Moves(q, IF s = None THEN Failed(r)
                   ELSE IF config.pdp THEN [r EXCEPT !.pc = "pdp"] ELSE Decided(r, {}))

\* AppAuthorized and not AppAccessExpired: either refuses the whole query.
Clean(r) == \A c \in ColumnsOf(r) : policy[<<r.ask.app, c>>] # "refused"

\* The PDP decides, and the engine acts on the decision.
PdpDecides(q) ==
    LET r == query[q] IN
    /\ r.pc = "pdp"
    /\ Moves(q, IF Clean(r)
                THEN Decided(r, {c \in ColumnsOf(r) : policy[<<r.ask.app, c>>] = "consent"})
                ELSE Failed(r))

\* Mutant: any consent of the owner for the application will do.
AnyConsent(r) == \E c \in approved : c.app = r.ask.app /\ c.owner = Owner(r)

\* The consent engine finds or creates a consent for these columns.
ConsentApproved(r) ==
    [app |-> r.ask.app, owner |-> Owner(r), columns |-> r.need] \in approved

\* Anything but "approved" ends the query.
CeAnswers(q) ==
    LET r == query[q] IN
    /\ r.pc = "ce"
    /\ Moves(q, IF ConsentApproved(r) THEN [r EXCEPT !.pc = "build"] ELSE Failed(r))

\* Mutant: the consent engine's client has no timeout.
PdpCallFails(q) == query[q].pc = "pdp" /\ Moves(q, Failed(query[q]))

\* An error, an unexpected status or the clients' 10 s timeout.
CallFails(q) ==
    /\ query[q].pc \in {"pdp", "ce"}
    /\ Moves(q, Failed(query[q]))

-----------------------------------------------------------------------------
(* The providers *)

\* BuildProviderLevelQuery: one request per provider key, for the schema id
\* that comes first; fields of another schema id of the key are dropped.
Requested(r, S) ==
    /\ S \subseteq SourcesOf(r)
    /\ \A s \in SourcesOf(r) : \E t \in S : KeyOf[t] = KeyOf[s]
    /\ \A s, t \in S : KeyOf[s] = KeyOf[t] => s = t

\* QueryBuilder, and the loop of performFederation, which starts a goroutine
\* for every request to a provider it knows.
FanOut(q) ==
    LET r == query[q] IN
    /\ r.pc = "build"
    /\ \E S \in SUBSET SourcesOf(r) :
          /\ Requested(r, S)
          /\ Moves(q, [r EXCEPT !.pc = "fanout",
                !.calls = [s \in Sources |->
                             IF s \in S \intersect Registered THEN "sent" ELSE "none"]])

Call(q, s, from, to) ==
    /\ query[q].calls[s] = from
    /\ Becomes(q, [query[q] EXCEPT !.calls = [@ EXCEPT ![s] = to]])
    /\ UNCHANGED <<config, world, seen>>

\* A goroutine reads the response, and appends it under the mutex.
ProviderAnswers(q, s) == Call(q, s, "sent", "received")
AppendResponse(q, s) == Call(q, s, "received", "appended")

\* An error, an unreadable body, the consumer gone, the 10 s timeout of the
\* provider handler's client: the response is left out.
ProviderFails(q, s) == Call(q, s, "sent", "failed")

\* Mutant: the engine waits for the responses, not for the goroutines.
WaitedForResponses(r) == InState(r, "sent") = {}

\* wg.Wait
Waited(r) == InState(r, "sent") \union InState(r, "received") = {}

\* AccumulateResponseWithSchemaInfo, with the schema loaded at the beginning.
Accumulate(q) ==
    LET r == query[q] IN
    /\ r.pc = "fanout" /\ Waited(r)
    /\ Moves(q, [r EXCEPT !.pc = "answered",
                          !.result = Accumulated(r, InState(r, "appended"))])

-----------------------------------------------------------------------------
(* The other actors *)

\* Whoever has not asked the providers yet sees the world change.
Witness(pol, cons) ==
    seen' = [q \in Queries |->
               IF query[q].pc \notin Early THEN seen[q]
               ELSE LET o == Observe(query[q].ask.app, pol, cons)
                    IN [granted |-> seen[q].granted \union o.granted,
                        open |-> seen[q].open \union o.open,
                        approved |-> seen[q].approved \union o.approved]]

\* Metadata of many fields change at once, and the clock ends many grants.
PolicyChanges ==
    /\ policy' \in [Apps \X Columns -> Rules]
    /\ Witness(policy', approved)
    /\ UNCHANGED <<config, active, approved, query>>

ConsentChanges(c) ==
    /\ approved' \in {approved \union {c}, approved \ {c}}
    /\ Witness(policy, approved')
    /\ UNCHANGED <<config, active, policy, query>>

\* Activations that interfere leave several schemas active (OneActiveSchema of
\* SchemaRegistry does not hold).
SchemasActivated ==
    /\ active' \in SUBSET Schemas \ {{}}
    /\ UNCHANGED <<config, policy, approved, query, seen>>

World == \/ PolicyChanges
         \/ \E c \in Consents : ConsentChanges(c)
         \/ SchemasActivated

\* The engine's own steps, a timeout being one.
Step(q) == LoadSchema(q) \/ CallFails(q) \/ FanOut(q) \/ Accumulate(q)
Reads(q, s) == AppendResponse(q, s) \/ (s \notin Unbounded /\ ProviderFails(q, s))

EngineNext ==
    \E q \in Queries :
       \/ Receive(q) \/ Step(q) \/ PdpDecides(q) \/ CeAnswers(q)
       \/ \E s \in Sources :
             ProviderAnswers(q, s) \/ AppendResponse(q, s) \/ ProviderFails(q, s)

Next == World \/ EngineNext

\* Every runnable goroutine is scheduled and every call with a timeout ends.  A
\* service may stay silent, and then nothing ends a call without a timeout.
Fairness == \A q \in Queries :
    /\ WF_vars(Step(q))
    /\ \A s \in Sources : WF_vars(Reads(q, s))

Safety == Init /\ [][Next]_vars
Spec == Safety /\ Fairness

-----------------------------------------------------------------------------
(* Properties *)

Histories == [granted : SUBSET Columns, open : SUBSET Columns, approved : SUBSET Consents]
PCs == {"idle", "load", "pdp", "ce", "build", "fanout", "answered", "failed"}
QueryRecords ==
    [pc : PCs, ask : Questions \union {None}, schema : Schemas \union {None},
     need : SUBSET Columns, calls : [Sources -> CallStates], result : SUBSET Fields]

\* Types, and what a query must know at a step: the data owner, before
\* anybody is asked about it.
TypeOK ==
    /\ config \in Config
    /\ active \subseteq Schemas
    /\ policy \in [Apps \X Columns -> Rules]
    /\ approved \subseteq Consents
    /\ query \in [Queries -> QueryRecords]
    /\ seen \in [Queries -> Histories]
    /\ \A q \in Queries :
          /\ query[q].pc # "idle" => query[q].ask # None
          /\ query[q].pc \notin {"idle", "load", "failed"} => query[q].schema # None
          /\ query[q].pc \in {"ce", "build", "fanout"} => Owner(query[q]) # None

\* The columns a provider was asked for.
AskedOf(r, s) == {c \in ColumnsOf(r) : SourceOf[c] = s}

\* Query q, which asks the providers in this step, may ask for column c.
MayAsk(q, c) ==
    /\ c \in seen[q].granted
    /\ \/ c \in seen[q].open
       \/ \E k \in seen[q].approved : c \in k.columns /\ k.owner = Owner(query'[q])

AsksWithinGrants ==
    \A q \in Queries : query[q].pc = "build" /\ query'[q].pc = "fanout" /\ config.pdp =>
        \A s \in Asked(query'[q]) : \A c \in AskedOf(query'[q], s) : MayAsk(q, c)

\* With a PDP, the providers are asked for nothing that was not granted to the
\* application while the query ran, nor for a column that always needed consent
\* when no consent with it was approved by the owner the query names
\* (FederateQuery checks first and asks later, in a world that changes).
Gate == [][AsksWithinGrants]_vars

\* Where one argument is mapped to every source, as in the example
\* configuration, each provider is asked about the owner whose consent was
\* sought, however many values the query gives the argument
\* (ExtractRequiredArguments, QueryBuilder).
OneSubject ==
    (\A s, t \in Sources : ArgOf[s] = ArgOf[t]) =>
    \A q \in Queries : \A s \in Asked(query[q]) : Subject(query[q], s) = Owner(query[q])

\* Another schema id of the query has the same provider key.
SharesItsKey(r, s) == \E t \in SourcesOf(r) \ {s} : KeyOf[t] = KeyOf[s]

\* The sources nobody asks although a provider is known for them and their key.
Forgotten(r) ==
    {s \in SourcesOf(r) \intersect Registered : s \notin Asked(r) /\ ~SharesItsKey(r, s)}

\* An answer leaves out no response that arrived, and one provider's failure
\* takes nothing but its own fields away (performFederation).  Every source of the
\* query has been asked, but for those without a provider and those that share
\* their provider key with another schema id (BuildProviderLevelQuery).
AnswerComplete ==
    \A q \in Queries : query[q].pc = "answered" =>
        /\ query[q].result =
               Accumulated(query[q], Asked(query[q]) \ InState(query[q], "failed"))
        /\ Forgotten(query[q]) = {}

\* Every query is answered, unless a provider without a timeout is silent.
EveryQueryAnswered ==
    \A q \in Queries :
        query[q].pc # "idle" ~> \/ Replied(query[q])
                                \/ \E s \in Unbounded : query[q].calls[s] = "sent"
=============================================================================
