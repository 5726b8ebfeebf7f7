------------------------------ MODULE Exchange ------------------------------
(***************************************************************************)
(* The exchange: the orchestration engine (Federation) with the two        *)
(* services it asks, the policy decision point and the consent engine, the *)
(* latter as the ledger that ConsentEngine implements.                     *)
(*                                                                         *)
(* In Federation the rules and the approved consents are anything at any   *)
(* time.  Here they are what the rows of the PDP and the ledger say, and   *)
(* the consents there are were asked for by queries.  A service answers    *)
(* from the state at one instant; that the answer travels is the time the  *)
(* query takes for its next step, and an answer that is lost is CallFails. *)
(***************************************************************************)
EXTENDS Federation

CONSTANTS
    PolicyRequests,      \* slots for requests in flight at the PDP
    FieldOwners,         \* kinds of data owners the PDP knows
    GrantLength, MetadataRequests, FieldSets,
    ConsentIds,
    MaxRows, MaxTime     \* bounds: rows built by the PDP, ticks of its clock

VARIABLES
    rows, lastId, now, req, granted,   \* the policy decision point
    ledger,     \* the consent engine
    posted,     \* the terms of the consents queries have asked for
    arrived,    \* history: when each query arrived
    signed      \* history: the approvals given, and by whom

policyVars == <<rows, lastId, now, req, granted>>
consentVars == <<ledger, signed>>
exchangeVars == <<vars, policyVars, consentVars, posted, arrived>>

\* Rows are stored by schema id and field; a source is a schema id.
Pdp == INSTANCE PolicyDecisionPoint WITH
          Requests <- PolicyRequests, Fields <- Columns, Owners <- FieldOwners,
          Schemas <- Sources, SchemaOf <- SourceOf

\* A person is known to the engine by an e-mail address.  No grant duration is
\* asked for, and the consent engine has one for that.
Ce == INSTANCE ConsentLedger WITH
         Ids <- ConsentIds, Emails <- Owners, FieldLists <- SUBSET Columns,
         GrantDurations <- {None},
         Nobody <- "nobody", Replaced <- "replaced", Revoker <- "revoker"

ASSUME ExchangeAssumption ==
    /\ Consents = [app : Apps, owner : Owners, columns : SUBSET Columns]
    /\ MaxRows \in Nat /\ MaxTime \in Nat
    /\ GrantLength \in [DOMAIN GrantLength -> Nat]
    /\ MetadataRequests \subseteq SUBSET Pdp!FieldRecords
    /\ FieldSets \subseteq (SUBSET Columns) \ {{}}
    /\ None \notin Nat /\ None \notin FieldOwners
    /\ None \notin Pdp!Row /\ None \notin Ce!Entries
    /\ {"nobody", "replaced", "revoker"} \intersect Owners = {}

-----------------------------------------------------------------------------
(* What the services would answer now *)

Rule(app, c) ==
    LET d == Pdp!Decision(app, {c}) IN
    IF rows[c] = None \/ ~Pdp!Clean(d) THEN "refused"
    ELSE IF d.consentRequired # {} THEN "consent" ELSE "open"

PolicyOf == [p \in Apps \X Columns |-> Rule(p[1], p[2])]

ConsentOf(terms) == [app |-> terms.app, owner |-> terms.owner, columns |-> terms.fields]

Approvals == {id \in ConsentIds : ledger[id] # None /\ ledger[id].status = "approved"}
ApprovedOf == {ConsentOf(ledger[id].terms) : id \in Approvals}

\* The request to the consent engine: the owner's identifier is passed as the
\* e-mail address too.
TermsOf(r) == [owner |-> Owner(r), email |-> Owner(r), app |-> r.ask.app,
               fields |-> r.need, duration |-> None]

-----------------------------------------------------------------------------

Settlements == {"approved", "rejected", "expired", "revoked"}

ExchangeInit ==
    /\ Init /\ Pdp!Init /\ Ce!Init
    /\ posted = {}
    /\ arrived = [q \in Queries |-> 0]
    /\ signed = {}

\* A step of the engine.  A query that waits for the consent engine has posted.
EngineStep ==
    /\ EngineNext \/ SchemasActivated
    /\ posted' = posted \union
          {TermsOf(query'[q]) : q \in {p \in Queries : query'[p].pc = "ce"}}
    /\ arrived' = [q \in Queries |-> IF query[q].pc = "idle" THEN now ELSE arrived[q]]
    /\ UNCHANGED <<policyVars, consentVars>>

\* A step of the PDP: metadata, grants, decisions for others, the clock.
PolicyStep ==
    /\ Pdp!Next
    /\ policy' = PolicyOf'
    /\ Witness(policy', approved)
    /\ UNCHANGED <<config, active, approved, query, consentVars, posted, arrived>>

\* The ledger's actions.  A consent is asked for by a query, although the consent
\* engine may act on it late, when the query has given up.
AskedByQuery ==
    \E id \in ConsentIds, terms \in posted :
       \/ ledger' = Ce!Asked(id, terms) /\ Ce!Ask(id)
       \/ \E old \in ConsentIds :
             /\ ledger[old] # None
             /\ ledger' = Ce!Succeeded(old, id, terms)
             /\ Ce!Replace(old, id)

ConsentSettled ==
    \E id \in ConsentIds, status \in Settlements, by \in Owners \union {"nobody", "revoker"} :
       /\ ledger[id] # None
       /\ ledger' = Ce!Settled(id, status, by)
       /\ Ce!Settle(id)

\* A step of the consent engine.
ConsentStep ==
    /\ AskedByQuery \/ ConsentSettled
    /\ approved' = ApprovedOf'
    /\ signed' = signed \union
          {[by |-> ledger'[id].by, terms |-> ledger'[id].terms] : id \in Approvals'}
    /\ Witness(policy, approved')
    /\ UNCHANGED <<config, active, policy, query, policyVars, posted, arrived>>

ExchangeNext == EngineStep \/ PolicyStep \/ ConsentStep

ExchangeSpec == ExchangeInit /\ [][ExchangeNext]_exchangeVars

-----------------------------------------------------------------------------
(* Properties *)

\* Query q, which asks for column c in this step, has what it takes: a grant that
\* had not run out when it came, and, unless the column was open meanwhile, the
\* consent that its data owner has given himself to this application.
Backed(q, c) ==
    LET r == query'[q]
        grant == granted[<<r.ask.app, c>>]
    IN
    /\ grant # None /\ arrived[q] <= grant
    /\ \/ c \in seen[q].open
       \/ \E x \in signed : /\ x.by = Owner(r)
                            /\ x.terms.app = r.ask.app /\ c \in x.terms.fields
                            /\ ConsentOf(x.terms) \in seen[q].approved

BacksReleases ==
    \A q \in Queries : query[q].pc = "build" /\ query'[q].pc = "fanout" /\ config.pdp =>
        \A s \in Asked(query'[q]) : \A c \in AskedOf(query'[q], s) : Backed(q, c)

\* Whatever the three services do to each other, with requests of the portals in
\* between, late, lost or answered from what has changed since, no provider is asked
\* for data without a grant and the owner's own consent (FederateQuery,
\* GetPolicyDecision, UpdateAllowList, CreateConsentRecord).  A public column
\* needs a grant too, because GetPolicyDecision asks for one; the README of the
\* policy decision point says of public fields that any application can access them.
ReleaseIsBacked == [][BacksReleases]_exchangeVars
=============================================================================
