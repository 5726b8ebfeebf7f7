---------------------------- MODULE Provisioning ----------------------------
(***************************************************************************)
(* Approvals in the portal backend (src/portal-backend/v1/services): a     *)
(* submission is approved, and the application or the schema it asks for   *)
(* is created by a saga over the identity provider, the portal's database  *)
(* and the policy decision point, with compensations when a step fails.    *)
(*                                                                         *)
(* An application is an IdP application, a row, and a grant in the PDP; a  *)
(* schema is a row, and policy metadata in the PDP.  The requests of one   *)
(* portal process interleave, calls fail or time out, and the process can  *)
(* crash between any two steps.                                            *)
(***************************************************************************)
EXTENDS Naturals

CONSTANTS
    Requests,           \* slots for requests in flight
    Applications, Schemas,   \* the ids the requests may create
    ApplicationSubmissions, SchemaSubmissions,
    None

Resources == Applications \union Schemas
Submissions == ApplicationSubmissions \union SchemaSubmissions
Statuses == {"pending", "approved", "rejected"}
CallStates == {"sent", "refused", "200", "201"}

ASSUME ConstantsAssumption ==
    /\ Applications \intersect Schemas = {}
    /\ ApplicationSubmissions \intersect SchemaSubmissions = {}
    /\ None \notin Resources \union Submissions \union Statuses \union CallStates

VARIABLES
    status,    \* the status of every submission, None before it is made
    used,      \* the ids given to a creation
    idp,       \* the applications that exist in the identity provider
    rows,      \* the applications and schemas in the portal's database
    pdp,       \* those the PDP has a grant or policy metadata for
    call,      \* the PDP call of a resource: sent, refused, or its HTTP status
    req,       \* the local state of every request slot
    unclean    \* history: resources whose clean-up was missed or undone

vars == <<status, used, idp, rows, pdp, call, req, unclean>>
stores == <<idp, rows, pdp>>

\* A request at step pc, for submission sub, which it saves with the status
\* saved, and for the resource id, if it creates or updates one.
At(pc, sub, saved, id) == [pc |-> pc, sub |-> sub, saved |-> saved, id |-> id]
Idle == At("idle", None, None, None)

Init == /\ status = [s \in Submissions |-> None]
        /\ used = {} /\ idp = {} /\ rows = {} /\ pdp = {} /\ unclean = {}
        /\ call = [i \in Resources |-> None]
        /\ req = [r \in Requests |-> Idle]

Goto(r, q) == req' = [req EXCEPT ![r] = q]
Finish(r) == Goto(r, Idle)
Advance(r, pc) == Goto(r, [req[r] EXCEPT !.pc = pc])

\* A creation that has failed: an approval puts its submission back to pending.
Failed(r) == IF req[r].sub = None THEN Finish(r) ELSE Advance(r, "revert")

\* Mutant: a schema goes through the identity provider, too.
FirstForAll(i) == "idpCreate"

\* The first step of the saga that creates i.
First(i) == IF i \in Applications THEN "idpCreate" ELSE "insert"

-----------------------------------------------------------------------------
(* Submissions *)

CreateSubmission(s) ==
    /\ status[s] = None
    /\ status' = [status EXCEPT ![s] = "pending"]
    /\ UNCHANGED <<used, stores, call, req, unclean>>

Wanted(s) == IF s \in ApplicationSubmissions THEN Applications ELSE Schemas

\* UpdateApplicationSubmission and UpdateSchemaSubmission read the row; the
\* status is one of the fields a request may or may not provide.  The id of the
\* resource an approval creates is taken here, so that bounded ids stop no saga.
UpdateSubmission(r) ==
    /\ req[r].pc = "idle"
    /\ \E s \in Submissions :
          /\ status[s] # None
          /\ \/ /\ \E st \in {status[s], "pending", "rejected"} :
                      Goto(r, At("save", s, st, None))
                /\ UNCHANGED used
             \/ \E i \in Wanted(s) \ used :
                   /\ Goto(r, At("save", s, "approved", i))
                   /\ used' = used \union {i}
    /\ UNCHANGED <<status, stores, call, unclean>>

\* The Save of the whole submission row, which may fail.
SaveSubmission(r) ==
    LET q == req[r] IN
    /\ q.pc = "save"
    /\ \/ /\ status' = [status EXCEPT ![q.sub] = q.saved]
          /\ IF q.id = None THEN Finish(r) ELSE Advance(r, First(q.id))
       \/ UNCHANGED status /\ Finish(r)
    /\ UNCHANGED <<used, stores, call, unclean>>

\* The compensation of an approval, which may fail too.
RevertSubmission(r) ==
    /\ req[r].pc = "revert"
    /\ status' \in {status, [status EXCEPT ![req[r].sub] = "pending"]}
    /\ Finish(r)
    /\ UNCHANGED <<used, stores, call, unclean>>

-----------------------------------------------------------------------------
(* CreateApplication and CreateSchema *)

\* Mutant: the id of a creation may have been used before.
CreateAgain(r) ==
    /\ req[r].pc = "idle"
    /\ \E i \in Resources :
          /\ Goto(r, At(First(i), None, None, i))
          /\ used' = used \union {i}
    /\ UNCHANGED <<status, stores, call, unclean>>

\* POST /api/v1/applications and /api/v1/schemas create without a submission.
Create(r) ==
    /\ req[r].pc = "idle"
    /\ \E i \in Resources \ used :
          /\ Goto(r, At(First(i), None, None, i))
          /\ used' = used \union {i}
    /\ UNCHANGED <<status, stores, call, unclean>>

\* The IdP creates the application; a failed call may have created it as well.
CreateIdpApplication(r) ==
    LET i == req[r].id IN
    /\ req[r].pc = "idpCreate"
    /\ \/ idp' = idp \union {i} /\ unclean' = unclean /\ Advance(r, "oidc")
       \/ idp' = idp /\ unclean' = unclean /\ Failed(r)
       \/ idp' = idp \union {i} /\ unclean' = unclean \union {i} /\ Failed(r)
    /\ UNCHANGED <<status, used, rows, pdp, call>>

\* Reading the client id; an error here is returned without a compensation.
GetApplicationOIDC(r) ==
    /\ req[r].pc = "oidc"
    /\ \/ unclean' = unclean /\ Advance(r, "insert")
       \/ unclean' = unclean \union {req[r].id} /\ Failed(r)
    /\ UNCHANGED <<status, used, stores, call>>

\* Mutant: an insert that failed leaves the IdP application alone.
InsertRowWithoutCompensation(r) ==
    LET i == req[r].id IN
    /\ req[r].pc = "insert"
    /\ \/ rows' = rows \union {i} /\ Advance(r, "call")
       \/ rows' = rows /\ Failed(r)
    /\ UNCHANGED <<status, used, idp, pdp, call, unclean>>

InsertRow(r) ==
    LET i == req[r].id IN
    /\ req[r].pc = "insert"
    /\ \/ rows' = rows \union {i} /\ Advance(r, "call")
       \/ /\ rows' = rows
          /\ IF i \in Applications THEN Advance(r, "deleteIdp") ELSE Failed(r)
    /\ UNCHANGED <<status, used, idp, pdp, call, unclean>>

\* The HTTP call to the PDP, unless it fails before it is sent.
CallPdp(r) ==
    /\ req[r].pc = "call"
    /\ \/ /\ call' = [call EXCEPT ![req[r].id] = "sent"]
          /\ Advance(r, "wait")
       \/ UNCHANGED call /\ Advance(r, "deleteRow")
    /\ UNCHANGED <<status, used, stores, unclean>>

\* The PDP commits: update-allowlist answers 200, metadata answers 201.
PdpCommits(i) ==
    /\ call[i] = "sent"
    /\ pdp' = pdp \union {i}
    /\ call' = [call EXCEPT ![i] = IF i \in Applications THEN "200" ELSE "201"]
    /\ UNCHANGED <<status, used, idp, rows, req, unclean>>

PdpRefuses(i) ==
    /\ call[i] = "sent"
    /\ call' = [call EXCEPT ![i] = "refused"]
    /\ UNCHANGED <<status, used, stores, req, unclean>>

\* Mutant: any answer of the PDP will do.
AcceptsAnyAnswer(code) == code # "sent"

\* pdp_service.go: the one status that is not an error.
Accepted(code) == code = "200"

PdpReply(r) ==
    LET i == req[r].id IN
    /\ req[r].pc = "wait"
    /\ call[i] # "sent"
    /\ Advance(r, IF Accepted(call[i]) THEN "ok" ELSE "deleteRow")
    /\ UNCHANGED <<status, used, stores, call, unclean>>

\* Mutant: the HTTP client has no timeout.
TimeoutNever(r) == req[r].pc = "wait" /\ FALSE /\ UNCHANGED vars

\* The HTTP client gives up after 10 seconds; the PDP may still commit.
Timeout(r) ==
    /\ req[r].pc = "wait"
    /\ Advance(r, "deleteRow")
    /\ UNCHANGED <<status, used, stores, call, unclean>>

-----------------------------------------------------------------------------
(* Compensations: each is tried once, and may fail *)

DeleteRow(r) ==
    LET i == req[r].id IN
    /\ req[r].pc = "deleteRow"
    /\ \/ rows' = rows \ {i} /\ unclean' = unclean
       \/ rows' = rows /\ unclean' = unclean \union {i}
    /\ IF i \in Applications THEN Advance(r, "deleteIdp") ELSE Failed(r)
    /\ UNCHANGED <<status, used, idp, pdp, call>>

DeleteIdpApplication(r) ==
    LET i == req[r].id IN
    /\ req[r].pc = "deleteIdp"
    /\ \/ idp' = idp \ {i} /\ unclean' = unclean
       \/ idp' = idp /\ unclean' = unclean \union {i}
    /\ Failed(r)
    /\ UNCHANGED <<status, used, rows, pdp, call>>

Return(r) == /\ req[r].pc = "ok"
             /\ Finish(r)
             /\ UNCHANGED <<status, used, stores, call, unclean>>

-----------------------------------------------------------------------------
(* UpdateApplication and UpdateSchema: a read, then a Save of the row *)

UpdateResource(r) ==
    /\ req[r].pc = "idle"
    /\ \E i \in rows : Goto(r, At("update", None, None, i))
    /\ UNCHANGED <<status, used, stores, call, unclean>>

\* Save inserts the row again if a compensation has deleted it meanwhile; it may
\* fail.
SaveResource(r) ==
    LET i == req[r].id IN
    /\ req[r].pc = "update"
    /\ \/ /\ rows' = rows \union {i}
          /\ unclean' = IF i \in rows THEN unclean ELSE unclean \union {i}
       \/ UNCHANGED <<rows, unclean>>
    /\ Finish(r)
    /\ UNCHANGED <<status, used, idp, pdp, call>>

-----------------------------------------------------------------------------
(* The creations under way; a crash ends them, and leaves what they have done. *)

Creating(r) == req[r].pc \notin {"idle", "save", "revert", "ok", "update"}

Crash ==
    /\ \E r \in Requests : req[r].pc # "idle"
    /\ req' = [r \in Requests |-> Idle]
    /\ unclean' = unclean \union {req[r].id : r \in {x \in Requests : Creating(x)}}
    /\ UNCHANGED <<status, used, stores, call>>

Arrival(r) == UpdateSubmission(r) \/ Create(r) \/ UpdateResource(r)

\* The steps that end with an answer of the identity provider.
IdpStep(r) ==
    CreateIdpApplication(r) \/ GetApplicationOIDC(r) \/ DeleteIdpApplication(r)

\* The steps that the portal and its database take, a timeout being one.
OwnStep(r) == \/ SaveSubmission(r) \/ RevertSubmission(r) \/ InsertRow(r)
              \/ CallPdp(r) \/ PdpReply(r) \/ Timeout(r) \/ DeleteRow(r)
              \/ Return(r) \/ SaveResource(r)

Step(r) == IdpStep(r) \/ OwnStep(r)

Next == \/ \E s \in Submissions : CreateSubmission(s)
        \/ \E r \in Requests : Arrival(r) \/ Step(r)
        \/ \E i \in Resources : PdpCommits(i) \/ PdpRefuses(i)
        \/ Crash

\* Go schedules every request that can go on, and database calls return.  Nothing
\* is assumed of the PDP, of crashes or of new requests, and nothing of the IdP:
\* its client is made from context.Background() and has no timeout, and the
\* request's context has no deadline (idp/asgardeo/client.go).
Fairness == \A r \in Requests : WF_vars(OwnStep(r))

Spec == Init /\ [][Next]_vars /\ Fairness

-----------------------------------------------------------------------------
(* Properties *)

Request ==
    [pc: {"idle", "save", "revert", "idpCreate", "oidc", "insert", "call",
          "wait", "deleteRow", "deleteIdp", "ok", "update"},
     sub: Submissions \union {None}, saved: Statuses \union {None},
     id: Resources \union {None}]

\* The type invariant.
TypeOK == /\ status \in [Submissions -> Statuses \union {None}]
          /\ used \subseteq Resources
          /\ idp \subseteq Applications \intersect used
          /\ rows \subseteq used /\ pdp \subseteq used /\ unclean \subseteq used
          /\ call \in [Resources -> CallStates \union {None}]
          /\ req \in [Requests -> Request]

Settled(i) == \A r \in Requests : Creating(r) => req[r].id # i

Whole(i) == i \in rows /\ i \in pdp /\ (i \in Applications => i \in idp)
Gone(i) == i \notin rows /\ i \notin idp

\* The creation sagas are all-or-nothing.  Once no request works on a resource,
\* either every part of it exists or no part that the portal can undo does:
\* whichever step failed, and however late the PDP commits.  What escapes this
\* is listed by unclean, and nothing else does: a crash, a compensation that
\* failed, an error of the OIDC read, an IdP call that failed after all, and an
\* update that inserts a deleted row again.
AllOrNothing ==
    \A i \in used \ unclean :
       Settled(i) => Whole(i) \/ Gone(i)

\* A request that answers that an application has been created is right: it is
\* in the IdP, in the database and on the allow lists of the PDP, whatever other
\* requests and compensations have run (application_service.go CreateApplication).
SuccessIsComplete ==
    \A r \in Requests : req[r].pc = "ok" => Whole(req[r].id)

WaitsForIdp(r) == req[r].pc \in {"idpCreate", "oidc", "deleteIdp"}

\* Every request is answered, even if the PDP never answers its call
\* (pdp_service.go), unless it waits for ever for a silent identity provider.
EveryRequestAnswered ==
    \A r \in Requests :
       []<>~WaitsForIdp(r) => (req[r].pc # "idle" ~> req[r].pc = "idle")

-----------------------------------------------------------------------------
(* The promise *)

\* A request creates i, or has just created it or failed to.
Held(i) == \E r \in Requests : req[r].id = i /\ req[r].pc \notin {"idle", "update"}
Left(i) == i \in used \ unclean /\ ~Held(i)

\* A resource in a state that nobody should leave it in is broken.
Phase(i) ==
    CASE i \notin used                          -> "new"
      [] i \in unclean                          -> "unclean"
      [] i \in used \ unclean /\ Held(i)        -> "working"
      [] Left(i) /\ Whole(i)                    -> "whole"
      [] Left(i) /\ Gone(i)                     -> "gone"
      [] Left(i) /\ ~Whole(i) /\ ~Gone(i)       -> "broken"

Lifecycle == INSTANCE ResourceLifecycle WITH
                 phase <- [i \in Resources |-> Phase(i)]

\* Whatever the requests, the failures, the crashes and the late commits of the
\* PDP do to the stores, each resource is worked on by one creation only, which
\* leaves it whole, gone or unclean; what is whole stays whole, and what is gone
\* comes back only as unclean, by the save of a row that was read before.
ImplementsLifecycle == Lifecycle!Spec
=============================================================================
