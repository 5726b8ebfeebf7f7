---------------------------- MODULE PortalAccess ----------------------------
(***************************************************************************)
(* The v1 API of the portal backend (src/portal-backend/v1): who may read  *)
(* and write which rows.  A request passes the authorization middleware,   *)
(* is routed to its handler, and reads the database up to three times      *)
(* before it writes: the row it is about, the caller's member record, and, *)
(* in the service, the row once more.  Each of these is a step, so that    *)
(* requests interleave between the check of an owner and the write.        *)
(*                                                                         *)
(* Rows are abstracted to their owner and to the token of their last       *)
(* writer (a history component).  What the services do in the identity     *)
(* provider and the PDP is the subject of Provisioning and Members; here   *)
(* they succeed or fail, and clean up what they inserted or fail to.       *)
(***************************************************************************)
EXTENDS Naturals, FiniteSets

CONSTANTS
    Requests,         \* slots for requests in flight
    Users,            \* users of the identity provider (the claim sub)
    MemberIds, Schemas, SchemaSubmissions, Applications, ApplicationSubmissions,
    Tokens,           \* the validated tokens: a user and its valid roles
    Mode,             \* AUTHORIZATION_MODE
    None,
    Deleted,          \* a row that a compensation has deleted
    MaxRows           \* a bound on the rows ever inserted

Roles == {"admin", "member", "system"}
Modes == {"fail_closed", "fail_open_admin", "fail_open_admin_system"}
Collections == {"members", "schemas", "schema-submissions",
                "applications", "application-submissions"}
Verbs == {"create", "read", "update", "delete", "readAll"}
Methods == {"GET", "POST", "PUT", "DELETE"}

\* The shapes of a path: /schemas, /schemas/, /schemas/x and /schemas/x/y.
Shapes == {"bare", "slash", "item", "deep"}

Submissions == SchemaSubmissions \union ApplicationSubmissions
Ids == Schemas \union Applications \union Submissions

ASSUME ConstantsAssumption ==
    /\ Tokens \subseteq [user: Users, roles: SUBSET Roles]
    /\ \A t \in Tokens : t.roles # {}
    /\ Mode \in Modes
    /\ MaxRows \in Nat
    /\ Schemas \intersect Applications = {}
    /\ SchemaSubmissions \intersect ApplicationSubmissions = {}
    /\ (Schemas \union Applications) \intersect Submissions = {}
    /\ None \notin MemberIds \union Ids \union Tokens
    /\ None \notin [owner: MemberIds, by: Tokens] \union [user: Users, by: Tokens]
    /\ Deleted \notin [owner: MemberIds, by: Tokens] \union {None}

VARIABLES
    members,   \* the members table: the IdP user of every member id
    rows,      \* the other four tables: the owner of every id
    req        \* the local state of every request slot

vars == <<members, rows, req>>

\* A request at step pc, made with token, that does op to the row id of
\* collection coll, which belongs to owner; sub is the submission whose
\* approval it is, code its HTTP status and seen the owners of the rows served.
At(pc, token, op, coll, id, owner) ==
    [pc |-> pc, token |-> token, op |-> op, coll |-> coll, id |-> id,
     owner |-> owner, sub |-> None, code |-> 0, seen |-> {}]
Idle == At("idle", None, "none", "none", None, None)

Init == /\ members = [m \in MemberIds |-> None]
        /\ rows = [i \in Ids |-> None]
        /\ req = [r \in Requests |-> Idle]

Goto(r, q) == req' = [req EXCEPT ![r] = q]
Reply(r, t, code, seen) ==
    Goto(r, [pc |-> "replied", token |-> t, op |-> "none", coll |-> "none", id |-> None,
             owner |-> None, sub |-> None, code |-> code, seen |-> seen])

-----------------------------------------------------------------------------
(* Roles, permissions and endpoints *)

RolePermissions ==
    [admin |-> Collections \X Verbs,
     member |-> ((Collections \ {"members"}) \X {"create", "read", "update"})
                \union ({"members"} \X {"read", "update"}),
     system |-> Collections \X {"read", "readAll"}]

HasPermission(t, coll, verb) == \E role \in t.roles : <<coll, verb>> \in RolePermissions[role]
IsAdmin(t) == "admin" \in t.roles
IsSystem(t) == "system" \in t.roles

Endpoint(method, wild, verb, colls) ==
    [method: {method}, wild: {wild}, verb: {verb}, coll: colls]

EndpointPermissions ==
    UNION {Endpoint("GET", FALSE, "read", Collections),
           Endpoint("POST", FALSE, "create", Collections),
           Endpoint("GET", TRUE, "read", Collections),
           Endpoint("PUT", TRUE, "update", Collections),
           Endpoint("DELETE", TRUE, "delete", {"schemas", "applications"})}

\* An exact path, or a pattern: its prefix ends with a slash.
MatchesEndpoint(shape, e) == e.wild = (shape # "bare")

\* Mutant: patterns are never matched.
FindExactOnly(method, coll, shape) ==
    {e \in EndpointPermissions : /\ e.method = method /\ e.coll = coll
                                 /\ ~e.wild /\ MatchesEndpoint(shape, e)}

FindEndpointPermission(method, coll, shape) ==
    {e \in EndpointPermissions : /\ e.method = method /\ e.coll = coll
                                 /\ MatchesEndpoint(shape, e)}

\* Whether a request to an endpoint without a permission goes on.
HandleUndefinedEndpoint(t) ==
    \/ Mode \in {"fail_open_admin", "fail_open_admin_system"} /\ IsAdmin(t)
    \/ Mode = "fail_open_admin_system" /\ IsSystem(t)

Authorized(t, method, coll, shape) ==
    LET found == FindEndpointPermission(method, coll, shape) IN
    IF found = {} THEN HandleUndefinedEndpoint(t)
    ELSE \A e \in found : HasPermission(t, coll, e.verb)

\* handleMembers, handleSchemas, ...: which handlers there are.
Routed(method, shape) ==
    \/ shape \in {"bare", "slash"} /\ method \in {"GET", "POST"}
    \/ shape = "item" /\ method \in {"GET", "PUT"}

\* A request that the middleware or the router turns away.
TurnAway(r) ==
    /\ req[r].pc = "idle"
    /\ \E t \in Tokens, method \in Methods, coll \in Collections, shape \in Shapes :
          \/ /\ ~Authorized(t, method, coll, shape)
             /\ Reply(r, t, 403, {})
          \/ /\ Authorized(t, method, coll, shape) /\ ~Routed(method, shape)
             /\ Reply(r, t, IF shape = "deep" THEN 404 ELSE 405, {})
    /\ UNCHANGED <<members, rows>>

Arrives(r, t, method, coll, shapes) ==
    /\ req[r].pc = "idle"
    /\ \E shape \in shapes : Authorized(t, method, coll, shape)

-----------------------------------------------------------------------------
(* Members and owners *)

\* getUserMemberID: the record of the caller, if there is one.
MemberOf(t) == {m \in MemberIds : members[m] # None /\ members[m].user = t.user}

Stored(i) == rows[i] \notin {None, Deleted}

\* Mutant: any member may touch the row.
CheckMemberOnly(r) ==
    LET q == req[r] IN
    /\ q.pc = "own"
    /\ IF MemberOf(q.token) = {} THEN Reply(r, q.token, 403, {})
       ELSE IF q.op = "read" THEN Reply(r, q.token, 200, {q.owner})
       ELSE Goto(r, [q EXCEPT !.pc = "call"])
    /\ UNCHANGED <<members, rows>>

\* The ownership check of a non-admin, after the row has been read.
CheckOwner(r) ==
    LET q == req[r] IN
    /\ q.pc = "own"
    /\ IF q.owner \notin MemberOf(q.token) THEN Reply(r, q.token, 403, {})
       ELSE IF q.op = "read" THEN Reply(r, q.token, 200, {q.owner})
       ELSE Goto(r, [q EXCEPT !.pc = "call"])
    /\ UNCHANGED <<members, rows>>

\* The owner of what a non-admin creates: the caller's member, whatever the body
\* of a schema or application says; a submission for someone else is refused.
SetOwner(r) ==
    LET q == req[r]
        strict == q.coll \in {"schema-submissions", "application-submissions"}
    IN
    /\ q.pc = "setOwner"
    /\ \/ /\ MemberOf(q.token) = {}
          /\ Reply(r, q.token, 403, {})
       \/ \E m \in MemberOf(q.token) :
             IF strict /\ q.owner \notin {None, m}
             THEN Reply(r, q.token, 403, {})
             ELSE Goto(r, [q EXCEPT !.pc = "insert", !.owner = m])
    /\ UNCHANGED <<members, rows>>

-----------------------------------------------------------------------------
(* The patterns the handlers follow *)

\* The owners of the rows a list query returns.
Listed(ids, filter) ==
    {rows[i].owner : i \in {j \in ids : Stored(j) /\ filter \in {None, rows[j].owner}}}

Admins == {t \in Tokens : IsAdmin(t)}
ReadersOfAll(coll) == {t \in Tokens : HasPermission(t, coll, "readAll")}

\* A list handler: for the tokens in free the filter of the query string is used
\* as it is; anyone else sees its own rows, and needs a member record.
ListRows(r, coll, ids, free) ==
    /\ \E t \in Tokens :
          /\ Arrives(r, t, "GET", coll, {"bare", "slash"})
          /\ \/ /\ t \notin free
                /\ \/ ~HasPermission(t, coll, "read") \/ MemberOf(t) = {}
                /\ Reply(r, t, 403, {})
             \/ /\ t \notin free /\ HasPermission(t, coll, "read")
                /\ \E m \in MemberOf(t) : Reply(r, t, 200, Listed(ids, m))
             \/ /\ t \in free
                /\ \E filter \in MemberIds \union {None} :
                      Reply(r, t, 200, Listed(ids, filter))
    /\ UNCHANGED <<members, rows>>

\* A handler that reads the row, and goes on to the owner check or, for an
\* administrator, to next.
LoadRow(r, t, op, coll, i, next) ==
    IF ~Stored(i) THEN Reply(r, t, 404, {})
    ELSE IF ~IsAdmin(t) THEN Goto(r, At("own", t, op, coll, i, rows[i].owner))
    ELSE IF op = "read" THEN Reply(r, t, 200, {rows[i].owner})
    ELSE Goto(r, At(next, t, op, coll, i, rows[i].owner))

ReadRow(r, coll, ids) ==
    /\ \E t \in Tokens, i \in ids :
          /\ Arrives(r, t, "GET", coll, {"item"})
          /\ IF HasPermission(t, coll, "read")
             THEN LoadRow(r, t, "read", coll, i, "replied")
             ELSE Reply(r, t, 403, {})
    /\ UNCHANGED <<members, rows>>

UpdateRow(r, coll, ids, ops) ==
    /\ \E t \in Tokens, i \in ids, op \in ops :
          /\ Arrives(r, t, "PUT", coll, {"item"})
          /\ IF HasPermission(t, coll, "update")
             THEN LoadRow(r, t, op, coll, i, "call")
             ELSE Reply(r, t, 403, {})
    /\ UNCHANGED <<members, rows>>

CreateRow(r, coll) ==
    /\ \E t \in Tokens, asked \in MemberIds \union {None} :
          /\ Arrives(r, t, "POST", coll, {"bare", "slash"})
          /\ IF HasPermission(t, coll, "create")
             THEN Goto(r, At(IF IsAdmin(t) THEN "insert" ELSE "setOwner",
                             t, "create", coll, None, asked))
             ELSE Reply(r, t, 403, {})
    /\ UNCHANGED <<members, rows>>

-----------------------------------------------------------------------------
(* The handlers *)

GetAllSchemas(r) == ListRows(r, "schemas", Schemas, Admins)
GetSchema(r) == ReadRow(r, "schemas", Schemas)
CreateSchema(r) == CreateRow(r, "schemas")
UpdateSchema(r) == UpdateRow(r, "schemas", Schemas, {"update"})

GetAllSchemaSubmissions(r) ==
    ListRows(r, "schema-submissions", SchemaSubmissions, ReadersOfAll("schema-submissions"))
GetSchemaSubmission(r) == ReadRow(r, "schema-submissions", SchemaSubmissions)
CreateSchemaSubmission(r) == CreateRow(r, "schema-submissions")
UpdateSchemaSubmission(r) ==
    UpdateRow(r, "schema-submissions", SchemaSubmissions, {"update", "approve"})

GetAllApplications(r) ==
    ListRows(r, "applications", Applications, ReadersOfAll("applications"))
GetApplication(r) == ReadRow(r, "applications", Applications)
CreateApplication(r) == CreateRow(r, "applications")
UpdateApplication(r) == UpdateRow(r, "applications", Applications, {"update"})

GetAllApplicationSubmissions(r) ==
    ListRows(r, "application-submissions", ApplicationSubmissions, Admins)
GetApplicationSubmission(r) == ReadRow(r, "application-submissions", ApplicationSubmissions)
CreateApplicationSubmission(r) == CreateRow(r, "application-submissions")
UpdateApplicationSubmission(r) ==
    UpdateRow(r, "application-submissions", ApplicationSubmissions, {"update", "approve"})

GetAllMembers(r) ==
    /\ \E t \in Tokens :
          /\ Arrives(r, t, "GET", "members", {"bare", "slash"})
          /\ IF HasPermission(t, "members", "readAll")
             THEN \E ms \in {{m} : m \in MemberIds} \union {MemberIds} :
                     Reply(r, t, 200, {m \in ms : members[m] # None})
             ELSE IF ~HasPermission(t, "members", "read") THEN Reply(r, t, 403, {})
             ELSE Reply(r, t, IF MemberOf(t) = {} THEN 500 ELSE 200, MemberOf(t))
    /\ UNCHANGED <<members, rows>>

\* getMember and updateMember compare the IdP user, and look at no permission.
GetMember(r) ==
    /\ \E t \in Tokens, m \in MemberIds :
          /\ Arrives(r, t, "GET", "members", {"item"})
          /\ IF members[m] = None THEN Reply(r, t, 404, {})
             ELSE IF IsAdmin(t) \/ members[m].user = t.user THEN Reply(r, t, 200, {m})
             ELSE Reply(r, t, 403, {})
    /\ UNCHANGED <<members, rows>>

UpdateMember(r) ==
    /\ \E t \in Tokens, m \in MemberIds :
          /\ Arrives(r, t, "PUT", "members", {"item"})
          /\ IF members[m] = None THEN Reply(r, t, 404, {})
             ELSE IF IsAdmin(t) \/ members[m].user = t.user
             THEN Goto(r, At("saveMember", t, "update", "members", None, m))
             ELSE Reply(r, t, 403, {})
    /\ UNCHANGED <<members, rows>>

CreateMember(r) ==
    /\ \E t \in Tokens, m \in MemberIds :
          /\ Arrives(r, t, "POST", "members", {"bare", "slash"})
          /\ IF HasPermission(t, "members", "create")
             THEN Goto(r, At("insertMember", t, "create", "members", None, m))
             ELSE Reply(r, t, 403, {})
    /\ UNCHANGED <<members, rows>>

-----------------------------------------------------------------------------
(* The services: what is left of them in the portal's tables *)

\* MemberService.CreateMember inserts the record of an IdP user that has none
\* (its id is new, and the column idp_user_id is unique).
InsertMember(r) ==
    LET q == req[r] IN
    /\ q.pc = "insertMember"
    /\ \/ /\ members[q.owner] = None
          /\ \E u \in Users :
                /\ \A m \in MemberIds : members[m] # None => members[m].user # u
                /\ members' = [members EXCEPT ![q.owner] = [user |-> u, by |-> q.token]]
          /\ Reply(r, q.token, 201, {q.owner})
       \/ UNCHANGED members /\ Reply(r, q.token, 400, {})
    /\ UNCHANGED rows

\* MemberService.UpdateMember; members are never deleted.
SaveMember(r) ==
    LET q == req[r] IN
    /\ q.pc = "saveMember"
    /\ \/ /\ members' = [members EXCEPT ![q.owner].by = q.token]
          /\ Reply(r, q.token, 200, {q.owner})
       \/ UNCHANGED members /\ Reply(r, q.token, 400, {})
    /\ UNCHANGED rows

\* A creation that has failed: an approval puts its submission back first.
Failed(r) == IF req[r].sub = None THEN Reply(r, req[r].token, 400, {})
             ELSE Goto(r, [req[r] EXCEPT !.pc = "revert"])

IdsOf(coll) == CASE coll = "schemas" -> Schemas
                 [] coll = "applications" -> Applications
                 [] coll = "schema-submissions" -> SchemaSubmissions
                 [] OTHER -> ApplicationSubmissions

\* Mutant: neither the service nor a foreign key looks the member up.
AnyOwner(m) == TRUE

\* First on members for a submission, the foreign key for the other tables.
OwnerExists(m) == m # None /\ members[m] # None

InsertRow(r) ==
    LET q == req[r] IN
    /\ q.pc = "insert"
    /\ \/ /\ OwnerExists(q.owner)
          /\ \E i \in IdsOf(q.coll) :
                /\ rows[i] = None /\ Cardinality({j \in Ids : rows[j] # None}) < MaxRows
                /\ rows' = [rows EXCEPT ![i] = [owner |-> q.owner, by |-> q.token]]
                /\ IF i \in Submissions
                   THEN Reply(r, q.token, 201, {q.owner})
                   ELSE Goto(r, [q EXCEPT !.pc = "provision", !.id = i])
       \/ UNCHANGED rows /\ Failed(r)
    /\ UNCHANGED members

\* The rest of CreateSchema and CreateApplication, compensations included.
Provision(r) ==
    LET q == req[r] IN
    /\ q.pc = "provision"
    /\ \/ /\ UNCHANGED rows
          /\ Reply(r, q.token, IF q.sub = None THEN 201 ELSE 200, {q.owner})
       \/ /\ rows' \in {rows, [rows EXCEPT ![q.id] = Deleted]}
          /\ Failed(r)
    /\ UNCHANGED members

\* The service reads the row again.
LoadAgain(r) ==
    LET q == req[r] IN
    /\ q.pc = "call"
    /\ IF Stored(q.id) THEN Goto(r, [q EXCEPT !.pc = "save", !.owner = rows[q.id].owner])
                       ELSE Reply(r, q.token, 400, {})
    /\ UNCHANGED <<members, rows>>

\* Save writes the whole row, and inserts it if it is gone; an approval goes on
\* to create what the submission asks for, for the member who submitted it.
SaveRow(r) ==
    LET q == req[r]
        wanted == IF q.id \in SchemaSubmissions THEN "schemas" ELSE "applications"
    IN
    /\ q.pc = "save"
    /\ \/ /\ rows' = [rows EXCEPT ![q.id] = [owner |-> q.owner, by |-> q.token]]
          /\ IF q.op = "approve"
             THEN Goto(r, [q EXCEPT !.pc = "insert", !.coll = wanted, !.sub = q.id])
             ELSE Reply(r, q.token, 200, {q.owner})
       \/ UNCHANGED rows /\ Reply(r, q.token, 400, {})
    /\ UNCHANGED members

\* The compensation of an approval, which may fail too.
Revert(r) ==
    LET q == req[r] IN
    /\ q.pc = "revert"
    /\ rows' \in {rows, [rows EXCEPT ![q.sub] = [owner |-> q.owner, by |-> q.token]]}
    /\ Reply(r, q.token, 400, {})
    /\ UNCHANGED members

Return(r) == /\ req[r].pc = "replied"
             /\ Goto(r, Idle)
             /\ UNCHANGED <<members, rows>>

\* A panic, an error of the database or the end of the process.
Fail(r) == /\ req[r].pc \notin {"idle", "replied"}
           /\ Goto(r, Idle)
           /\ UNCHANGED <<members, rows>>

Arrival(r) ==
    \/ TurnAway(r)
    \/ GetAllSchemas(r) \/ GetSchema(r) \/ CreateSchema(r) \/ UpdateSchema(r)
    \/ GetAllSchemaSubmissions(r) \/ GetSchemaSubmission(r)
    \/ CreateSchemaSubmission(r) \/ UpdateSchemaSubmission(r)
    \/ GetAllApplications(r) \/ GetApplication(r)
    \/ CreateApplication(r) \/ UpdateApplication(r)
    \/ GetAllApplicationSubmissions(r) \/ GetApplicationSubmission(r)
    \/ CreateApplicationSubmission(r) \/ UpdateApplicationSubmission(r)
    \/ GetAllMembers(r) \/ GetMember(r) \/ UpdateMember(r) \/ CreateMember(r)

Step(r) == \/ CheckOwner(r) \/ SetOwner(r) \/ InsertMember(r) \/ SaveMember(r)
           \/ InsertRow(r) \/ Provision(r) \/ LoadAgain(r) \/ SaveRow(r)
           \/ Revert(r) \/ Return(r) \/ Fail(r)

Next == \E r \in Requests : Arrival(r) \/ Step(r)

Spec == Init /\ [][Next]_vars

-----------------------------------------------------------------------------
(* Properties *)

Row == [owner: MemberIds, by: Tokens]
Request ==
    [pc: {"idle", "own", "setOwner", "call", "save", "insert", "provision",
          "revert", "insertMember", "saveMember", "replied"},
     token: Tokens \union {None},
     op: {"none", "read", "create", "update", "approve"},
     coll: Collections \union {"none"},
     id: Ids \union {None}, owner: MemberIds \union {None},
     sub: Submissions \union {None},
     code: {0, 200, 201, 400, 403, 404, 405, 500}, seen: SUBSET MemberIds]

\* The type invariant; every stored row has an owner.
TypeOK == /\ members \in [MemberIds -> [user: Users, by: Tokens] \union {None}]
          /\ rows \in [Ids -> Row \union {None, Deleted}]
          /\ req \in [Requests -> Request]

CollOf(i) == CASE i \in Schemas -> "schemas"
               [] i \in Applications -> "applications"
               [] i \in SchemaSubmissions -> "schema-submissions"
               [] OTHER -> "application-submissions"

\* Rows are written by administrators and by their own member only: however the
\* reads of a request, the requests of others and the compensations interleave,
\* the last writer of a row is one of the two.  An approval by a member creates
\* nothing for anybody else.
OwnerOrAdminWrites ==
    /\ \A i \in Ids : Stored(i) =>
          IsAdmin(rows[i].by) \/ rows[i].owner \in MemberOf(rows[i].by)
    /\ \A m \in MemberIds : members[m] # None =>
          IsAdmin(members[m].by) \/ members[m].by.user = members[m].user

\* A token that lacks the permission to create and to update writes nothing, on
\* any path that reaches a handler: an undefined endpoint which AUTHORIZATION_MODE
\* lets through, and the member handlers, which check no permission themselves.
ReadOnlyRolesNeverWrite ==
    /\ \A i \in Ids : Stored(i) =>
          \E verb \in {"create", "update"} : HasPermission(rows[i].by, CollOf(i), verb)
    /\ \A m \in MemberIds : members[m] # None =>
          \E verb \in {"create", "update"} : HasPermission(members[m].by, "members", verb)

\* What a request is answered with belongs to its caller, unless one of the
\* caller's roles may read everything: on every path (an item, a list with or
\* without a filter, the reply of a write), and for a caller whose member record
\* is created while the request runs.
OnlyOwnRowsServed ==
    \A r \in Requests :
       LET t == req[r].token IN
       req[r].pc = "replied" =>
          \/ req[r].seen \subseteq MemberOf(t)
          \/ \E coll \in Collections : HasPermission(t, coll, "readAll")

=============================================================================
