------------------------------ MODULE Members ------------------------------
(***************************************************************************)
(* The members of the portal: MemberService.CreateMember and UpdateMember  *)
(* (src/portal-backend/v1/services/member_service.go).  A member is a user *)
(* of the identity provider (IdP), its membership in the group             *)
(* OpenDIF_Members and a row of the table members, written by three calls  *)
(* that can each fail.  A failed call may have been carried out all the    *)
(* same: the answer was lost, was not the expected status or could not be  *)
(* decoded.  The compensations use the context of the HTTP request, so     *)
(* that a request which is cancelled may fail to undo what it did.         *)
(***************************************************************************)
EXTENDS FiniteSets

CONSTANTS
    Requests,   \* slots for requests in flight
    Users,      \* the ids the IdP gives to users
    Emails, Fields, Values,
    Creations,  \* the bodies of POST /members: an e-mail and a profile
    Updates,    \* the bodies of PUT /members/x: values for some of the fields
    None,
    Deleted     \* an IdP user that has been deleted; its id is not used again

Profiles == [Fields -> Values]
Account == [email: Emails, profile: Profiles]
Bodies == UNION {[fs -> Values] : fs \in SUBSET Fields}

ASSUME ConstantsAssumption ==
    /\ Creations \subseteq Account
    /\ Updates \subseteq Bodies
    /\ None \notin Account \union Users
    /\ Deleted \notin Account \union {None}

VARIABLES
    users,     \* the users of the IdP
    group,     \* the members of the group OpenDIF_Members in the IdP
    members,   \* the table members, by its unique column idp_user_id
    req,       \* the local state of every request slot
    lost,      \* history: the parts of members that calls have left behind
    drift      \* history: the members whose IdP profile may differ

vars == <<users, group, members, req, lost, drift>>

\* A request at step pc for the member with IdP user u: new is what it writes and
\* old the row it has read; alone says that no other update of u has overlapped it.
At(pc, u, new, old) == [pc |-> pc, user |-> u, new |-> new, old |-> old, alone |-> TRUE]
Idle == At("idle", None, None, None)

Init == /\ users = [u \in Users |-> None]
        /\ group = {}
        /\ members = [u \in Users |-> None]
        /\ req = [r \in Requests |-> Idle]
        /\ lost = {}
        /\ drift = {}

Goto(r, pc) == req' = [req EXCEPT ![r].pc = pc]
Done(r) == req' = [req EXCEPT ![r] = Idle]

Exists(u) == users[u] \notin {None, Deleted}

\* The parts of a member that are there.
Has(u) == {part \in {"user", "group", "row"} :
             \/ part = "user" /\ Exists(u)
             \/ part = "group" /\ u \in group
             \/ part = "row" /\ members[u] # None}

Busy(u) == \E r \in Requests : req[r].user = u

\* What is left behind by a call whose answer does not tell what it has done.
Leaves(part, u) == lost' = lost \union {<<part, u>>}

-----------------------------------------------------------------------------
(* CreateMember *)

CreateMember(r) ==
    /\ req[r].pc = "idle"
    /\ \E body \in Creations :
          req' = [req EXCEPT ![r] = At("createUser", None, body, None)]
    /\ UNCHANGED <<users, group, members, lost, drift>>

\* idp.CreateUser: the id is in the answer, so that a user created by a call that
\* fails is not known to the request.  An answer with another e-mail is undone.
CreateUser(r) ==
    /\ req[r].pc = "createUser"
    /\ \/ \E u \in {v \in Users : users[v] = None} :
             /\ users' = [users EXCEPT ![u] = req[r].new]
             /\ \/ /\ \E pc \in {"findGroup", "deleteUser"} :
                         req' = [req EXCEPT ![r].pc = pc, ![r].user = u]
                   /\ UNCHANGED lost
                \/ Done(r) /\ Leaves("user", u)
       \/ Done(r) /\ UNCHANGED <<users, lost>>
    /\ UNCHANGED <<group, members, drift>>

\* idp.AddMemberToGroupByGroupName: the search for the group, then the change.
FindGroup(r) ==
    /\ req[r].pc = "findGroup"
    /\ \/ Goto(r, "addToGroup")
       \/ Goto(r, "deleteUser")
    /\ UNCHANGED <<users, group, members, lost, drift>>

AddToGroup(r) ==
    LET u == req[r].user IN
    /\ req[r].pc = "addToGroup"
    /\ \/ group' = group \union {u} /\ Goto(r, "insert") /\ UNCHANGED lost
       \/ group' = group \union {u} /\ Goto(r, "deleteUser") /\ Leaves("group", u)
       \/ UNCHANGED <<group, lost>> /\ Goto(r, "deleteUser")
    /\ UNCHANGED <<users, members, drift>>

\* Mutant: the column email is not unique.
AnyEmail(email) == TRUE

EmailFree(email) == \A v \in Users : members[v] # None => members[v].email # email

\* db.Create, with unique indexes on the e-mail and on the IdP user.
InsertMember(r) ==
    LET u == req[r].user
        inserted == [members EXCEPT ![u] = req[r].new]
    IN
    /\ req[r].pc = "insert"
    /\ \/ /\ EmailFree(req[r].new.email)
          /\ members' = inserted
          /\ \/ Done(r) /\ UNCHANGED lost
             \/ Goto(r, "removeFromGroup") /\ Leaves("row", u)
       \/ Goto(r, "removeFromGroup") /\ UNCHANGED <<members, lost>>
    /\ UNCHANGED <<users, group, drift>>

\* Mutant: the first compensation that fails ends the request.
RemoveFromGroupOrReturn(r) ==
    LET u == req[r].user IN
    /\ req[r].pc = "removeFromGroup"
    /\ \/ group' = group \ {u} /\ Goto(r, "deleteUser") /\ UNCHANGED lost
       \/ UNCHANGED group /\ Done(r) /\ Leaves("group", u)
    /\ UNCHANGED <<users, members, drift>>

\* The compensations of a failed insert; the second follows whatever the first did.
RemoveFromGroup(r) ==
    LET u == req[r].user IN
    /\ req[r].pc = "removeFromGroup"
    /\ \/ group' = group \ {u} /\ UNCHANGED lost
       \/ UNCHANGED group /\ Leaves("group", u)
    /\ Goto(r, "deleteUser")
    /\ UNCHANGED <<users, members, drift>>

DeleteUser(r) ==
    LET u == req[r].user IN
    /\ req[r].pc = "deleteUser"
    /\ \/ users' = [users EXCEPT ![u] = Deleted] /\ UNCHANGED lost
       \/ UNCHANGED users /\ Leaves("user", u)
    /\ Done(r)
    /\ UNCHANGED <<group, members, drift>>

-----------------------------------------------------------------------------
(* UpdateMember *)

Merged(row, body) ==
    [row EXCEPT !.profile = [f \in Fields |-> IF f \in DOMAIN body THEN body[f] ELSE @[f]]]

\* The row is read; without a name and a phone number only the row is saved.
UpdateMember(r) ==
    /\ req[r].pc = "idle"
    /\ \E u \in Users, body \in Updates :
          /\ members[u] # None
          /\ req' = [s \in Requests |->
                IF s = r
                THEN [At(IF DOMAIN body = {} THEN "save" ELSE "updateUser",
                         u, Merged(members[u], body), members[u])
                      EXCEPT !.alone = ~Busy(u)]
                ELSE IF req[s].user = u THEN [req[s] EXCEPT !.alone = FALSE]
                ELSE req[s]]
    /\ UNCHANGED <<users, group, members, lost, drift>>

\* The end of an update: agreed says that it has left the IdP and the row alike.
Settle(r, agreed) ==
    /\ Done(r)
    /\ drift' = IF agreed /\ req[r].alone THEN drift \ {req[r].user}
                ELSE drift \union {req[r].user}

\* idp.UpdateUser, with the whole profile; it fails for a user that is gone.
UpdateUser(r) ==
    LET q == req[r] IN
    /\ q.pc = "updateUser"
    /\ \/ /\ Exists(q.user)
          /\ users' = [users EXCEPT ![q.user] = q.new]
          /\ \/ Goto(r, "saveBoth") /\ UNCHANGED drift
             \/ Settle(r, FALSE)
       \/ UNCHANGED <<users, drift>> /\ Done(r)
    /\ UNCHANGED <<group, members, lost>>

\* db.Save of the whole row.  Without a field for the IdP nothing is undone.
SaveMember(r) ==
    LET q == req[r]
        saved == [members EXCEPT ![q.user] = q.new]
    IN
    /\ \/ /\ q.pc = "saveBoth"
          /\ \/ members' = saved /\ Settle(r, TRUE)
             \/ members' \in {saved, members} /\ Goto(r, "restore") /\ UNCHANGED drift
       \/ /\ q.pc = "save"
          /\ members' \in {saved, members}
          /\ IF q.alone THEN Done(r) /\ UNCHANGED drift ELSE Settle(r, FALSE)
    /\ UNCHANGED <<users, group, lost>>

\* Mutant: the IdP is given the new values again.
RestoreNew(r) ==
    LET q == req[r] IN
    /\ q.pc = "restore"
    /\ \/ /\ Exists(q.user)
          /\ users' = [users EXCEPT ![q.user] = q.new]
          /\ Settle(r, members[q.user] = q.old)
       \/ UNCHANGED users /\ Settle(r, FALSE)
    /\ UNCHANGED <<group, members, lost>>

\* The compensation of a failed Save: the values the request has read.
RestoreUser(r) ==
    LET q == req[r] IN
    /\ q.pc = "restore"
    /\ \/ /\ Exists(q.user)
          /\ users' = [users EXCEPT ![q.user] = q.old]
          /\ Settle(r, members[q.user] = q.old)
       \/ UNCHANGED users /\ Settle(r, FALSE)
    /\ UNCHANGED <<group, members, lost>>

-----------------------------------------------------------------------------
\* The process ends, or the handler panics, between two steps.
Crash(r) ==
    LET u == req[r].user IN
    /\ req[r].pc # "idle"
    /\ Done(r)
    /\ IF u = None THEN UNCHANGED <<lost, drift>>
       ELSE IF req[r].old = None
       THEN lost' = lost \union (Has(u) \X {u}) /\ UNCHANGED drift
       ELSE drift' = drift \union {u} /\ UNCHANGED lost
    /\ UNCHANGED <<users, group, members>>

Step(r) == \/ CreateMember(r) \/ CreateUser(r) \/ FindGroup(r) \/ AddToGroup(r)
           \/ InsertMember(r) \/ RemoveFromGroup(r) \/ DeleteUser(r)
           \/ UpdateMember(r) \/ UpdateUser(r) \/ SaveMember(r) \/ RestoreUser(r)
           \/ Crash(r)

Next == \E r \in Requests : Step(r)

Spec == Init /\ [][Next]_vars

-----------------------------------------------------------------------------
(* Properties *)

Request ==
    [pc: {"idle", "createUser", "findGroup", "addToGroup", "insert", "removeFromGroup", "deleteUser",
          "updateUser", "save", "saveBoth", "restore"},
     user: Users \union {None}, new: Account \union {None},
     old: Account \union {None}, alone: BOOLEAN]

\* The type invariant; the e-mail addresses of the rows are unique.
TypeOK ==
    /\ users \in [Users -> Account \union {None, Deleted}]
    /\ group \subseteq Users
    /\ members \in [Users -> Account \union {None}]
    /\ \A u, v \in Users : u # v /\ members[u] # None /\ members[v] # None
                           => members[u].email # members[v].email
    /\ req \in [Requests -> Request]
    /\ lost \subseteq {"user", "group", "row"} \X Users
    /\ drift \subseteq Users

\* A member no creation works on is complete or absent: IdP user, group and row
\* together.  Anything else is a part that a call left behind without the code
\* knowing or while it failed to undo it, and each such part is accounted for:
\* one compensation that fails does not keep the other from running.
MembersComplete ==
    \A u \in Users :
       (\A r \in Requests : req[r].user = u => req[r].old # None)
       => Has(u) \in {{}, {"user", "group", "row"}} \/ Has(u) \X {u} \subseteq lost

\* A member no request works on has the same name and phone number in the IdP and
\* in the database, unless its last disturbed update (overlapped by another, cut
\* short, or not undone) has not been followed by an undisturbed one: an update
\* writes the whole profile to both, so that it repairs what others left.
ProfilesAgree ==
    \A u \in Users :
       ~Busy(u) /\ Exists(u) /\ members[u] # None /\ u \notin drift => users[u] = members[u]
=============================================================================
