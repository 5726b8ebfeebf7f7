------------------------- MODULE PortalAccessProofs -------------------------
(***************************************************************************)
(* Proofs about the v1 API of the portal backend, for any number of        *)
(* requests, users, rows and tokens, and every AUTHORIZATION_MODE.         *)
(*                                                                         *)
(* A row never changes hands: whoever holds the id of a row, in any step,  *)
(* holds its one owner with it, also while the row is deleted.  The check  *)
(* of the owner, made on an earlier read, is therefore still right when    *)
(* the row is written, and members keep their users.                       *)
(***************************************************************************)
EXTENDS PortalAccess, TLAPS

\* The steps at which a request holds the ids of rows with their owner.
Holding == {"own", "call", "save", "insert", "provision", "revert"}
Holds(q, i) == q.pc \in Holding /\ i \in Ids /\ (q.id = i \/ q.sub = i)

\* The steps after the owner has been checked.
Cleared == {"call", "save", "insert", "provision", "revert"}

\* The tokens with a role that may write.
Writer(t) == t \in Tokens /\ ("admin" \in t.roles \/ "member" \in t.roles)

\* Whether t may write what member m owns, with these members.
Owns(t, m, ms) == IsAdmin(t) \/ (m \in MemberIds /\ ms[m] # None /\ ms[m].user = t.user)

IsRow(x) == x # None /\ x # Deleted

\* What a request relies on that holds the id of a row.
HeldOK(q, rs) ==
    \A i \in Ids : Holds(q, i) =>
       /\ q.owner \in MemberIds /\ rs[i] # None
       /\ rs[i] # Deleted => rs[i].owner = q.owner

\* What the steps of a request say about its token.
TokenOK(q, ms) ==
    /\ q.pc = "own" /\ q.op # "read" => Writer(q.token)
    /\ q.pc = "setOwner" => Writer(q.token)
    /\ q.pc \in Cleared => Writer(q.token) /\ Owns(q.token, q.owner, ms)
    /\ q.pc = "insertMember" => Writer(q.token) /\ IsAdmin(q.token) /\ q.owner \in MemberIds
    /\ q.pc = "saveMember" => /\ Writer(q.token) /\ q.owner \in MemberIds
                              /\ ms[q.owner] # None /\ Owns(q.token, q.owner, ms)

\* The ids a request holds.
IdsOK(q) ==
    /\ q.pc # "idle" => q.token \in Tokens
    /\ q.pc \in {"own", "call", "save", "provision"} => q.id \in Ids
    /\ q.pc \in {"own", "call", "save"} => q.sub = None /\ (q.op = "approve" => q.id \in Submissions)
    /\ q.pc = "setOwner" => q.id = None /\ q.sub = None
    /\ q.pc = "insert" => (q.id = None /\ q.sub = None) \/ (q.id \in Submissions /\ q.id = q.sub)
    /\ q.pc = "revert" => q.sub \in Submissions

ReadsAll(t) == \E coll \in Collections : HasPermission(t, coll, "readAll")

\* What a request is answered with.
ServedOK(q, ms) ==
    q.pc = "replied" =>
       ReadsAll(q.token) \/ \A m \in q.seen : Owns(q.token, m, ms)

RequestOK(q, ms, rs) == HeldOK(q, rs) /\ TokenOK(q, ms) /\ IdsOK(q) /\ ServedOK(q, ms)

\* Whoever holds a row holds the same owner.
SameOwner(p, q) == \A i \in Ids : Holds(p, i) /\ Holds(q, i) => p.owner = q.owner

\* A stored row, or a member's record, has been written by one who may.
RowOK(x, ms) == IsRow(x) => Writer(x.by) /\ Owns(x.by, x.owner, ms)
RecordOK(x) == x # None => Writer(x.by) /\ (IsAdmin(x.by) \/ x.by.user = x.user)

\* The inductive invariant.
AccessInv ==
    /\ TypeOK
    /\ \A r \in Requests : RequestOK(req[r], members, rows)
    /\ \A r, s \in Requests : SameOwner(req[r], req[s])
    /\ \A i \in Ids : RowOK(rows[i], members)
    /\ \A m \in MemberIds : RecordOK(members[m])

-----------------------------------------------------------------------------
(* Lemmas about roles and permissions *)

LEMMA TokenFacts == \A t \in Tokens : t.user \in Users /\ t.roles \subseteq Roles
  BY ConstantsAssumption

\* Who may create, update and read everything.
LEMMA Permissions ==
    ASSUME NEW t \in Tokens, NEW coll \in Collections
    PROVE  /\ HasPermission(t, coll, "create") \/ HasPermission(t, coll, "update") => Writer(t)
           /\ Writer(t) => HasPermission(t, coll, "update")
           /\ coll = "members" /\ HasPermission(t, coll, "create") => IsAdmin(t)
           /\ IsAdmin(t) => HasPermission(t, coll, "readAll")
  <1>1. t.roles \subseteq {"admin", "member", "system"}
    BY TokenFacts DEF Roles
  <1>2. \A verb \in {"create", "update", "readAll"} :
           /\ <<coll, verb>> \in RolePermissions["admin"]
           /\ <<coll, verb>> \in RolePermissions["member"]
              <=> (verb = "update" \/ (verb = "create" /\ coll # "members"))
           /\ <<coll, verb>> \in RolePermissions["system"] <=> verb = "readAll"
    BY DEF RolePermissions, Collections, Verbs
  <1> QED BY <1>1, <1>2 DEF HasPermission, Writer, IsAdmin

\* The middleware lets only writers through to PUT.
LEMMA OnlyWritersPut ==
    ASSUME NEW t \in Tokens, NEW coll \in Collections, Authorized(t, "PUT", coll, "item")
    PROVE  Writer(t)
  <1> DEFINE e == [method |-> "PUT", wild |-> TRUE, verb |-> "update", coll |-> coll]
  <1>1. e \in Endpoint("PUT", TRUE, "update", Collections)
    BY DEF Endpoint
  <1>2. e \in EndpointPermissions
    BY <1>1 DEF EndpointPermissions
  <1>3. e \in FindEndpointPermission("PUT", coll, "item")
    BY <1>2 DEF FindEndpointPermission, MatchesEndpoint
  <1>4. HasPermission(t, coll, "update")
    BY <1>3 DEF Authorized
  <1> QED BY <1>4, Permissions

-----------------------------------------------------------------------------
(* Lemmas about a step of one request *)

LEMMA TypeFacts ==
    ASSUME AccessInv
    PROVE  /\ members \in [MemberIds -> [user: Users, by: Tokens] \union {None}]
           /\ rows \in [Ids -> Row \union {None, Deleted}]
           /\ req \in [Requests -> Request]
           /\ None \notin MemberIds /\ None \notin Ids /\ None \notin Tokens /\ Deleted # None
           /\ Deleted \notin Row /\ None \notin Row
  BY ConstantsAssumption DEF AccessInv, TypeOK, Row

\* Records keep their users, so that an owner stays one.
LEMMA OwnersStay ==
    ASSUME NEW ms, NEW ms2, NEW t, NEW m, Owns(t, m, ms),
           \A n \in MemberIds : ms[n] # None => ms2[n] # None /\ ms2[n].user = ms[n].user
    PROVE  Owns(t, m, ms2)
  BY DEF Owns

\* Members stay, with their users, and their records are sound.
MembersMove(ms, ms2) ==
    /\ ms2 \in [MemberIds -> [user: Users, by: Tokens] \union {None}]
    /\ \A m \in MemberIds : ms[m] # None => ms2[m] # None /\ ms2[m].user = ms[m].user
    /\ \A m \in MemberIds : RecordOK(ms2[m])

\* Rows are inserted, deleted, or written again by the request p that holds them.
RowsMove(p, rs, rs2, ms) ==
    /\ rs2 \in [Ids -> Row \union {None, Deleted}]
    /\ \A i \in Ids :
          \/ rs2[i] = rs[i]
          \/ rs[i] # None /\ rs2[i] = Deleted
          \/ /\ IsRow(rs2[i]) /\ RowOK(rs2[i], ms)
             /\ rs[i] = None \/ (Holds(p, i) /\ rs2[i].owner = p.owner)

\* The rows a request holds after a step are new, or were held, or have been read.
Takes(p, q, rs) ==
    \A i \in Ids : Holds(q, i) =>
       \/ Holds(p, i) /\ q.owner = p.owner
       \/ IsRow(rs[i]) /\ rs[i].owner = q.owner
       \/ rs[i] = None

\* What has to be shown of a step in which the request r becomes q.
LEMMA OneRequest ==
    ASSUME AccessInv, NEW r \in Requests, NEW q \in Request, req' = [req EXCEPT ![r] = q],
           MembersMove(members, members'), RowsMove(req[r], rows, rows', members'),
           RequestOK(q, members', rows'), Takes(req[r], q, rows)
    PROVE  AccessInv'
  <1> USE DEF MembersMove
  <1>1. TypeOK'
    BY TypeFacts DEF TypeOK, RowsMove
  <1>2. req'[r] = q /\ \A s \in Requests : s # r => req'[s] = req[s]
    BY TypeFacts
  <1>3. \A s, u \in Requests : SameOwner(req[s], req[u])
    BY DEF AccessInv
  <1>4. ASSUME NEW s \in Requests, s # r
        PROVE  RequestOK(req[s], members', rows')
    <2>1. RequestOK(req[s], members, rows)
      BY DEF AccessInv
    <2>2. HeldOK(req[s], rows')
      <3> SUFFICES ASSUME NEW i \in Ids, Holds(req[s], i)
                   PROVE  /\ req[s].owner \in MemberIds /\ rows'[i] # None
                          /\ rows'[i] # Deleted => rows'[i].owner = req[s].owner
        BY DEF HeldOK
      <3>1. /\ req[s].owner \in MemberIds /\ rows[i] # None
            /\ rows[i] # Deleted => rows[i].owner = req[s].owner
        BY <2>1 DEF RequestOK, HeldOK
      <3>2. Holds(req[r], i) => req[r].owner = req[s].owner
        BY <1>3 DEF SameOwner
      <3> QED BY <3>1, <3>2, TypeFacts DEF IsRow, RowsMove
    <2>3. TokenOK(req[s], members')
      <3>1. TokenOK(req[s], members)
        BY <2>1 DEF RequestOK
      <3>2. Owns(req[s].token, req[s].owner, members) => Owns(req[s].token, req[s].owner, members')
        BY OwnersStay
      <3> QED BY <3>1, <3>2 DEF TokenOK
    <2>4. ServedOK(req[s], members')
      <3>1. ServedOK(req[s], members)
        BY <2>1 DEF RequestOK
      <3>2. \A m \in req[s].seen : Owns(req[s].token, m, members) => Owns(req[s].token, m, members')
        BY OwnersStay
      <3> QED BY <3>1, <3>2 DEF ServedOK
    <2> QED BY <2>1, <2>2, <2>3, <2>4 DEF RequestOK
  <1>5. \A s \in Requests : RequestOK(req'[s], members', rows')
    BY <1>2, <1>4
  <1>6. \A s \in Requests : s # r => SameOwner(q, req[s]) /\ SameOwner(req[s], q)
    <2> SUFFICES ASSUME NEW s \in Requests, s # r, NEW i \in Ids, Holds(q, i), Holds(req[s], i)
                 PROVE  q.owner = req[s].owner
      BY DEF SameOwner
    <2>1. rows[i] # None /\ (rows[i] # Deleted => rows[i].owner = req[s].owner)
      BY DEF AccessInv, RequestOK, HeldOK
    <2>2. Holds(req[r], i) => req[r].owner = req[s].owner
      BY <1>3 DEF SameOwner
    <2> QED BY <2>1, <2>2 DEF IsRow, Takes
  <1>7. \A s, u \in Requests : SameOwner(req'[s], req'[u])
    <2>1. SameOwner(q, q)
      BY DEF SameOwner
    <2> QED BY <1>2, <1>3, <1>6, <2>1
  <1>8. \A i \in Ids : RowOK(rows'[i], members')
    <2> SUFFICES ASSUME NEW i \in Ids PROVE RowOK(rows'[i], members')
      OBVIOUS
    <2>1. RowOK(rows[i], members)
      BY DEF AccessInv
    <2>2. RowOK(rows[i], members')
      BY <2>1, OwnersStay DEF RowOK
    <2>3. RowOK(Deleted, members')
      BY DEF RowOK, IsRow
    <2> QED BY <2>2, <2>3 DEF RowsMove
  <1> QED BY <1>1, <1>5, <1>7, <1>8 DEF AccessInv

\* A step that writes nothing.
LEMMA GoesOn ==
    ASSUME AccessInv, NEW r \in Requests, NEW q \in Request, req' = [req EXCEPT ![r] = q],
           UNCHANGED <<members, rows>>, RequestOK(q, members, rows),
           \A i \in Ids : Holds(q, i) =>
              \/ Holds(req[r], i) /\ q.owner = req[r].owner
              \/ IsRow(rows[i]) /\ rows[i].owner = q.owner
    PROVE  AccessInv'
  <1>1. \A m \in MemberIds : RecordOK(members'[m])
    BY DEF AccessInv
  <1>2. RequestOK(q, members', rows')
    OBVIOUS
  <1>3. MembersMove(members, members')
    BY <1>1, TypeFacts DEF MembersMove
  <1>4. RowsMove(req[r], rows, rows', members')
    BY TypeFacts DEF RowsMove
  <1>5. Takes(req[r], q, rows)
    BY DEF Takes
  <1> QED BY <1>2, <1>3, <1>4, <1>5, OneRequest

Codes == {0, 200, 201, 400, 403, 404, 405, 500}
Steps == {"idle", "own", "setOwner", "call", "save", "insert", "provision",
          "revert", "insertMember", "saveMember", "replied"}

Ops == {"none", "read", "create", "update", "approve"}
Fields(pc, t, op, coll, i, owner, u, cd, served) ==
    /\ pc \in Steps /\ t \in Tokens \union {None} /\ op \in Ops /\ coll \in Collections \union {"none"}
    /\ i \in Ids \union {None} /\ owner \in MemberIds \union {None}
    /\ u \in Submissions \union {None} /\ cd \in Codes /\ served \in SUBSET MemberIds
Made(pc, t, op, coll, i, owner, u, cd, served) ==
    [pc |-> pc, token |-> t, op |-> op, coll |-> coll, id |-> i, owner |-> owner,
     sub |-> u, code |-> cd, seen |-> served]

\* A request is made of its fields.
LEMMA Built ==
    ASSUME NEW pc, NEW t, NEW op, NEW coll, NEW i, NEW owner, NEW u, NEW cd, NEW served,
           Fields(pc, t, op, coll, i, owner, u, cd, served)
    PROVE  Made(pc, t, op, coll, i, owner, u, cd, served) \in Request
  <1> DEFINE Ts == Tokens \union {None}
             Cs == Collections \union {"none"}
             Is == Ids \union {None}
             Ms == MemberIds \union {None}
             Ss == Submissions \union {None}
             Vs == SUBSET MemberIds
  <1>1. Request = [pc: Steps, token: Ts, op: Ops, coll: Cs, id: Is,
                   owner: Ms, sub: Ss, code: Codes, seen: Vs]
    BY DEF Request, Steps, Codes, Ops
  <1>2. /\ pc \in Steps /\ t \in Ts /\ op \in Ops /\ coll \in Cs /\ i \in Is
        /\ owner \in Ms /\ u \in Ss /\ cd \in Codes /\ served \in Vs
    BY DEF Fields
  <1> HIDE DEF Ts, Cs, Is, Ms, Ss, Vs
  <1> QED BY <1>1, <1>2 DEF Made

\* The states a step makes from nothing.
LEMMA AtFacts ==
    ASSUME NEW pc \in Steps, NEW t \in Tokens \union {None}, NEW coll \in Collections \union {"none"},
           NEW op \in {"none", "read", "create", "update", "approve"},
           NEW i \in Ids \union {None}, NEW owner \in MemberIds \union {None}
    PROVE  \E q \in Request :
              /\ q = At(pc, t, op, coll, i, owner)
              /\ q.pc = pc /\ q.token = t /\ q.op = op /\ q.coll = coll /\ q.id = i
              /\ q.owner = owner /\ q.sub = None
  <1> DEFINE q == At(pc, t, op, coll, i, owner)
  <1>1. Fields(pc, t, op, coll, i, owner, None, 0, {})
    BY DEF Fields, Codes, Ops
  <1>2. q \in Request
    <2>1. Made(pc, t, op, coll, i, owner, None, 0, {}) \in Request
      BY <1>1, Built
    <2> QED BY <2>1 DEF At, Made
  <1>3. /\ q.pc = pc /\ q.token = t /\ q.op = op /\ q.coll = coll /\ q.id = i
        /\ q.owner = owner /\ q.sub = None
    BY DEF At
  <1> HIDE DEF q
  <1>4. q = At(pc, t, op, coll, i, owner)
    BY DEF q
  <1> QED BY <1>2, <1>3, <1>4

\* An answer holds nothing, and relies on what it serves.
LEMMA Replied ==
    ASSUME NEW r \in Requests, NEW t \in Tokens, NEW cd \in Codes, NEW served \in SUBSET MemberIds,
           Reply(r, t, cd, served), NEW ms, NEW rs,
           ReadsAll(t) \/ \A m \in served : Owns(t, m, ms)
    PROVE  \E q \in Request :
              /\ req' = [req EXCEPT ![r] = q]
              /\ RequestOK(q, ms, rs) /\ \A i \in Ids : ~Holds(q, i)
  <1> DEFINE q == [pc |-> "replied", token |-> t, op |-> "none", coll |-> "none", id |-> None,
                   owner |-> None, sub |-> None, code |-> cd, seen |-> served]
  <1>1. q \in Request
    <2>1. Fields("replied", t, "none", "none", None, None, None, cd, served)
      BY DEF Fields, Steps, Ops
    <2>2. Made("replied", t, "none", "none", None, None, None, cd, served) \in Request
      BY <2>1, Built
    <2> QED BY <2>2 DEF Made
  <1>2. req' = [req EXCEPT ![r] = q]
    BY Zenon DEF Reply, Goto
  <1>3. q.pc = "replied" /\ q.token = t /\ q.seen = served
    OBVIOUS
  <1> HIDE DEF q
  <1>4. RequestOK(q, ms, rs) /\ \A i \in Ids : ~Holds(q, i)
    BY <1>3 DEF RequestOK, HeldOK, TokenOK, IdsOK, ServedOK, Holds, Holding, Cleared
  <1> QED BY <1>1, <1>2, <1>4

LEMMA RepliedHere ==
    ASSUME NEW r \in Requests, NEW t \in Tokens, NEW cd \in Codes, NEW served \in SUBSET MemberIds,
           Reply(r, t, cd, served), ReadsAll(t) \/ \A m \in served : Owns(t, m, members)
    PROVE  \E q \in Request :
              /\ req' = [req EXCEPT ![r] = q]
              /\ RequestOK(q, members, rows') /\ \A i \in Ids : ~Holds(q, i)
  BY Replied

LEMMA RepliesOnly ==
    ASSUME AccessInv, NEW r \in Requests, NEW t \in Tokens, NEW cd \in Codes,
           NEW served \in SUBSET MemberIds, Reply(r, t, cd, served), UNCHANGED <<members, rows>>,
           ReadsAll(t) \/ \A m \in served : Owns(t, m, members)
    PROVE  AccessInv'
  <1>1. PICK q \in Request : /\ req' = [req EXCEPT ![r] = q] /\ RequestOK(q, members, rows)
                             /\ \A i \in Ids : ~Holds(q, i)
    BY Replied
  <1> QED BY <1>1, GoesOn

\* A refusal serves nothing.
LEMMA Refuses ==
    ASSUME AccessInv, NEW r \in Requests, NEW t \in Tokens, NEW cd \in Codes,
           Reply(r, t, cd, {}), UNCHANGED <<members, rows>>
    PROVE  AccessInv'
  BY RepliesOnly

\* The caller owns what its member owns; an administrator reads everything.
LEMMA OwnFacts ==
    ASSUME AccessInv, NEW t \in Tokens
    PROVE  /\ MemberOf(t) \subseteq MemberIds
           /\ \A m \in MemberOf(t) : Owns(t, m, members)
           /\ \A m \in MemberIds : members[m] # None /\ members[m].user = t.user => Owns(t, m, members)
           /\ IsAdmin(t) => ReadsAll(t)
           /\ \A coll \in Collections : HasPermission(t, coll, "readAll") => ReadsAll(t)
  <1>1. IsAdmin(t) => ReadsAll(t)
    BY Permissions DEF ReadsAll, Collections
  <1> QED BY <1>1 DEF MemberOf, Owns, ReadsAll

\* A stored row belongs to a member.
LEMMA StoredFacts ==
    ASSUME AccessInv, NEW i \in Ids, Stored(i)
    PROVE  IsRow(rows[i]) /\ rows[i] \in Row /\ rows[i].owner \in MemberIds
  BY TypeFacts DEF Stored, IsRow, Row

-----------------------------------------------------------------------------
(* The four ways in which a request goes on, keeping the rest of its state *)

WithOwner(p, pc, m) == [p EXCEPT !.pc = pc, !.owner = m]
WithId(p, pc, i) == [p EXCEPT !.pc = pc, !.id = i]
WithSub(p, pc, coll, u) == [p EXCEPT !.pc = pc, !.coll = coll, !.sub = u]
Rewritten(y, t) == [y EXCEPT !.by = t]

LEMMA Moves ==
    ASSUME NEW p \in Request, NEW pc \in Steps
    PROVE  /\ \E q \in Request :
                 /\ q = [p EXCEPT !.pc = pc]
                 /\ q.pc = pc /\ q.token = p.token /\ q.op = p.op /\ q.id = p.id
                 /\ q.owner = p.owner /\ q.sub = p.sub
           /\ \A m \in MemberIds : \E q \in Request :
                 /\ q = WithOwner(p, pc, m)
                 /\ q.pc = pc /\ q.token = p.token /\ q.op = p.op /\ q.id = p.id
                 /\ q.owner = m /\ q.sub = p.sub
           /\ \A i \in Ids : \E q \in Request :
                 /\ q = WithId(p, pc, i)
                 /\ q.pc = pc /\ q.token = p.token /\ q.op = p.op /\ q.id = i
                 /\ q.owner = p.owner /\ q.sub = p.sub
           /\ \A coll \in Collections, u \in Submissions : \E q \in Request :
                 /\ q = WithSub(p, pc, coll, u)
                 /\ q.pc = pc /\ q.token = p.token /\ q.op = p.op /\ q.id = p.id
                 /\ q.owner = p.owner /\ q.sub = u
  <1> DEFINE Ts == Tokens \union {None}
             Os == {"none", "read", "create", "update", "approve"}
             Cs == Collections \union {"none"}
             Is == Ids \union {None}
             Ms == MemberIds \union {None}
             Ss == Submissions \union {None}
             Ks == Codes
             Vs == SUBSET MemberIds
             Rs == [pc: Steps, token: Ts, op: Os, coll: Cs, id: Is,
                    owner: Ms, sub: Ss, code: Ks, seen: Vs]
  <1>1. Request = Rs
    BY DEF Request, Steps, Codes
  <1>2. /\ p \in Rs /\ Ids \subseteq Is /\ MemberIds \subseteq Ms
        /\ Submissions \subseteq Ss /\ Collections \subseteq Cs
    BY <1>1
  <1> HIDE DEF Ts, Os, Cs, Is, Ms, Ss, Ks, Vs
  <1>3. LET q == [p EXCEPT !.pc = pc] IN
        /\ q \in Rs
        /\ q.pc = pc /\ q.token = p.token /\ q.op = p.op /\ q.id = p.id
        /\ q.owner = p.owner /\ q.sub = p.sub
    BY <1>2
  <1>4. ASSUME NEW m \in MemberIds PROVE LET q == [p EXCEPT !.pc = pc, !.owner = m] IN
        /\ q \in Rs
        /\ q.pc = pc /\ q.token = p.token /\ q.op = p.op /\ q.id = p.id
        /\ q.owner = m /\ q.sub = p.sub
    BY <1>2, <1>4
  <1>5. ASSUME NEW i \in Ids PROVE LET q == [p EXCEPT !.pc = pc, !.id = i] IN
        /\ q \in Rs
        /\ q.pc = pc /\ q.token = p.token /\ q.op = p.op /\ q.id = i
        /\ q.owner = p.owner /\ q.sub = p.sub
    BY <1>2, <1>5
  <1>6. ASSUME NEW coll \in Collections, NEW u \in Submissions PROVE LET q == [p EXCEPT !.pc = pc, !.coll = coll, !.sub = u] IN
        /\ q \in Rs
        /\ q.pc = pc /\ q.token = p.token /\ q.op = p.op /\ q.id = p.id
        /\ q.owner = p.owner /\ q.sub = u
    BY <1>2, <1>6
  <1> HIDE DEF Rs
  <1> QED BY <1>1, <1>3, <1>4, <1>5, <1>6, Zenon DEF WithOwner, WithId, WithSub

-----------------------------------------------------------------------------
(* The arrivals *)

LEMMA TurnAwayStep ==
    ASSUME AccessInv, NEW r \in Requests, TurnAway(r)
    PROVE  AccessInv'
  <1>1. UNCHANGED <<members, rows>> /\ \E t \in Tokens, cd \in Codes : Reply(r, t, cd, {})
    BY DEF TurnAway, Codes
  <1> QED BY <1>1, Refuses

\* What a list query returns to one who may not read everything.
LEMMA ListedOwners ==
    ASSUME AccessInv, NEW ids \in SUBSET Ids, NEW filter \in MemberIds \union {None}
    PROVE  /\ Listed(ids, filter) \subseteq MemberIds
           /\ filter # None => Listed(ids, filter) \subseteq {filter}
  BY StoredFacts, TypeFacts DEF Listed

LEMMA ListRowsStep ==
    ASSUME AccessInv, NEW r \in Requests, NEW coll \in Collections, NEW ids \in SUBSET Ids,
           NEW free, \A t \in Tokens : t \in free => ReadsAll(t), ListRows(r, coll, ids, free)
    PROVE  AccessInv'
  <1>1. UNCHANGED <<members, rows>>
    BY DEF ListRows
  <1>2. PICK t \in Tokens :
           \/ Reply(r, t, 403, {})
           \/ \E m \in MemberOf(t) : Reply(r, t, 200, Listed(ids, m))
           \/ t \in free /\ \E filter \in MemberIds \union {None} : Reply(r, t, 200, Listed(ids, filter))
    BY DEF ListRows
  <1>3. 403 \in Codes /\ 200 \in Codes
    BY DEF Codes
  <1>4. CASE Reply(r, t, 403, {})
    BY <1>1, <1>3, <1>4, Refuses
  <1>5. ASSUME NEW m \in MemberOf(t), Reply(r, t, 200, Listed(ids, m))
        PROVE  AccessInv'
    <2>1. m \in MemberIds /\ Owns(t, m, members) /\ m # None
      BY OwnFacts, TypeFacts
    <2>2. Listed(ids, m) \in SUBSET MemberIds /\ \A n \in Listed(ids, m) : Owns(t, n, members)
      BY <2>1, ListedOwners
    <2> QED BY <1>1, <1>3, <1>5, <2>2, RepliesOnly
  <1>6. ASSUME t \in free, NEW filter \in MemberIds \union {None}, Reply(r, t, 200, Listed(ids, filter))
        PROVE  AccessInv'
    <2>1. Listed(ids, filter) \in SUBSET MemberIds
      BY ListedOwners
    <2> QED BY <1>1, <1>3, <1>6, <2>1, RepliesOnly
  <1> QED BY <1>2, <1>4, <1>5, <1>6

LEMMA LoadRowStep ==
    ASSUME AccessInv, NEW r \in Requests, NEW t \in Tokens, NEW op \in {"read", "update", "approve"},
           NEW coll \in Collections, NEW i \in Ids, op # "read" => Writer(t),
           op = "approve" => i \in Submissions,
           op = "read" => LoadRow(r, t, op, coll, i, "replied"),
           op # "read" => LoadRow(r, t, op, coll, i, "call"),
           UNCHANGED <<members, rows>>
    PROVE  AccessInv'
  <1>1. 404 \in Codes /\ 200 \in Codes
    BY DEF Codes
  <1>2. CASE ~Stored(i)
    <2>1. Reply(r, t, 404, {})
      BY <1>2 DEF LoadRow
    <2> QED BY <1>1, <2>1, Refuses
  <1>3. ASSUME Stored(i), NEW pc \in {"own", "call"}, pc = "call" => op # "read" /\ IsAdmin(t),
               Goto(r, At(pc, t, op, coll, i, rows[i].owner))
        PROVE  AccessInv'
    <2>1. IsRow(rows[i]) /\ rows[i].owner \in MemberIds
      BY <1>3, StoredFacts
    <2>2. PICK q \in Request : /\ q = At(pc, t, op, coll, i, rows[i].owner)
                               /\ q.pc = pc /\ q.token = t /\ q.op = op /\ q.id = i
                               /\ q.owner = rows[i].owner /\ q.sub = None
      BY <2>1, AtFacts DEF Steps
    <2>3. \A j \in Ids : Holds(q, j) => j = i
      BY <2>2, TypeFacts DEF Holds
    <2>4. HeldOK(q, rows) /\ TokenOK(q, members) /\ IdsOK(q) /\ ServedOK(q, members)
      <3>1. HeldOK(q, rows)
        BY <1>3, <2>1, <2>2, <2>3 DEF HeldOK, IsRow
      <3>2. TokenOK(q, members)
        BY <1>3, <2>1, <2>2, <2>3 DEF TokenOK, Cleared, Owns
      <3>3. IdsOK(q) /\ ServedOK(q, members)
        BY <1>3, <2>1, <2>2, <2>3 DEF IdsOK, ServedOK
      <3> QED BY <3>1, <3>2, <3>3
    <2>5. req' = [req EXCEPT ![r] = q]
      BY <1>3, <2>2 DEF Goto
    <2> QED BY <2>1, <2>2, <2>3, <2>4, <2>5, GoesOn DEF RequestOK
  <1>4. CASE Stored(i) /\ ~IsAdmin(t)
    <2>1. Goto(r, At("own", t, op, coll, i, rows[i].owner))
      BY <1>4 DEF LoadRow
    <2> QED BY <1>3, <1>4, <2>1
  <1>5. CASE Stored(i) /\ IsAdmin(t) /\ op # "read"
    <2>1. Goto(r, At("call", t, op, coll, i, rows[i].owner))
      BY <1>5 DEF LoadRow
    <2> QED BY <1>3, <1>5, <2>1
  <1>6. CASE Stored(i) /\ IsAdmin(t) /\ op = "read"
    <2>1. Reply(r, t, 200, {rows[i].owner})
      BY <1>6 DEF LoadRow
    <2>2. {rows[i].owner} \in SUBSET MemberIds /\ ReadsAll(t)
      BY <1>6, StoredFacts, OwnFacts
    <2> QED BY <1>1, <2>1, <2>2, RepliesOnly
  <1> QED BY <1>2, <1>4, <1>5, <1>6

LEMMA ReadRowStep ==
    ASSUME AccessInv, NEW r \in Requests, NEW coll \in Collections, NEW ids \in SUBSET Ids,
           ReadRow(r, coll, ids)
    PROVE  AccessInv'
  <1>1. PICK t \in Tokens, i \in ids : LoadRow(r, t, "read", coll, i, "replied") \/ Reply(r, t, 403, {})
    BY DEF ReadRow
  <1>2. UNCHANGED <<members, rows>> /\ 403 \in Codes
    BY DEF ReadRow, Codes
  <1>3. CASE Reply(r, t, 403, {})
    BY <1>2, <1>3, Refuses
  <1>4. CASE LoadRow(r, t, "read", coll, i, "replied")
    BY <1>2, <1>4, LoadRowStep
  <1> QED BY <1>1, <1>3, <1>4

LEMMA UpdateRowStep ==
    ASSUME AccessInv, NEW r \in Requests, NEW coll \in Collections, NEW ids \in SUBSET Ids,
           NEW ops \in SUBSET {"update", "approve"}, "approve" \in ops => ids \subseteq Submissions,
           UpdateRow(r, coll, ids, ops)
    PROVE  AccessInv'
  <1>1. PICK t \in Tokens, i \in ids, op \in ops :
           \/ HasPermission(t, coll, "update") /\ LoadRow(r, t, op, coll, i, "call")
           \/ Reply(r, t, 403, {})
    BY DEF UpdateRow
  <1>2. UNCHANGED <<members, rows>> /\ 403 \in Codes
    BY DEF UpdateRow, Codes
  <1>3. CASE Reply(r, t, 403, {})
    BY <1>2, <1>3, Refuses
  <1>4. CASE HasPermission(t, coll, "update") /\ LoadRow(r, t, op, coll, i, "call")
    <2>1. Writer(t) /\ op # "read" /\ (op = "approve" => i \in Submissions)
      BY <1>4, Permissions
    <2> QED BY <1>2, <1>4, <2>1, LoadRowStep
  <1> QED BY <1>1, <1>3, <1>4

LEMMA CreateRowStep ==
    ASSUME AccessInv, NEW r \in Requests, NEW coll \in Collections, CreateRow(r, coll)
    PROVE  AccessInv'
  <1>1. PICK t \in Tokens, asked \in MemberIds \union {None} :
           \/ /\ HasPermission(t, coll, "create")
              /\ Goto(r, At(IF IsAdmin(t) THEN "insert" ELSE "setOwner",
                            t, "create", coll, None, asked))
           \/ Reply(r, t, 403, {})
    BY DEF CreateRow
  <1>2. UNCHANGED <<members, rows>> /\ 403 \in Codes
    BY DEF CreateRow, Codes
  <1>3. CASE Reply(r, t, 403, {})
    BY <1>2, <1>3, Refuses
  <1>4. ASSUME HasPermission(t, coll, "create"), NEW pc \in {"insert", "setOwner"},
               pc = "insert" => IsAdmin(t), Goto(r, At(pc, t, "create", coll, None, asked))
        PROVE  AccessInv'
    <2>1. Writer(t)
      BY <1>4, Permissions
    <2>2. PICK q \in Request : /\ q = At(pc, t, "create", coll, None, asked)
                               /\ q.pc = pc /\ q.token = t /\ q.op = "create" /\ q.id = None
                               /\ q.owner = asked /\ q.sub = None
      BY AtFacts DEF Steps
    <2>3. \A j \in Ids : ~Holds(q, j)
      BY <2>2, TypeFacts DEF Holds
    <2>4. HeldOK(q, rows) /\ TokenOK(q, members) /\ IdsOK(q) /\ ServedOK(q, members)
      <3>1. HeldOK(q, rows)
        BY <1>4, <2>1, <2>2, <2>3 DEF HeldOK
      <3>2. TokenOK(q, members)
        BY <1>4, <2>1, <2>2, <2>3 DEF TokenOK, Cleared, Owns
      <3>3. IdsOK(q) /\ ServedOK(q, members)
        BY <1>4, <2>1, <2>2, <2>3 DEF IdsOK, ServedOK
      <3> QED BY <3>1, <3>2, <3>3
    <2>5. req' = [req EXCEPT ![r] = q]
      BY <1>4, <2>2 DEF Goto
    <2> QED BY <1>2, <2>2, <2>3, <2>4, <2>5, GoesOn DEF RequestOK
  <1> QED BY <1>1, <1>3, <1>4

LEMMA GetAllMembersStep ==
    ASSUME AccessInv, NEW r \in Requests, GetAllMembers(r)
    PROVE  AccessInv'
  <1>1. PICK t \in Tokens :
           \/ /\ HasPermission(t, "members", "readAll")
              /\ \E ms \in {{m} : m \in MemberIds} \union {MemberIds} :
                    Reply(r, t, 200, {m \in ms : members[m] # None})
           \/ Reply(r, t, 403, {})
           \/ Reply(r, t, IF MemberOf(t) = {} THEN 500 ELSE 200, MemberOf(t))
    BY Zenon DEF GetAllMembers
  <1>2. UNCHANGED <<members, rows>> /\ 403 \in Codes /\ 200 \in Codes /\ "members" \in Collections
    BY DEF GetAllMembers, Codes, Collections
  <1>3. CASE Reply(r, t, 403, {})
    BY <1>2, <1>3, Refuses
  <1>4. ASSUME HasPermission(t, "members", "readAll"),
               NEW ms \in {{m} : m \in MemberIds} \union {MemberIds},
               Reply(r, t, 200, {m \in ms : members[m] # None})
        PROVE  AccessInv'
    <2>1. {m \in ms : members[m] # None} \in SUBSET MemberIds
      OBVIOUS
    <2> QED BY <1>2, <1>4, <2>1, OwnFacts, RepliesOnly
  <1>5. CASE Reply(r, t, IF MemberOf(t) = {} THEN 500 ELSE 200, MemberOf(t))
    <2>1. (IF MemberOf(t) = {} THEN 500 ELSE 200) \in Codes
      BY DEF Codes
    <2>2. MemberOf(t) \in SUBSET MemberIds /\ \A m \in MemberOf(t) : Owns(t, m, members)
      BY OwnFacts
    <2> QED BY <1>2, <1>5, <2>1, <2>2, RepliesOnly
  <1> QED BY <1>1, <1>3, <1>4, <1>5

LEMMA GetMemberStep ==
    ASSUME AccessInv, NEW r \in Requests, GetMember(r)
    PROVE  AccessInv'
  <1>1. PICK t \in Tokens, m \in MemberIds :
           IF members[m] = None THEN Reply(r, t, 404, {})
           ELSE IF IsAdmin(t) \/ members[m].user = t.user THEN Reply(r, t, 200, {m})
           ELSE Reply(r, t, 403, {})
    BY Zenon DEF GetMember
  <1>2. UNCHANGED <<members, rows>> /\ 403 \in Codes /\ 404 \in Codes /\ 200 \in Codes
    BY DEF GetMember, Codes
  <1>3. CASE Reply(r, t, 404, {}) \/ Reply(r, t, 403, {})
    BY <1>2, <1>3, Refuses
  <1>4. CASE /\ members[m] # None /\ (IsAdmin(t) \/ members[m].user = t.user)
             /\ Reply(r, t, 200, {m})
    <2>1. {m} \in SUBSET MemberIds /\ Owns(t, m, members)
      BY <1>4 DEF Owns
    <2> QED BY <1>2, <1>4, <2>1, RepliesOnly
  <1> QED BY <1>1, <1>3, <1>4

LEMMA UpdateMemberStep ==
    ASSUME AccessInv, NEW r \in Requests, UpdateMember(r)
    PROVE  AccessInv'
  <1>1. PICK t \in Tokens, m \in MemberIds :
           /\ Arrives(r, t, "PUT", "members", {"item"})
           /\ \/ Reply(r, t, 404, {}) \/ Reply(r, t, 403, {})
              \/ /\ members[m] # None /\ (IsAdmin(t) \/ members[m].user = t.user)
                 /\ Goto(r, At("saveMember", t, "update", "members", None, m))
    BY DEF UpdateMember
  <1>2. UNCHANGED <<members, rows>> /\ 403 \in Codes /\ 404 \in Codes /\ "members" \in Collections
    BY DEF UpdateMember, Codes, Collections
  <1>3. CASE Reply(r, t, 404, {}) \/ Reply(r, t, 403, {})
    BY <1>2, <1>3, Refuses
  <1>4. CASE /\ members[m] # None /\ (IsAdmin(t) \/ members[m].user = t.user)
             /\ Goto(r, At("saveMember", t, "update", "members", None, m))
    <2>1. Writer(t)
      BY <1>1, <1>2, OnlyWritersPut DEF Arrives
    <2>2. PICK q \in Request : /\ q = At("saveMember", t, "update", "members", None, m)
                               /\ q.pc = "saveMember" /\ q.token = t /\ q.op = "update" /\ q.id = None
                               /\ q.owner = m /\ q.sub = None
      BY <1>2, AtFacts DEF Steps
    <2>3. (\A j \in Ids : ~Holds(q, j)) /\ q.pc \notin Cleared
      BY <2>2 DEF Holds, Holding, Cleared
    <2>4. HeldOK(q, rows) /\ TokenOK(q, members) /\ IdsOK(q) /\ ServedOK(q, members)
      <3>1. HeldOK(q, rows)
        BY <1>4, <2>1, <2>2, <2>3 DEF HeldOK
      <3>2. TokenOK(q, members)
        BY <1>4, <2>1, <2>2, <2>3 DEF TokenOK, Owns
      <3>3. IdsOK(q) /\ ServedOK(q, members)
        BY <1>4, <2>1, <2>2, <2>3 DEF IdsOK, ServedOK
      <3> QED BY <3>1, <3>2, <3>3
    <2>5. req' = [req EXCEPT ![r] = q]
      BY <1>4, <2>2 DEF Goto
    <2> QED BY <1>2, <2>2, <2>3, <2>4, <2>5, GoesOn DEF RequestOK
  <1> QED BY <1>1, <1>3, <1>4

LEMMA CreateMemberStep ==
    ASSUME AccessInv, NEW r \in Requests, CreateMember(r)
    PROVE  AccessInv'
  <1>1. PICK t \in Tokens, m \in MemberIds :
           \/ Reply(r, t, 403, {})
           \/ /\ HasPermission(t, "members", "create")
              /\ Goto(r, At("insertMember", t, "create", "members", None, m))
    BY DEF CreateMember
  <1>2. UNCHANGED <<members, rows>> /\ 403 \in Codes /\ "members" \in Collections
    BY DEF CreateMember, Codes, Collections
  <1>3. CASE Reply(r, t, 403, {})
    BY <1>2, <1>3, Refuses
  <1>4. CASE /\ HasPermission(t, "members", "create")
             /\ Goto(r, At("insertMember", t, "create", "members", None, m))
    <2>1. Writer(t) /\ IsAdmin(t)
      BY <1>2, <1>4, Permissions
    <2>2. PICK q \in Request : /\ q = At("insertMember", t, "create", "members", None, m)
                               /\ q.pc = "insertMember" /\ q.token = t /\ q.op = "create" /\ q.id = None
                               /\ q.owner = m /\ q.sub = None
      BY <1>2, AtFacts DEF Steps
    <2>3. (\A j \in Ids : ~Holds(q, j)) /\ q.pc \notin Cleared
      BY <2>2 DEF Holds, Holding, Cleared
    <2>4. HeldOK(q, rows) /\ TokenOK(q, members) /\ IdsOK(q) /\ ServedOK(q, members)
      <3>1. HeldOK(q, rows)
        BY <2>1, <2>2, <2>3 DEF HeldOK
      <3>2. TokenOK(q, members)
        BY <2>1, <2>2, <2>3 DEF TokenOK
      <3>3. IdsOK(q) /\ ServedOK(q, members)
        BY <2>1, <2>2, <2>3 DEF IdsOK, ServedOK
      <3> QED BY <3>1, <3>2, <3>3
    <2>5. req' = [req EXCEPT ![r] = q]
      BY <1>4, <2>2 DEF Goto
    <2> QED BY <1>2, <2>2, <2>3, <2>4, <2>5, GoesOn DEF RequestOK
  <1> QED BY <1>1, <1>3, <1>4

-----------------------------------------------------------------------------
(* The steps of a request *)

LEMMA Here ==
    ASSUME AccessInv, NEW r \in Requests
    PROVE  /\ req[r] \in Request /\ HeldOK(req[r], rows) /\ TokenOK(req[r], members) /\ IdsOK(req[r])
           /\ req[r].owner \in MemberIds \union {None} /\ req[r].sub \in Submissions \union {None}
  <1>1. req[r] \in Request /\ RequestOK(req[r], members, rows)
    BY TypeFacts DEF AccessInv
  <1>2. req[r].owner \in MemberIds \union {None} /\ req[r].sub \in Submissions \union {None}
    BY <1>1 DEF Request
  <1> QED BY <1>1, <1>2 DEF RequestOK

LEMMA CheckOwnerStep ==
    ASSUME AccessInv, NEW r \in Requests, CheckOwner(r)
    PROVE  AccessInv'
  <1>1. PICK p \in Request : p = req[r] /\ HeldOK(p, rows) /\ TokenOK(p, members) /\ IdsOK(p)
    BY Here
  <1>2. p.pc = "own" /\ UNCHANGED <<members, rows>> /\ p.token \in Tokens /\ p.id \in Ids /\ p.sub = None
    BY <1>1 DEF CheckOwner, IdsOK
  <1>3. 403 \in Codes /\ 200 \in Codes
    BY DEF Codes
  <1>4. CASE Reply(r, p.token, 403, {})
    BY <1>2, <1>3, <1>4, Refuses
  <1>5. CASE p.owner \in MemberOf(p.token) /\ Reply(r, p.token, 200, {p.owner})
    <2>1. {p.owner} \in SUBSET MemberIds /\ Owns(p.token, p.owner, members)
      BY <1>2, <1>5, OwnFacts
    <2> QED BY <1>2, <1>3, <1>5, <2>1, RepliesOnly
  <1>6. CASE /\ p.owner \in MemberOf(p.token) /\ p.op # "read"
             /\ Goto(r, [p EXCEPT !.pc = "call"])
    <2>1. "call" \in Steps
      BY DEF Steps
    <2>4. PICK q \in Request : /\ q = [p EXCEPT !.pc = "call"]
                               /\ q.pc = "call" /\ q.token = p.token /\ q.op = p.op /\ q.id = p.id
                               /\ q.owner = p.owner /\ q.sub = p.sub
      BY <2>1, Moves
    <2>5. Owns(p.token, p.owner, members) /\ Writer(p.token)
      BY <1>1, <1>2, <1>6, OwnFacts DEF TokenOK
    <2>6. \A i \in Ids : Holds(q, i) => Holds(p, i) /\ q.owner = p.owner
      BY <1>2, <2>4 DEF Holds, Holding
    <2>7. HeldOK(q, rows) /\ TokenOK(q, members) /\ IdsOK(q) /\ ServedOK(q, members)
      <3>1. HeldOK(q, rows)
        BY <1>1, <1>2, <2>4, <2>5, <2>6 DEF HeldOK
      <3>2. TokenOK(q, members)
        BY <1>1, <1>2, <2>4, <2>5, <2>6 DEF TokenOK, Cleared
      <3>3. IdsOK(q) /\ ServedOK(q, members)
        BY <1>1, <1>2, <2>4, <2>5, <2>6 DEF IdsOK, ServedOK
      <3> QED BY <3>1, <3>2, <3>3
    <2>8. req' = [req EXCEPT ![r] = q]
      BY <1>6, <2>4 DEF Goto
    <2> QED BY <1>1, <1>2, <2>6, <2>7, <2>8, GoesOn DEF RequestOK
  <1> QED BY <1>1, <1>4, <1>5, <1>6 DEF CheckOwner

LEMMA SetOwnerStep ==
    ASSUME AccessInv, NEW r \in Requests, SetOwner(r)
    PROVE  AccessInv'
  <1>1. PICK p \in Request : p = req[r] /\ HeldOK(p, rows) /\ TokenOK(p, members) /\ IdsOK(p)
    BY Here
  <1>2. p.pc = "setOwner" /\ UNCHANGED <<members, rows>> /\ p.token \in Tokens
        /\ p.id = None /\ p.sub = None /\ Writer(p.token)
    BY <1>1 DEF SetOwner, IdsOK, TokenOK
  <1>3. 403 \in Codes
    BY DEF Codes
  <1>4. CASE Reply(r, p.token, 403, {})
    BY <1>2, <1>3, <1>4, Refuses
  <1>5. ASSUME NEW m \in MemberOf(p.token), Goto(r, [p EXCEPT !.pc = "insert", !.owner = m])
        PROVE  AccessInv'
    <2>1. "insert" \in Steps
      BY DEF Steps
    <2>2. m \in MemberIds /\ Owns(p.token, m, members)
      BY <1>2, OwnFacts
    <2>3. PICK q \in Request : /\ q = WithOwner(p, "insert", m)
                               /\ q.pc = "insert" /\ q.token = p.token /\ q.op = p.op /\ q.id = p.id
                               /\ q.owner = m /\ q.sub = p.sub
      BY <2>1, <2>2, Moves
    <2>4. \A i \in Ids : ~Holds(q, i)
      BY <1>2, <2>3, TypeFacts DEF Holds
    <2>5. HeldOK(q, rows) /\ TokenOK(q, members) /\ IdsOK(q) /\ ServedOK(q, members)
      <3>1. HeldOK(q, rows)
        BY <1>2, <2>2, <2>3, <2>4 DEF HeldOK
      <3>2. TokenOK(q, members)
        BY <1>2, <2>2, <2>3, <2>4 DEF TokenOK, Cleared
      <3>3. IdsOK(q) /\ ServedOK(q, members)
        BY <1>2, <2>2, <2>3, <2>4 DEF IdsOK, ServedOK
      <3> QED BY <3>1, <3>2, <3>3
    <2>6. req' = [req EXCEPT ![r] = q]
      BY <1>5, <2>3 DEF Goto, WithOwner
    <2> QED BY <1>2, <2>4, <2>5, <2>6, GoesOn DEF RequestOK
  <1> QED BY <1>1, <1>4, <1>5 DEF SetOwner

\* A record for user u, and a record written again.
LEMMA Signed ==
    ASSUME NEW t \in Tokens
    PROVE  /\ \A u \in Users : \E x \in [user: Users, by: Tokens] :
                 x = [user |-> u, by |-> t] /\ x.by = t
           /\ \A y \in [user: Users, by: Tokens] : \E x \in [user: Users, by: Tokens] :
                 x = Rewritten(y, t) /\ x.by = t /\ x.user = y.user
  <1>1. ASSUME NEW u \in Users
        PROVE  LET x == [user |-> u, by |-> t] IN x \in [user: Users, by: Tokens] /\ x.by = t
    OBVIOUS
  <1>2. ASSUME NEW y \in [user: Users, by: Tokens] PROVE LET x == [y EXCEPT !.by = t] IN
        x \in [user: Users, by: Tokens] /\ x.by = t /\ x.user = y.user
    OBVIOUS
  <1> QED BY <1>1, <1>2, Zenon DEF Rewritten

\* A step that answers and changes the record of one member.
LEMMA WritesRecord ==
    ASSUME AccessInv, NEW r \in Requests, NEW t \in Tokens, NEW cd \in Codes, NEW m \in MemberIds,
           NEW x \in [user: Users, by: Tokens], members' = [members EXCEPT ![m] = x], UNCHANGED rows,
           members[m] # None => members[m].user = x.user, RecordOK(x),
           ReadsAll(t) \/ x.user = t.user, Reply(r, t, cd, {m})
    PROVE  AccessInv'
  <1>1. x # None
    BY ConstantsAssumption
  <1>2. /\ members' \in [MemberIds -> [user: Users, by: Tokens] \union {None}]
        /\ members'[m] = x /\ \A n \in MemberIds : n # m => members'[n] = members[n]
    BY TypeFacts
  <1>3. \A n \in MemberIds : members[n] # None => members'[n] # None /\ members'[n].user = members[n].user
    BY <1>1, <1>2
  <1>4. \A n \in MemberIds : RecordOK(members'[n])
    BY <1>2 DEF AccessInv
  <1>5. ReadsAll(t) \/ \A n \in {m} : Owns(t, n, members')
    BY <1>1, <1>2 DEF Owns
  <1>6. PICK q \in Request : /\ req' = [req EXCEPT ![r] = q] /\ RequestOK(q, members', rows')
                             /\ \A i \in Ids : ~Holds(q, i)
    BY <1>5, Replied
  <1>7. MembersMove(members, members')
    BY <1>2, <1>3, <1>4 DEF MembersMove
  <1>8. RowsMove(req[r], rows, rows', members') /\ Takes(req[r], q, rows)
    BY <1>6, TypeFacts DEF RowsMove, Takes
  <1> QED BY <1>6, <1>7, <1>8, OneRequest

LEMMA InsertMemberStep ==
    ASSUME AccessInv, NEW r \in Requests, InsertMember(r)
    PROVE  AccessInv'
  <1>1. PICK p \in Request : p = req[r] /\ TokenOK(p, members) /\ IdsOK(p)
    BY Here
  <1>2. /\ p.pc = "insertMember" /\ UNCHANGED rows /\ p.token \in Tokens
        /\ Writer(p.token) /\ IsAdmin(p.token) /\ p.owner \in MemberIds
    BY <1>1 DEF InsertMember, IdsOK, TokenOK
  <1>3. 400 \in Codes /\ 201 \in Codes
    BY DEF Codes
  <1>4. CASE UNCHANGED members /\ Reply(r, p.token, 400, {})
    BY <1>2, <1>3, <1>4, Refuses
  <1>5. ASSUME members[p.owner] = None, NEW u \in Users,
               members' = [members EXCEPT ![p.owner] = [user |-> u, by |-> p.token]],
               Reply(r, p.token, 201, {p.owner})
        PROVE  AccessInv'
    <2>1. PICK x \in [user: Users, by: Tokens] :
             x = [user |-> u, by |-> p.token] /\ x.by = p.token
      BY <1>2, Signed, Zenon
    <2>2. RecordOK(x) /\ ReadsAll(p.token)
      BY <1>2, <2>1, OwnFacts DEF RecordOK
    <2> QED BY <1>2, <1>3, <1>5, <2>1, <2>2, WritesRecord
  <1> QED BY <1>1, <1>4, <1>5 DEF InsertMember

LEMMA SaveMemberStep ==
    ASSUME AccessInv, NEW r \in Requests, SaveMember(r)
    PROVE  AccessInv'
  <1>1. PICK p \in Request : p = req[r] /\ TokenOK(p, members) /\ IdsOK(p)
    BY Here
  <1>2. /\ p.pc = "saveMember" /\ UNCHANGED rows /\ p.token \in Tokens /\ Writer(p.token)
        /\ p.owner \in MemberIds /\ members[p.owner] # None /\ Owns(p.token, p.owner, members)
    BY <1>1 DEF SaveMember, IdsOK, TokenOK
  <1>3. 400 \in Codes /\ 200 \in Codes
    BY DEF Codes
  <1>4. CASE UNCHANGED members /\ Reply(r, p.token, 400, {})
    BY <1>2, <1>3, <1>4, Refuses
  <1>5. CASE members' = [members EXCEPT ![p.owner].by = p.token] /\ Reply(r, p.token, 200, {p.owner})
    <2>1. members[p.owner] \in [user: Users, by: Tokens]
      BY <1>2, TypeFacts
    <2>2. PICK x \in [user: Users, by: Tokens] :
             /\ x = Rewritten(members[p.owner], p.token)
             /\ x.by = p.token /\ x.user = members[p.owner].user
      BY <1>2, <2>1, Signed
    <2>3. members' = [members EXCEPT ![p.owner] = x]
      BY <1>5, <2>2 DEF Rewritten
    <2>4. IsAdmin(p.token) \/ x.user = p.token.user
      BY <1>2, <2>2 DEF Owns
    <2>5. RecordOK(x) /\ (ReadsAll(p.token) \/ x.user = p.token.user)
      BY <1>2, <2>2, <2>4, OwnFacts DEF RecordOK
    <2>6. /\ p.token \in Tokens /\ p.owner \in MemberIds /\ UNCHANGED rows
          /\ members[p.owner].user = x.user
      BY <1>2, <2>2
    <2>7. /\ 200 \in Codes /\ Reply(r, p.token, 200, {p.owner})
          /\ members[p.owner] # None => members[p.owner].user = x.user
      BY <1>3, <1>5, <2>6
    <2> QED BY <2>3, <2>5, <2>6, <2>7, WritesRecord
  <1> QED BY <1>1, <1>4, <1>5 DEF SaveMember

\* A row written by p's token for p's owner.
Signature(p) == [owner |-> p.owner, by |-> p.token]

LEMMA SignedRows ==
    ASSUME NEW p, p.owner \in MemberIds, p.token \in Tokens, Writer(p.token),
           NEW ms, Owns(p.token, p.owner, ms)
    PROVE  /\ Signature(p) \in Row /\ IsRow(Signature(p)) /\ RowOK(Signature(p), ms)
           /\ Signature(p).owner = p.owner
  <1>1. Signature(p) \in Row /\ Signature(p).owner = p.owner /\ Signature(p).by = p.token
    BY DEF Signature, Row
  <1>2. IsRow(Signature(p))
    BY <1>1, ConstantsAssumption DEF Row, IsRow
  <1> QED BY <1>1, <1>2 DEF RowOK

\* What a cleared request may rely on.
LEMMA ClearedFacts ==
    ASSUME AccessInv, NEW r \in Requests, req[r].pc \in Cleared
    PROVE  /\ req[r].token \in Tokens /\ Writer(req[r].token)
           /\ Owns(req[r].token, req[r].owner, members)
           /\ req[r].owner \in MemberIds =>
                 ReadsAll(req[r].token) \/ \A m \in {req[r].owner} : Owns(req[r].token, m, members)
           /\ \A i \in Ids : req[r].id = i \/ req[r].sub = i =>
                 /\ Holds(req[r], i) /\ req[r].owner \in MemberIds /\ rows[i] # None
                 /\ rows[i] # Deleted => rows[i].owner = req[r].owner
  BY Here DEF IdsOK, TokenOK, HeldOK, Holds, Holding, Cleared

\* What has to be shown of a step that rewrites or deletes a row, or none.
LEMMA WritesRow ==
    ASSUME AccessInv, NEW r \in Requests, NEW q \in Request, req' = [req EXCEPT ![r] = q],
           UNCHANGED members, RowsMove(req[r], rows, rows', members),
           RequestOK(q, members, rows'), Takes(req[r], q, rows)
    PROVE  AccessInv'
  <1>1. MembersMove(members, members')
    BY TypeFacts DEF MembersMove, AccessInv
  <1>2. RowsMove(req[r], rows, rows', members') /\ RequestOK(q, members', rows')
    OBVIOUS
  <1> QED BY <1>1, <1>2, OneRequest

\* A failed creation answers, or goes on to put its submission back.
LEMMA FailedFacts ==
    ASSUME AccessInv, NEW r \in Requests, req[r].pc \in {"insert", "provision"}, Failed(r),
           HeldOK(req[r], rows')
    PROVE  \E q \in Request :
              /\ req' = [req EXCEPT ![r] = q] /\ RequestOK(q, members, rows')
              /\ \A i \in Ids : Holds(q, i) => Holds(req[r], i) /\ q.owner = req[r].owner
  <1>1. PICK p \in Request : p = req[r] /\ TokenOK(p, members) /\ IdsOK(p)
                             /\ p.sub \in Submissions \union {None}
    BY Here
  <1>2. p.pc \in {"insert", "provision"} /\ p.token \in Tokens /\ HeldOK(p, rows')
    BY <1>1 DEF IdsOK
  <1>3. CASE p.sub = None
    <2>1. Reply(r, p.token, 400, {}) /\ 400 \in Codes /\ {} \in SUBSET MemberIds
      BY <1>1, <1>3 DEF Failed, Codes
    <2>2. ReadsAll(p.token) \/ \A m \in {} : Owns(p.token, m, members)
      OBVIOUS
    <2>3. PICK q \in Request : /\ req' = [req EXCEPT ![r] = q] /\ RequestOK(q, members, rows')
                               /\ \A i \in Ids : ~Holds(q, i)
      BY <1>2, <2>1, <2>2, RepliedHere
    <2> QED BY <2>3
  <1>4. CASE p.sub # None
    <2>1. "revert" \in Steps
      BY DEF Steps
    <2>2. PICK q \in Request : /\ q = [p EXCEPT !.pc = "revert"]
                               /\ q.pc = "revert" /\ q.token = p.token /\ q.op = p.op /\ q.id = p.id
                               /\ q.owner = p.owner /\ q.sub = p.sub
      BY <2>1, Moves
    <2>3. req' = [req EXCEPT ![r] = q]
      BY <1>1, <1>4, <2>2 DEF Failed, Goto
    <2>4. \A i \in Ids : Holds(q, i) => Holds(p, i) /\ q.owner = p.owner
      BY <1>2, <2>2 DEF Holds, Holding
    <2>5. HeldOK(q, rows') /\ TokenOK(q, members) /\ IdsOK(q) /\ ServedOK(q, members)
      <3>1. HeldOK(q, rows')
        BY <1>1, <1>2, <1>4, <2>2, <2>4 DEF HeldOK
      <3>2. TokenOK(q, members)
        BY <1>1, <1>2, <1>4, <2>2, <2>4 DEF TokenOK, Cleared
      <3>3. IdsOK(q) /\ ServedOK(q, members)
        BY <1>1, <1>2, <1>4, <2>2, <2>4 DEF IdsOK, ServedOK
      <3> QED BY <3>1, <3>2, <3>3
    <2> QED BY <1>1, <2>3, <2>4, <2>5 DEF RequestOK
  <1> QED BY <1>3, <1>4

LEMMA InsertRowStep ==
    ASSUME AccessInv, NEW r \in Requests, InsertRow(r)
    PROVE  AccessInv'
  <1>1. PICK p \in Request : /\ p = req[r] /\ HeldOK(p, rows) /\ TokenOK(p, members) /\ IdsOK(p)
                             /\ p.sub \in Submissions \union {None} /\ p.owner \in MemberIds \union {None}
    BY Here
  <1>2. /\ p.pc = "insert" /\ UNCHANGED members /\ p.token \in Tokens /\ Writer(p.token)
        /\ Owns(p.token, p.owner, members)
    BY <1>1 DEF InsertRow, IdsOK, TokenOK, Cleared
  <1>3. CASE UNCHANGED rows /\ Failed(r)
    <2>1. PICK q \in Request :
             /\ req' = [req EXCEPT ![r] = q] /\ RequestOK(q, members, rows')
             /\ \A i \in Ids : Holds(q, i) => Holds(req[r], i) /\ q.owner = req[r].owner
      BY <1>1, <1>2, <1>3, FailedFacts
    <2> QED BY <1>2, <1>3, <2>1, GoesOn
  <1>4. ASSUME p.owner \in MemberIds, NEW i \in Ids, rows[i] = None,
               rows' = [rows EXCEPT ![i] = Signature(p)],
               IF i \in Submissions THEN Reply(r, p.token, 201, {p.owner})
               ELSE Goto(r, WithId(p, "provision", i))
        PROVE  AccessInv'
    <2>1. /\ Signature(p) \in Row /\ IsRow(Signature(p)) /\ RowOK(Signature(p), members)
          /\ Signature(p).owner = p.owner
      BY <1>2, <1>4, SignedRows
    <2>2. /\ rows' \in [Ids -> Row \union {None, Deleted}]
          /\ rows'[i] = Signature(p) /\ \A j \in Ids : j # i => rows'[j] = rows[j]
      BY <1>4, <2>1, TypeFacts
    <2>3. CASE i \in Submissions
      <3>1. /\ Reply(r, p.token, 201, {p.owner}) /\ 201 \in Codes /\ {p.owner} \in SUBSET MemberIds
            /\ ReadsAll(p.token) \/ \A m \in {p.owner} : Owns(p.token, m, members)
        BY <1>2, <1>4, <2>3 DEF Codes
      <3>2. PICK q \in Request : /\ req' = [req EXCEPT ![r] = q] /\ RequestOK(q, members, rows')
                                 /\ \A j \in Ids : ~Holds(q, j)
        BY <1>2, <3>1, RepliedHere
      <3>3. RowsMove(p, rows, rows', members) /\ Takes(p, q, rows)
        BY <1>4, <2>1, <2>2, <3>2 DEF RowsMove, Takes
      <3> QED BY <1>1, <1>2, <3>2, <3>3, WritesRow
    <2>4. CASE i \notin Submissions
      <3>1. "provision" \in Steps
        BY DEF Steps
      <3>2. PICK q \in Request : /\ q = WithId(p, "provision", i)
                                 /\ q.pc = "provision" /\ q.token = p.token /\ q.op = p.op /\ q.id = i
                                 /\ q.owner = p.owner /\ q.sub = p.sub
        BY <3>1, Moves
      <3>3. req' = [req EXCEPT ![r] = q]
        BY <1>4, <2>4, <3>2 DEF Goto
      <3>4. \A j \in Ids : Holds(q, j) => j = i \/ (j # i /\ Holds(p, j))
        BY <1>2, <3>2 DEF Holds, Holding
      <3>5. \A j \in Ids : Holds(p, j) => /\ rows[j] # None
                                          /\ rows[j] # Deleted => rows[j].owner = p.owner
        BY <1>1 DEF HeldOK
      <3>6. HeldOK(q, rows')
        BY <1>4, <2>1, <2>2, <3>2, <3>4, <3>5 DEF HeldOK, IsRow
      <3>7. TokenOK(q, members) /\ IdsOK(q) /\ ServedOK(q, members)
        BY <1>2, <3>2 DEF TokenOK, IdsOK, ServedOK, Cleared
      <3>8. \A j \in Ids : Holds(q, j) => (Holds(p, j) /\ q.owner = p.owner) \/ rows[j] = None
        BY <1>4, <3>2, <3>4
      <3>9. RequestOK(q, members, rows')
        BY <3>6, <3>7 DEF RequestOK
      <3>10. RowsMove(p, rows, rows', members) /\ Takes(p, q, rows)
        BY <1>4, <2>1, <2>2, <3>8 DEF RowsMove, Takes
      <3> QED BY <1>1, <1>2, <3>3, <3>9, <3>10, WritesRow
    <2> QED BY <2>3, <2>4
  <1>5. \A coll : IdsOf(coll) \subseteq Ids
    BY DEF IdsOf, Ids, Submissions
  <1>6. OwnerExists(p.owner) => p.owner \in MemberIds
    BY <1>1 DEF OwnerExists
  <1> QED BY <1>1, <1>3, <1>4, <1>5, <1>6 DEF InsertRow, WithId, Signature

LEMMA ProvisionStep ==
    ASSUME AccessInv, NEW r \in Requests, Provision(r)
    PROVE  AccessInv'
  <1>1. PICK p \in Request : /\ p = req[r] /\ HeldOK(p, rows) /\ IdsOK(p)
    BY Here
  <1>2. /\ p.pc = "provision" /\ UNCHANGED members /\ p.token \in Tokens /\ p.id \in Ids
    BY <1>1 DEF Provision, IdsOK
  <1>3. /\ p.owner \in MemberIds /\ rows[p.id] # None
        /\ ReadsAll(p.token) \/ \A m \in {p.owner} : Owns(p.token, m, members)
    BY <1>1, <1>2, ClearedFacts DEF Cleared
  <1>4. CASE UNCHANGED rows /\ Reply(r, p.token, IF p.sub = None THEN 201 ELSE 200, {p.owner})
    <2>1. (IF p.sub = None THEN 201 ELSE 200) \in Codes /\ {p.owner} \in SUBSET MemberIds
      BY <1>3 DEF Codes
    <2> QED BY <1>2, <1>3, <1>4, <2>1, RepliesOnly
  <1>5. CASE rows' \in {rows, [rows EXCEPT ![p.id] = Deleted]} /\ Failed(r)
    <2>1. /\ rows' \in [Ids -> Row \union {None, Deleted}]
          /\ \A i \in Ids : rows'[i] = rows[i] \/ (rows[i] # None /\ rows'[i] = Deleted)
      BY <1>2, <1>3, <1>5, TypeFacts
    <2>2. HeldOK(p, rows')
      BY <1>1, <2>1, TypeFacts DEF HeldOK
    <2>3. PICK q \in Request :
             /\ req' = [req EXCEPT ![r] = q] /\ RequestOK(q, members, rows')
             /\ \A i \in Ids : Holds(q, i) => Holds(req[r], i) /\ q.owner = req[r].owner
      BY <1>1, <1>2, <1>5, <2>2, FailedFacts
    <2>4. RowsMove(req[r], rows, rows', members) /\ Takes(req[r], q, rows)
      BY <2>1, <2>3 DEF RowsMove, Takes
    <2> QED BY <1>2, <2>3, <2>4, WritesRow
  <1> QED BY <1>1, <1>4, <1>5 DEF Provision

LEMMA LoadAgainStep ==
    ASSUME AccessInv, NEW r \in Requests, LoadAgain(r)
    PROVE  AccessInv'
  <1>1. PICK p \in Request : /\ p = req[r] /\ HeldOK(p, rows) /\ TokenOK(p, members) /\ IdsOK(p)
    BY Here
  <1>2. /\ p.pc = "call" /\ UNCHANGED <<members, rows>> /\ p.token \in Tokens /\ p.id \in Ids
        /\ p.sub = None
    BY <1>1 DEF LoadAgain, IdsOK
  <1>3. CASE Reply(r, p.token, 400, {})
    <2>1. 400 \in Codes
      BY DEF Codes
    <2> QED BY <1>2, <1>3, <2>1, Refuses
  <1>4. CASE Stored(p.id) /\ Goto(r, WithOwner(p, "save", rows[p.id].owner))
    <2>1. rows[p.id].owner = p.owner /\ p.owner \in MemberIds
      BY <1>1, <1>2, <1>4 DEF HeldOK, Holds, Holding, Stored
    <2>2. "save" \in Steps
      BY DEF Steps
    <2>3. PICK q \in Request : /\ q = WithOwner(p, "save", p.owner)
                               /\ q.pc = "save" /\ q.token = p.token /\ q.op = p.op /\ q.id = p.id
                               /\ q.owner = p.owner /\ q.sub = p.sub
      BY <2>1, <2>2, Moves
    <2>4. \A i \in Ids : Holds(q, i) => Holds(p, i) /\ q.owner = p.owner
      BY <1>2, <2>3 DEF Holds, Holding
    <2>5. HeldOK(q, rows) /\ TokenOK(q, members) /\ IdsOK(q) /\ ServedOK(q, members)
      <3>1. HeldOK(q, rows)
        BY <1>1, <1>2, <2>3, <2>4 DEF HeldOK
      <3>2. TokenOK(q, members)
        BY <1>1, <1>2, <2>3, <2>4 DEF TokenOK, Cleared
      <3>3. IdsOK(q) /\ ServedOK(q, members)
        BY <1>1, <1>2, <2>3, <2>4 DEF IdsOK, ServedOK
      <3> QED BY <3>1, <3>2, <3>3
    <2>6. req' = [req EXCEPT ![r] = q]
      BY <1>4, <2>1, <2>3 DEF Goto
    <2> QED BY <1>1, <1>2, <2>4, <2>5, <2>6, GoesOn DEF RequestOK
  <1> QED BY <1>1, <1>3, <1>4 DEF LoadAgain, WithOwner

LEMMA SaveRowStep ==
    ASSUME AccessInv, NEW r \in Requests, SaveRow(r)
    PROVE  AccessInv'
  <1>1. PICK p \in Request : /\ p = req[r] /\ HeldOK(p, rows) /\ TokenOK(p, members) /\ IdsOK(p)
    BY Here
  <1>2. /\ p.pc = "save" /\ UNCHANGED members /\ p.token \in Tokens /\ p.id \in Ids
        /\ p.sub = None /\ (p.op = "approve" => p.id \in Submissions)
        /\ Writer(p.token) /\ Owns(p.token, p.owner, members)
    BY <1>1 DEF SaveRow, IdsOK, TokenOK, Cleared
  <1>3. Holds(p, p.id) /\ p.owner \in MemberIds
    BY <1>1, <1>2 DEF HeldOK, Holds, Holding
  <1>4. CASE UNCHANGED rows /\ Reply(r, p.token, 400, {})
    <2>1. 400 \in Codes
      BY DEF Codes
    <2> QED BY <1>2, <1>4, <2>1, Refuses
  <1>5. ASSUME NEW wanted \in {"schemas", "applications"},
               rows' = [rows EXCEPT ![p.id] = Signature(p)],
               IF p.op = "approve" THEN Goto(r, WithSub(p, "insert", wanted, p.id))
               ELSE Reply(r, p.token, 200, {p.owner})
        PROVE  AccessInv'
    <2>1. /\ Signature(p) \in Row /\ IsRow(Signature(p)) /\ RowOK(Signature(p), members)
          /\ Signature(p).owner = p.owner
      BY <1>2, <1>3, SignedRows
    <2>2. /\ rows' \in [Ids -> Row \union {None, Deleted}]
          /\ rows'[p.id] = Signature(p) /\ \A i \in Ids : i # p.id => rows'[i] = rows[i]
      BY <1>2, <1>5, <2>1, TypeFacts
    <2>3. CASE p.op = "approve"
      <3>1. "insert" \in Steps /\ wanted \in Collections
        BY DEF Steps, Collections
      <3>2. PICK q \in Request : /\ q = WithSub(p, "insert", wanted, p.id)
                                 /\ q.pc = "insert" /\ q.token = p.token /\ q.op = p.op /\ q.id = p.id
                                 /\ q.owner = p.owner /\ q.sub = p.id
        BY <1>2, <2>3, <3>1, Moves
      <3>3. req' = [req EXCEPT ![r] = q]
        BY <1>5, <2>3, <3>2 DEF Goto
      <3>4. \A i \in Ids : Holds(q, i) => i = p.id /\ Holds(p, i) /\ q.owner = p.owner
        BY <1>3, <3>2 DEF Holds
      <3>5. HeldOK(q, rows')
        BY <1>3, <2>1, <2>2, <3>2, <3>4 DEF HeldOK, IsRow
      <3>6. TokenOK(q, members)
        BY <1>2, <3>2 DEF TokenOK, Cleared
      <3>7. IdsOK(q) /\ ServedOK(q, members)
        BY <1>2, <2>3, <3>2 DEF IdsOK, ServedOK
      <3>8. RequestOK(q, members, rows')
        BY <3>5, <3>6, <3>7 DEF RequestOK
      <3>9. RowsMove(p, rows, rows', members) /\ Takes(p, q, rows)
        BY <1>3, <2>1, <2>2, <3>2, <3>4 DEF RowsMove, Takes
      <3> QED BY <1>1, <1>2, <3>3, <3>8, <3>9, WritesRow
    <2>4. CASE p.op # "approve"
      <3>1. /\ Reply(r, p.token, 200, {p.owner}) /\ 200 \in Codes /\ {p.owner} \in SUBSET MemberIds
            /\ ReadsAll(p.token) \/ \A m \in {p.owner} : Owns(p.token, m, members)
        BY <1>2, <1>3, <1>5, <2>4 DEF Codes
      <3>2. PICK q \in Request : /\ req' = [req EXCEPT ![r] = q] /\ RequestOK(q, members, rows')
                                 /\ \A i \in Ids : ~Holds(q, i)
        BY <1>2, <3>1, RepliedHere
      <3>3. RowsMove(p, rows, rows', members) /\ Takes(p, q, rows)
        BY <1>3, <2>1, <2>2, <3>2 DEF RowsMove, Takes
      <3> QED BY <1>1, <1>2, <3>2, <3>3, WritesRow
    <2> QED BY <2>3, <2>4
  <1> QED BY <1>1, <1>4, <1>5 DEF SaveRow, WithSub, Signature

LEMMA RevertStep ==
    ASSUME AccessInv, NEW r \in Requests, Revert(r)
    PROVE  AccessInv'
  <1>1. PICK p \in Request : /\ p = req[r] /\ HeldOK(p, rows) /\ TokenOK(p, members) /\ IdsOK(p)
    BY Here
  <1>2. /\ p.pc = "revert" /\ UNCHANGED members /\ p.token \in Tokens /\ p.sub \in Ids
        /\ Writer(p.token) /\ Owns(p.token, p.owner, members)
    BY <1>1 DEF Revert, IdsOK, TokenOK, Cleared, Ids
  <1>3. Holds(p, p.sub) /\ p.owner \in MemberIds
    BY <1>1, <1>2 DEF HeldOK, Holds, Holding
  <1>4. /\ Signature(p) \in Row /\ IsRow(Signature(p)) /\ RowOK(Signature(p), members)
        /\ Signature(p).owner = p.owner
    BY <1>2, <1>3, SignedRows
  <1>5. rows' \in {rows, [rows EXCEPT ![p.sub] = Signature(p)]} /\ Reply(r, p.token, 400, {})
    BY <1>1 DEF Revert, Signature
  <1>6. /\ rows' \in [Ids -> Row \union {None, Deleted}]
        /\ \A i \in Ids : rows'[i] = rows[i] \/ (i = p.sub /\ rows'[i] = Signature(p))
    BY <1>2, <1>4, <1>5, TypeFacts
  <1>7. /\ 400 \in Codes /\ {} \in SUBSET MemberIds
        /\ ReadsAll(p.token) \/ \A m \in {} : Owns(p.token, m, members)
    BY DEF Codes
  <1>8. PICK q \in Request : /\ req' = [req EXCEPT ![r] = q] /\ RequestOK(q, members, rows')
                             /\ \A i \in Ids : ~Holds(q, i)
    BY <1>2, <1>5, <1>7, RepliedHere
  <1>9. RowsMove(p, rows, rows', members) /\ Takes(p, q, rows)
    BY <1>3, <1>4, <1>6, <1>8 DEF RowsMove, Takes
  <1> QED BY <1>1, <1>2, <1>8, <1>9, WritesRow

LEMMA Idles ==
    ASSUME AccessInv, NEW r \in Requests, Goto(r, Idle), UNCHANGED <<members, rows>>
    PROVE  AccessInv'
  <1>1. PICK q \in Request : q = At("idle", None, "none", "none", None, None) /\ q.pc = "idle"
    BY AtFacts DEF Steps
  <1>2. req' = [req EXCEPT ![r] = q]
    BY <1>1 DEF Goto, Idle
  <1>3. RequestOK(q, members, rows) /\ \A i \in Ids : ~Holds(q, i)
    BY <1>1 DEF RequestOK, HeldOK, TokenOK, IdsOK, ServedOK, Holds, Holding, Cleared
  <1> QED BY <1>2, <1>3, GoesOn

-----------------------------------------------------------------------------
(* The invariant *)

LEMMA AccessInit == Init => AccessInv
  <1> SUFFICES ASSUME Init PROVE AccessInv
    OBVIOUS
  <1>1. PICK q \in Request : q = At("idle", None, "none", "none", None, None) /\ q.pc = "idle"
    BY AtFacts DEF Steps
  <1>2. req = [r \in Requests |-> q]
    BY <1>1 DEF Init, Idle
  <1>3. RequestOK(q, members, rows) /\ SameOwner(q, q)
    BY <1>1 DEF RequestOK, HeldOK, TokenOK, IdsOK, ServedOK, SameOwner, Holds, Holding, Cleared
  <1>4. \A m \in MemberIds : RecordOK(members[m])
    BY DEF Init, RecordOK
  <1>5. \A i \in Ids : RowOK(rows[i], members)
    BY DEF Init, RowOK, IsRow
  <1>6. TypeOK
    BY <1>2 DEF Init, TypeOK
  <1> QED BY <1>2, <1>3, <1>4, <1>5, <1>6 DEF AccessInv

\* What the handlers of the four kinds of rows are instances of.
LEMMA Handlers ==
    ASSUME NEW r, Arrival(r)
    PROVE  \/ TurnAway(r)
           \/ \E coll \in Collections, ids \in SUBSET Ids :
                 \/ ReadRow(r, coll, ids)
                 \/ CreateRow(r, coll)
                 \/ UpdateRow(r, coll, ids, {"update"})
                 \/ ids \subseteq Submissions /\ UpdateRow(r, coll, ids, {"update", "approve"})
                 \/ ListRows(r, coll, ids, Admins)
                 \/ ListRows(r, coll, ids, ReadersOfAll(coll))
           \/ GetAllMembers(r) \/ GetMember(r) \/ UpdateMember(r) \/ CreateMember(r)
  <1>1. /\ {"schemas", "applications", "schema-submissions", "application-submissions"} \subseteq Collections
        /\ {Schemas, Applications, SchemaSubmissions, ApplicationSubmissions} \subseteq SUBSET Ids
        /\ SchemaSubmissions \subseteq Submissions /\ ApplicationSubmissions \subseteq Submissions
    BY DEF Collections, Ids, Submissions
  <1>2. CASE GetSchema(r) \/ GetApplication(r) \/ GetSchemaSubmission(r) \/ GetApplicationSubmission(r)
    BY <1>1, <1>2 DEF GetSchema, GetApplication, GetSchemaSubmission, GetApplicationSubmission
  <1>3. CASE \/ CreateSchema(r) \/ CreateApplication(r) \/ CreateSchemaSubmission(r)
             \/ CreateApplicationSubmission(r)
    BY <1>1, <1>3 DEF CreateSchema, CreateApplication, CreateSchemaSubmission,
                      CreateApplicationSubmission
  <1>4. CASE UpdateSchema(r) \/ UpdateApplication(r)
    BY <1>1, <1>4 DEF UpdateSchema, UpdateApplication
  <1>5. CASE UpdateSchemaSubmission(r) \/ UpdateApplicationSubmission(r)
    BY <1>1, <1>5 DEF UpdateSchemaSubmission, UpdateApplicationSubmission
  <1>6. CASE GetAllSchemas(r) \/ GetAllApplicationSubmissions(r)
    BY <1>1, <1>6 DEF GetAllSchemas, GetAllApplicationSubmissions
  <1>7. CASE GetAllApplications(r) \/ GetAllSchemaSubmissions(r)
    BY <1>1, <1>7 DEF GetAllApplications, GetAllSchemaSubmissions
  <1> QED BY <1>2, <1>3, <1>4, <1>5, <1>6, <1>7 DEF Arrival

LEMMA ArrivalStep ==
    ASSUME AccessInv, NEW r \in Requests, Arrival(r)
    PROVE  AccessInv'
  <1>1. ASSUME NEW coll \in Collections, NEW ids \in SUBSET Ids,
               \/ ReadRow(r, coll, ids)
               \/ CreateRow(r, coll)
               \/ UpdateRow(r, coll, ids, {"update"})
               \/ ids \subseteq Submissions /\ UpdateRow(r, coll, ids, {"update", "approve"})
        PROVE  AccessInv'
    <2>1. /\ {"update"} \in SUBSET {"update", "approve"} /\ "approve" \notin {"update"}
          /\ {"update", "approve"} \in SUBSET {"update", "approve"}
      OBVIOUS
    <2> QED BY <1>1, <2>1, ReadRowStep, CreateRowStep, UpdateRowStep
  <1>2. ASSUME NEW coll \in Collections, NEW ids \in SUBSET Ids,
               ListRows(r, coll, ids, Admins) \/ ListRows(r, coll, ids, ReadersOfAll(coll))
        PROVE  AccessInv'
    <2>1. /\ \A t \in Tokens : t \in Admins => ReadsAll(t)
          /\ \A t \in Tokens : t \in ReadersOfAll(coll) => ReadsAll(t)
      BY OwnFacts DEF Admins, ReadersOfAll
    <2> QED BY <1>2, <2>1, ListRowsStep
  <1> QED BY <1>1, <1>2, Handlers, TurnAwayStep, GetAllMembersStep, GetMemberStep,
             UpdateMemberStep, CreateMemberStep

LEMMA AccessNext == AccessInv /\ [Next]_vars => AccessInv'
  <1> SUFFICES ASSUME AccessInv, [Next]_vars PROVE AccessInv'
    OBVIOUS
  <1>1. CASE UNCHANGED vars
    BY <1>1 DEF vars, AccessInv, TypeOK, RequestOK, HeldOK, TokenOK, IdsOK, ServedOK,
                SameOwner, RowOK, RecordOK, Owns, Holds
  <1>2. ASSUME NEW r \in Requests, Arrival(r) PROVE AccessInv'
    BY <1>2, ArrivalStep
  <1>3. ASSUME NEW r \in Requests, Step(r) PROVE AccessInv'
    <2>1. CASE CheckOwner(r) \/ SetOwner(r) \/ InsertMember(r) \/ SaveMember(r)
      BY <2>1, CheckOwnerStep, SetOwnerStep, InsertMemberStep, SaveMemberStep
    <2>2. CASE InsertRow(r) \/ Provision(r) \/ LoadAgain(r) \/ SaveRow(r) \/ Revert(r)
      BY <2>2, InsertRowStep, ProvisionStep, LoadAgainStep, SaveRowStep, RevertStep
    <2>3. CASE Return(r) \/ Fail(r)
      BY <2>3, Idles DEF Return, Fail
    <2> QED BY <1>3, <2>1, <2>2, <2>3 DEF Step
  <1> QED BY <1>1, <1>2, <1>3 DEF Next

\* Whoever holds a row holds its one owner, requests are cleared for that owner
\* before they write, and what is stored was written by one who was cleared.
THEOREM AccessInvariance == Spec => []AccessInv
  BY AccessInit, AccessNext, PTL DEF Spec

\* Type correctness.
THEOREM AccessTypeCorrect == Spec => []TypeOK
  BY AccessInvariance, PTL DEF AccessInv

\* Rows and records are written by administrators and by their own member only.
THEOREM OwnersWrite == Spec => []OwnerOrAdminWrites
  <1>1. ASSUME AccessInv PROVE OwnerOrAdminWrites
    <2>1. ASSUME NEW i \in Ids, Stored(i)
          PROVE  IsAdmin(rows[i].by) \/ rows[i].owner \in MemberOf(rows[i].by)
      BY <1>1, <2>1 DEF AccessInv, Stored, RowOK, IsRow, Owns, MemberOf
    <2>2. ASSUME NEW m \in MemberIds, members[m] # None
          PROVE  IsAdmin(members[m].by) \/ members[m].by.user = members[m].user
      BY <1>1, <2>2 DEF AccessInv, RecordOK
    <2> QED BY <2>1, <2>2 DEF OwnerOrAdminWrites
  <1> QED BY <1>1, AccessInvariance, PTL

\* A token that may neither create nor update writes nothing, whatever
\* AUTHORIZATION_MODE lets through.
THEOREM ReadersWriteNothing == Spec => []ReadOnlyRolesNeverWrite
  <1>1. ASSUME AccessInv PROVE ReadOnlyRolesNeverWrite
    <2>1. \A t : Writer(t) => \A coll \in Collections : HasPermission(t, coll, "update")
      BY Permissions DEF Writer
    <2>2. "members" \in Collections /\ \A i : CollOf(i) \in Collections
      BY DEF Collections, CollOf
    <2>3. \A i \in Ids : Stored(i) => Writer(rows[i].by)
      BY <1>1 DEF AccessInv, Stored, RowOK, IsRow
    <2>4. \A m \in MemberIds : members[m] # None => Writer(members[m].by)
      BY <1>1 DEF AccessInv, RecordOK
    <2> QED BY <2>1, <2>2, <2>3, <2>4 DEF ReadOnlyRolesNeverWrite
  <1> QED BY <1>1, AccessInvariance, PTL

\* What a caller is served is its own, unless one of its roles reads everything.
THEOREM OwnRowsServed == Spec => []OnlyOwnRowsServed
  <1>1. ASSUME AccessInv PROVE OnlyOwnRowsServed
    <2> SUFFICES ASSUME NEW r \in Requests, req[r].pc = "replied", ~ReadsAll(req[r].token)
                 PROVE  req[r].seen \subseteq MemberOf(req[r].token)
      BY DEF OnlyOwnRowsServed, ReadsAll
    <2>1. req[r].token \in Tokens /\ req[r].seen \subseteq MemberIds
      BY <1>1, TypeFacts DEF AccessInv, RequestOK, IdsOK, Request
    <2>2. \A m \in req[r].seen : Owns(req[r].token, m, members)
      BY <1>1 DEF AccessInv, RequestOK, ServedOK
    <2>3. ~IsAdmin(req[r].token)
      BY <1>1, <2>1, OwnFacts
    <2> QED BY <2>1, <2>2, <2>3 DEF Owns, MemberOf
  <1> QED BY <1>1, AccessInvariance, PTL

\* The rows and members that a step leaves are whose they were, though rows are
\* saved from earlier reads, with the owner that was read.
KeepsOwners ==
    /\ \A i \in Ids : /\ IsRow(rows[i]) /\ IsRow(rows'[i]) => rows'[i].owner = rows[i].owner
                      /\ rows[i] # None => rows'[i] # None
    /\ \A m \in MemberIds : members[m] # None =>
          members'[m] # None /\ members'[m].user = members[m].user

LEMMA SignedKeeps ==
    ASSUME AccessInv, NEW r \in Requests, req[r].pc \in Cleared, UNCHANGED members,
           NEW i \in Ids, req[r].id = i \/ req[r].sub = i,
           rows' = [rows EXCEPT ![i] = Signature(req[r])]
    PROVE  KeepsOwners
  <1>1. /\ req[r].owner \in MemberIds /\ rows[i] # None /\ req[r].token \in Tokens
        /\ rows[i] # Deleted => rows[i].owner = req[r].owner
        /\ Writer(req[r].token) /\ Owns(req[r].token, req[r].owner, members)
    BY ClearedFacts
  <1>2. Signature(req[r]).owner = req[r].owner /\ IsRow(Signature(req[r]))
    BY <1>1, SignedRows
  <1>3. \A j \in Ids : rows'[j] = IF j = i THEN Signature(req[r]) ELSE rows[j]
    BY TypeFacts
  <1> SUFFICES ASSUME NEW j \in Ids
               PROVE  /\ IsRow(rows[j]) /\ IsRow(rows'[j]) => rows'[j].owner = rows[j].owner
                      /\ rows[j] # None => rows'[j] # None
    BY DEF KeepsOwners
  <1> QED BY <1>1, <1>2, <1>3 DEF IsRow

\* A step that writes the record of one member.
LEMMA RecordKeeps ==
    ASSUME AccessInv, UNCHANGED rows, NEW m \in MemberIds, NEW x,
           members' = [members EXCEPT ![m] = x],
           members[m] # None => x # None /\ x.user = members[m].user
    PROVE  KeepsOwners
  <1>1. \A n \in MemberIds : members'[n] = IF n = m THEN x ELSE members[n]
    BY TypeFacts
  <1> QED BY <1>1 DEF KeepsOwners

\* No step gives a row to another member, or a member to another user, and no
\* identifier of a row that was deleted is free again.
THEOREM OwnersKept == Spec => [][KeepsOwners]_vars
  <1>1. ASSUME UNCHANGED <<members, rows>> PROVE KeepsOwners
    BY <1>1 DEF KeepsOwners
  <1>2. ASSUME AccessInv, NEW r \in Requests, Arrival(r) PROVE KeepsOwners
    <2>1. UNCHANGED <<members, rows>>
      BY <1>2, Handlers DEF TurnAway, ReadRow, CreateRow, UpdateRow, ListRows, GetAllMembers,
                            GetMember, UpdateMember, CreateMember
    <2> QED BY <1>1, <2>1
  <1>3. ASSUME AccessInv, NEW r \in Requests, Step(r) PROVE KeepsOwners
    <2>1. CASE CheckOwner(r) \/ SetOwner(r) \/ LoadAgain(r) \/ Return(r) \/ Fail(r)
      BY <1>1, <2>1 DEF CheckOwner, SetOwner, LoadAgain, Return, Fail
    <2>2. CASE InsertMember(r)
      <3>1. UNCHANGED rows /\ req[r].owner \in MemberIds
        BY <1>3, <2>2, Here DEF InsertMember, TokenOK
      <3>2. \/ UNCHANGED members
            \/ members[req[r].owner] = None /\ \E x : members' = [members EXCEPT ![req[r].owner] = x]
        BY <2>2 DEF InsertMember
      <3> QED BY <1>1, <1>3, <3>1, <3>2, RecordKeeps
    <2>3. CASE SaveMember(r)
      <3> DEFINE m == req[r].owner
                 x == Rewritten(members[m], req[r].token)
      <3>1. /\ UNCHANGED rows /\ m \in MemberIds
            /\ members[m] \in [user: Users, by: Tokens] /\ req[r].token \in Tokens
        BY <1>3, <2>3, Here, TypeFacts DEF SaveMember, TokenOK, IdsOK
      <3>2. x \in [user: Users, by: Tokens] /\ x.user = members[m].user
        BY <3>1, Signed
      <3>3. x # None
        BY <3>2, ConstantsAssumption
      <3>4. members' = members \/ members' = [members EXCEPT ![m] = x]
        BY <2>3 DEF SaveMember, Rewritten
      <3> QED BY <1>1, <1>3, <3>1, <3>2, <3>3, <3>4, RecordKeeps
    <2>4. CASE InsertRow(r)
      <3>1. CASE UNCHANGED rows
        BY <1>1, <2>4, <3>1 DEF InsertRow
      <3>2. ASSUME NEW i \in Ids, rows[i] = None, NEW x, rows' = [rows EXCEPT ![i] = x]
            PROVE  KeepsOwners
        <4>1. \A j \in Ids : rows[j] # None => rows'[j] = rows[j]
          BY <1>3, <3>2, TypeFacts
        <4>2. UNCHANGED members
          BY <2>4 DEF InsertRow
        <4> QED BY <4>1, <4>2 DEF KeepsOwners, IsRow
      <3>3. IdsOf(req[r].coll) \subseteq Ids
        BY DEF IdsOf, Ids, Submissions
      <3>4. \/ UNCHANGED rows
            \/ \E i \in IdsOf(req[r].coll) :
                  rows[i] = None /\ \E x : rows' = [rows EXCEPT ![i] = x]
        BY <2>4 DEF InsertRow
      <3> QED BY <3>1, <3>2, <3>3, <3>4
    <2>5. CASE Provision(r)
      <3>1. rows' \in {rows, [rows EXCEPT ![req[r].id] = Deleted]} /\ UNCHANGED members
        BY <2>5 DEF Provision
      <3>2. \A j \in Ids : rows'[j] = rows[j] \/ rows'[j] = Deleted
        BY <1>3, <3>1, TypeFacts
      <3> QED BY <3>1, <3>2, ConstantsAssumption DEF KeepsOwners, IsRow
    <2>6. CASE SaveRow(r)
      <3>1. req[r].pc \in Cleared /\ UNCHANGED members
        BY <2>6 DEF SaveRow, Cleared
      <3>2. CASE UNCHANGED rows
        BY <1>1, <3>1, <3>2
      <3>3. CASE rows' = [rows EXCEPT ![req[r].id] = Signature(req[r])]
        BY <1>3, <2>6, <3>1, <3>3, SignedKeeps, Here DEF IdsOK, SaveRow
      <3> QED BY <2>6, <3>2, <3>3 DEF SaveRow, Signature
    <2>7. CASE Revert(r)
      <3>1. req[r].pc \in Cleared /\ UNCHANGED members
        BY <2>7 DEF Revert, Cleared
      <3>2. CASE UNCHANGED rows
        BY <1>1, <3>1, <3>2
      <3>3. CASE rows' = [rows EXCEPT ![req[r].sub] = Signature(req[r])]
        BY <1>3, <2>7, <3>1, <3>3, SignedKeeps, Here DEF IdsOK, Revert, Ids
      <3> QED BY <2>7, <3>2, <3>3 DEF Revert, Signature
    <2> QED BY <1>3, <2>1, <2>2, <2>3, <2>4, <2>5, <2>6, <2>7 DEF Step
  <1>4. AccessInv /\ [Next]_vars => [KeepsOwners]_vars
    BY <1>2, <1>3 DEF Next
  <1> QED BY <1>4, AccessInvariance, PTL DEF Spec

=============================================================================
