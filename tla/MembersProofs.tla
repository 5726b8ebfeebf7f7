---------------------------- MODULE MembersProofs ----------------------------
(***************************************************************************)
(* Proofs about the members of the portal, for any number of requests,     *)
(* users, e-mail addresses and values.                                     *)
(*                                                                         *)
(* The invariant says what every request in flight may rely on: a creation *)
(* knows which parts of its member are there or are listed as lost; an     *)
(* update knows that the row is there, and, if no other request works on   *)
(* the member, which values the row and the IdP have.                      *)
(***************************************************************************)
EXTENDS Members, TLAPS

Early == {"findGroup", "addToGroup", "insert"}
Creates == Early \union {"removeFromGroup", "deleteUser"}
Writes == {"updateUser", "save", "saveBoth", "restore"}

IsAccount(a) == a \in Account /\ a # None /\ a # Deleted
Lives(u, us) == u \in Users /\ us[u] \notin {None, Deleted}

\* What the creation q may rely on, in a state with these users, group, members
\* and lost parts.
CreationOK(q, us, gr, ms, lo) ==
    q.pc \in Creates =>
       /\ Lives(q.user, us) /\ q.old = None /\ IsAccount(q.new)
       /\ q.pc \in Early => us[q.user] = q.new /\ ms[q.user] = None
       /\ q.pc \in {"findGroup", "addToGroup"} => q.user \notin gr
       /\ q.pc \in {"insert", "removeFromGroup"} => q.user \in gr
       /\ q.pc \in {"removeFromGroup", "deleteUser"} =>
             (ms[q.user] # None => <<"row", q.user>> \in lo)
       /\ q.pc = "deleteUser" => (q.user \in gr => <<"group", q.user>> \in lo)

\* What the update q may rely on.
UpdateOK(q, us, ms) ==
    q.pc \in Writes =>
       /\ q.user \in Users /\ IsAccount(q.new) /\ IsAccount(q.old)
       /\ ms[q.user] # None
       /\ q.new.email = ms[q.user].email /\ q.old.email = ms[q.user].email
       /\ q.pc = "save" => q.new = q.old
       /\ q.alone /\ q.pc # "restore" => ms[q.user] = q.old
       /\ q.alone /\ q.pc = "saveBoth" => us[q.user] = q.new

\* A slot that works on no member yet.
StartOK(q) ==
    /\ q.pc = "idle" => q = Idle
    /\ q.pc = "createUser" => q.user = None /\ q.old = None /\ IsAccount(q.new)

RequestOK(q, us, gr, ms, lo) ==
    StartOK(q) /\ CreationOK(q, us, gr, ms, lo) /\ UpdateOK(q, us, ms)

\* Two requests for one member: neither is alone, and one of them is an update.
Apart(p, q) ==
    p.user # None /\ p.user = q.user =>
       ~p.alone /\ ~q.alone /\ (p.old # None \/ q.old # None)

\* The IdP user comes first, and its id stays in use.
UserFirst == \A u \in Users : users[u] = None => u \notin group /\ members[u] = None

\* The IdP and the row agree unless an update is between its two writes.
Agreed(u) ==
    /\ Exists(u) /\ members[u] # None /\ u \notin drift
    /\ \A r \in Requests : req[r].user = u => req[r].pc \notin {"saveBoth", "restore"}
    => users[u] = members[u]

\* The inductive invariant.
MembersInv ==
    /\ TypeOK
    /\ \A r \in Requests : RequestOK(req[r], users, group, members, lost)
    /\ \A r, s \in Requests : r # s => Apart(req[r], req[s])
    /\ UserFirst
    /\ MembersComplete
    /\ \A u \in Users : Agreed(u)

-----------------------------------------------------------------------------
(* Lemmas *)

LEMMA IdleFacts ==
    /\ Idle \in Request
    /\ Idle.pc = "idle" /\ Idle.user = None /\ Idle.old = None
  BY DEF Idle, At, Request

\* An idle slot relies on nothing.
LEMMA IdleOK ==
    ASSUME NEW us, NEW gr, NEW ms, NEW lo
    PROVE  RequestOK(Idle, us, gr, ms, lo)
  BY IdleFacts DEF RequestOK, StartOK, CreationOK, UpdateOK, Creates, Early, Writes

\* Accounts are neither of the two markers.
LEMMA AccountFacts == \A a \in Account : IsAccount(a)
  BY ConstantsAssumption DEF IsAccount

\* What a request relies on is about its own member only.
LEMMA Frame ==
    ASSUME NEW q, NEW us, NEW gr, NEW ms, NEW lo, NEW us2, NEW gr2, NEW ms2, NEW lo2,
           RequestOK(q, us, gr, ms, lo),
           us2[q.user] = us[q.user], ms2[q.user] = ms[q.user],
           q.user \in gr2 <=> q.user \in gr, lo \subseteq lo2
    PROVE  RequestOK(q, us2, gr2, ms2, lo2)
  BY DEF RequestOK, CreationOK, UpdateOK, Lives

\* The step a request is at tells whether it has a member, and of what kind it is.
LEMMA Kinds ==
    ASSUME MembersInv, NEW r \in Requests
    PROVE  /\ req[r] \in Request
           /\ req[r].pc \in {"idle", "createUser"} => req[r].user = None /\ req[r].old = None
           /\ req[r].pc \in Creates => req[r].user \in Users /\ req[r].old = None
                                       /\ users[req[r].user] # None
           /\ req[r].pc \in Writes => req[r].user \in Users /\ req[r].old # None
                                      /\ members[req[r].user] # None
                                      /\ users[req[r].user] # None
           /\ req[r].pc \in {"idle", "createUser"} \union Creates \union Writes
  <1>1. req[r] \in Request
    BY DEF MembersInv, TypeOK
  <1>2. req[r].pc \in {"idle", "createUser"} \union Creates \union Writes
    BY <1>1 DEF Request, Creates, Early, Writes
  <1>3. RequestOK(req[r], users, group, members, lost)
    BY DEF MembersInv
  <1>4. req[r].pc \in {"idle", "createUser"} => req[r].user = None /\ req[r].old = None
    BY <1>3, IdleFacts DEF RequestOK, StartOK
  <1>5. req[r].pc \in Creates => req[r].user \in Users /\ req[r].old = None
                                 /\ users[req[r].user] # None
    BY <1>3 DEF RequestOK, CreationOK, Lives
  <1>6. req[r].pc \in Writes => req[r].user \in Users /\ req[r].old # None
                                /\ members[req[r].user] # None
    BY <1>3 DEF RequestOK, UpdateOK, IsAccount
  <1>7. req[r].pc \in Writes => users[req[r].user] # None
    BY <1>6 DEF MembersInv, UserFirst
  <1> QED BY <1>1, <1>2, <1>4, <1>5, <1>6, <1>7

-----------------------------------------------------------------------------
(* The inductive invariant *)

LEMMA MembersInit == Init => MembersInv
  <1> SUFFICES ASSUME Init PROVE MembersInv
    OBVIOUS
  <1>1. TypeOK
    BY IdleFacts DEF Init, TypeOK
  <1>2. \A r \in Requests : req[r] = Idle
    BY DEF Init
  <1>3. MembersComplete
    <2>1. \A u \in Users : Has(u) = {}
      BY DEF Init, Has, Exists
    <2> QED BY <2>1 DEF MembersComplete
  <1>4. \A u \in Users : Agreed(u) /\ users[u] = None /\ members[u] = None /\ u \notin group
    BY DEF Init, Agreed, Exists
  <1> QED BY <1>1, <1>2, <1>3, <1>4, IdleOK, IdleFacts DEF MembersInv, Apart, UserFirst

-----------------------------------------------------------------------------
(* The steps of one request *)

\* The step of the request r, which becomes q, touches no member but that with
\* IdP user u.
Touches(r, q, u) ==
    /\ req' = [req EXCEPT ![r] = q]
    /\ req[r].user \in {u, None}
    /\ \A v \in Users : v # u =>
          /\ users'[v] = users[v] /\ members'[v] = members[v]
          /\ v \in group' <=> v \in group
          /\ v \in drift' <=> v \in drift
    /\ lost \subseteq lost'

\* The other requests for u can go on.
OthersGoOn(r, u) ==
    \A s \in Requests : s # r /\ req[s].user = u =>
       RequestOK(req[s], users', group', members', lost')

\* The request leaves its member, takes one nobody works on, or goes on with it.
KeepsApart(r, q, u) ==
    \/ q.user = None
    \/ q.user = u /\ \A s \in Requests : s # r => req[s].user # u
    \/ q.user = u /\ req[r].user = u /\ q.old = req[r].old /\ q.alone = req[r].alone

\* What the invariant says of one member.
Complete(u) ==
    (\A r \in Requests : req[r].user = u => req[r].old # None)
    => Has(u) \in {{}, {"user", "group", "row"}} \/ Has(u) \X {u} \subseteq lost

MemberOK(u) ==
    u \in Users =>
       /\ users[u] = None => u \notin group /\ members[u] = None
       /\ Complete(u)
       /\ Agreed(u)

LEMMA OneMember ==
    ASSUME MembersInv, NEW r \in Requests, NEW q, NEW u,
           Touches(r, q, u), TypeOK',
           RequestOK(q, users', group', members', lost'),
           OthersGoOn(r, u), KeepsApart(r, q, u), MemberOK(u)'
    PROVE  MembersInv'
  <1> USE DEF Touches, OthersGoOn, KeepsApart, MemberOK, Complete
  <1>1. /\ req'[r] = q
        /\ \A s \in Requests : s # r => req'[s] = req[s]
    BY DEF MembersInv, TypeOK
  <1>2. q.user \in {u, None}
    OBVIOUS
  <1>3. \A s \in Requests : RequestOK(req'[s], users', group', members', lost')
    <2> SUFFICES ASSUME NEW s \in Requests, s # r, req[s].user # u
                 PROVE  RequestOK(req[s], users', group', members', lost')
      BY <1>1
    <2>1. RequestOK(req[s], users, group, members, lost)
      BY DEF MembersInv
    <2>2. CASE req[s].user \in Users
      BY <2>1, <2>2, Frame
    <2>3. CASE req[s].user \notin Users
      <3>1. req[s].pc \in {"idle", "createUser"}
        BY <2>3, Kinds
      <3> QED BY <3>1, <2>1 DEF RequestOK, StartOK, CreationOK, UpdateOK, Creates, Early, Writes
    <2> QED BY <2>2, <2>3
  <1>4. \A s, t \in Requests : s # t => Apart(req'[s], req'[t])
    <2>1. \A s, t \in Requests : s # t => Apart(req[s], req[t])
      BY DEF MembersInv
    <2>2. \A s \in Requests : s # r => Apart(q, req[s]) /\ Apart(req[s], q)
      BY <2>1 DEF Apart
    <2> QED BY <2>1, <2>2, <1>1
  <1>5. UserFirst'
    BY DEF MembersInv, UserFirst
  <1>6. ASSUME NEW v \in Users, v # u
        PROVE  /\ (\A s \in Requests : req'[s].user = v => req'[s].old # None)
                  => Has(v)' \in {{}, {"user", "group", "row"}} \/ Has(v)' \X {v} \subseteq lost'
               /\ Agreed(v)'
    <2>1. None \notin Users
      BY ConstantsAssumption
    <2>2. req'[r].user # v /\ req[r].user # v
      BY <1>1, <1>2, <1>6, <2>1
    <2>3. Has(v)' = Has(v)
      BY <1>6 DEF Has, Exists
    <2>4. (\A s \in Requests : req[s].user = v => req[s].old # None)
          => Has(v) \in {{}, {"user", "group", "row"}} \/ Has(v) \X {v} \subseteq lost
      BY DEF MembersInv, MembersComplete
    <2>5. Agreed(v)
      BY DEF MembersInv
    <2>6. Agreed(v)'
      BY <1>1, <1>6, <2>2, <2>5 DEF Agreed, Exists
    <2> QED BY <1>1, <2>2, <2>3, <2>4, <2>6
  <1>7. MembersComplete'
    BY <1>6 DEF MembersComplete
  <1>8. \A v \in Users : Agreed(v)'
    BY <1>6
  <1> QED BY <1>3, <1>4, <1>5, <1>7, <1>8 DEF MembersInv

\* Until its row is inserted, no other request works on the member of a creation.
LEMMA EarlyAlone ==
    ASSUME MembersInv, NEW r \in Requests, req[r].pc \in Early
    PROVE  \A s \in Requests : s # r => req[s].user # req[r].user
  <1> SUFFICES ASSUME NEW s \in Requests, s # r, req[s].user = req[r].user PROVE FALSE
    OBVIOUS
  <1>1. req[r].user \in Users /\ req[r].old = None
    BY Kinds DEF Creates
  <1>2. members[req[r].user] = None
    BY DEF MembersInv, RequestOK, CreationOK, Creates
  <1>3. req[s].old # None
    BY <1>1, ConstantsAssumption DEF MembersInv, Apart
  <1>4. req[s].pc \in Writes
    BY <1>3, Kinds
  <1> QED BY <1>2, <1>4, Kinds

\* Later, only updates do, and none of them takes itself for alone.
LEMMA LateOthers ==
    ASSUME MembersInv, NEW r \in Requests, req[r].user # None,
           NEW s \in Requests, s # r, req[s].user = req[r].user
    PROVE  /\ ~req[r].alone /\ ~req[s].alone
           /\ req[r].old = None => req[s].pc \in Writes
           /\ req[s].pc \in Creates \union Writes
  <1>1. Apart(req[r], req[s])
    BY DEF MembersInv
  <1>2. req[s].pc \in Creates \union Writes
    BY Kinds
  <1> QED BY <1>1, <1>2, Kinds DEF Apart

\* Steps that keep the rows.
LEMMA SameRows ==
    ASSUME MembersInv, NEW r \in Requests, NEW q \in Request, req' = [req EXCEPT ![r] = q],
           UNCHANGED members,
           users' \in [Users -> Account \union {None, Deleted}], group' \subseteq Users,
           lost' \subseteq {"user", "group", "row"} \X Users, drift' \subseteq Users
    PROVE  TypeOK'
  BY DEF MembersInv, TypeOK

\* A request that only goes to another step.
LEMMA Moved ==
    ASSUME MembersInv, NEW r \in Requests, NEW pc,
           pc \in {"idle", "createUser"} \union Creates \union Writes, Goto(r, pc)
    PROVE  \E q \in Request :
              /\ req' = [req EXCEPT ![r] = q] /\ req'[r] = q /\ q.pc = pc
              /\ q.user = req[r].user /\ q.new = req[r].new /\ q.old = req[r].old
              /\ q.alone = req[r].alone
  <1> DEFINE q == [req[r] EXCEPT !.pc = pc]
  <1>1. req[r] \in Request /\ req \in [Requests -> Request]
    BY DEF MembersInv, TypeOK
  <1>2. /\ q \in Request /\ q.pc = pc /\ q.user = req[r].user /\ q.new = req[r].new
        /\ q.old = req[r].old /\ q.alone = req[r].alone
    BY <1>1 DEF Request, Creates, Early, Writes
  <1>3. req' = [req EXCEPT ![r] = q] /\ req'[r] = q
    BY <1>1 DEF Goto
  <1> HIDE DEF q
  <1> QED BY <1>2, <1>3

-----------------------------------------------------------------------------
(* Creations *)

LEMMA CreateMemberStep ==
    ASSUME MembersInv, NEW r \in Requests, CreateMember(r)
    PROVE  MembersInv'
  <1>1. PICK body \in Creations : req' = [req EXCEPT ![r] = At("createUser", None, body, None)]
    BY DEF CreateMember
  <1> DEFINE q == At("createUser", None, body, None)
  <1>2. body \in Account
    BY ConstantsAssumption
  <1>3. q \in Request /\ q.pc = "createUser" /\ q.user = None /\ q.old = None /\ q.new = body
    BY <1>2 DEF At, Request
  <1>4. TypeOK'
    BY <1>1, <1>3 DEF CreateMember, MembersInv, TypeOK
  <1>5. RequestOK(q, users', group', members', lost')
    BY <1>2, <1>3, AccountFacts DEF RequestOK, StartOK, CreationOK, UpdateOK, Creates, Early, Writes
  <1>6. Touches(r, q, None)
    BY <1>1, Kinds DEF CreateMember, Touches
  <1>7. OthersGoOn(r, None)
    BY DEF MembersInv, CreateMember, OthersGoOn
  <1>8. KeepsApart(r, q, None) /\ MemberOK(None)'
    BY <1>3, ConstantsAssumption DEF KeepsApart, MemberOK
  <1> HIDE DEF q
  <1> QED BY <1>4, <1>5, <1>6, <1>7, <1>8, OneMember

LEMMA CreateUserStep ==
    ASSUME MembersInv, NEW r \in Requests, CreateUser(r)
    PROVE  MembersInv'
  <1>1. /\ req[r] \in Request /\ req[r].user = None /\ req[r].old = None
        /\ IsAccount(req[r].new) /\ req[r].new \in Account
    BY Kinds DEF CreateUser, MembersInv, RequestOK, StartOK, IsAccount
  <1>2. None \notin Users
    BY ConstantsAssumption
  <1>3. CASE Done(r) /\ UNCHANGED <<users, lost>>
    <2>1. TypeOK'
      BY <1>3, IdleFacts DEF CreateUser, Done, MembersInv, TypeOK
    <2>2. OthersGoOn(r, None)
      BY <1>3 DEF CreateUser, MembersInv, OthersGoOn
    <2>3. Touches(r, Idle, None)
      BY <1>1, <1>3 DEF CreateUser, Done, Touches
    <2>4. KeepsApart(r, Idle, None) /\ MemberOK(None)'
      BY <1>2, IdleFacts DEF KeepsApart, MemberOK
    <2> QED BY <2>1, <2>2, <2>3, <2>4, IdleOK, OneMember
  <1>4. ASSUME NEW u \in Users, users[u] = None,
               users' = [users EXCEPT ![u] = req[r].new],
               \/ \E pc \in {"findGroup", "deleteUser"} :
                     req' = [req EXCEPT ![r].pc = pc, ![r].user = u] /\ UNCHANGED lost
               \/ Done(r) /\ Leaves("user", u)
        PROVE  MembersInv'
    <2>1. \A s \in Requests : req[s].user # u
      BY <1>2, <1>4, Kinds
    <2>2. users'[u] = req[r].new /\ Exists(u)' /\ users'[u] # None
      BY <1>1, <1>4 DEF MembersInv, TypeOK, Exists, IsAccount
    <2>3. u \notin group /\ members[u] = None
      BY <1>4 DEF MembersInv, UserFirst
    <2>4. /\ users' \in [Users -> Account \union {None, Deleted}]
          /\ \A v \in Users : v # u => users'[v] = users[v]
      BY <1>1, <1>4 DEF MembersInv, TypeOK
    <2>5. Agreed(u)'
      BY <2>3 DEF Agreed, CreateUser
    <2>6. OthersGoOn(r, u)
      BY <2>1 DEF OthersGoOn
    <2>7. /\ UNCHANGED <<group, members, drift>> /\ group \subseteq Users
          /\ lost \subseteq {"user", "group", "row"} \X Users /\ drift \subseteq Users
      BY DEF CreateUser, MembersInv, TypeOK
    <2>8. ASSUME NEW pc \in {"findGroup", "deleteUser"},
                 req' = [req EXCEPT ![r].pc = pc, ![r].user = u], UNCHANGED lost
          PROVE  MembersInv'
      <3> DEFINE q == [req[r] EXCEPT !.pc = pc, !.user = u]
      <3>1. /\ q \in Request /\ q.pc = pc /\ q.user = u /\ q.old = None
            /\ q.new = req[r].new
        BY <1>1 DEF Request
      <3>2. req' = [req EXCEPT ![r] = q] /\ req'[r] = q
        BY <2>8 DEF MembersInv, TypeOK
      <3>3. RequestOK(q, users', group', members', lost')
        BY <1>1, <2>2, <2>3, <3>1
           DEF RequestOK, StartOK, CreationOK, UpdateOK, Creates, Early, Writes, Lives, IsAccount,
               CreateUser
      <3> HIDE DEF q
      <3>4. TypeOK'
        BY <2>4, <2>8, <2>7, <3>1, <3>2, SameRows
      <3>5. Touches(r, q, u)
        BY <1>1, <2>4, <2>8, <3>2 DEF Touches, CreateUser
      <3>6. KeepsApart(r, q, u)
        BY <2>1, <3>1 DEF KeepsApart
      <3>7. MemberOK(u)'
        BY <2>2, <2>5, <3>1, <3>2 DEF MemberOK, Complete
      <3> QED BY <2>6, <3>3, <3>4, <3>5, <3>6, <3>7, OneMember
    <2>9. CASE Done(r) /\ Leaves("user", u)
      <3>1. TypeOK'
        <4>1. lost' \subseteq {"user", "group", "row"} \X Users
          BY <2>7, <2>9 DEF Leaves
        <4> QED BY <2>4, <2>7, <2>9, <4>1, IdleFacts, SameRows DEF Done
      <3>2. Has(u)' = {"user"}
        BY <2>2, <2>3 DEF Has, CreateUser
      <3>3. MemberOK(u)'
        BY <2>2, <2>5, <2>9, <3>2 DEF Leaves, MemberOK, Complete
      <3>4. Touches(r, Idle, u)
        BY <1>1, <2>4, <2>9 DEF Touches, CreateUser, Done, Leaves
      <3>5. KeepsApart(r, Idle, u)
        BY IdleFacts DEF KeepsApart
      <3> QED BY <2>6, <3>1, <3>3, <3>4, <3>5, IdleOK, OneMember
    <2> QED BY <1>4, <2>8, <2>9
  <1> QED BY <1>3, <1>4 DEF CreateUser

\* What a creation that has its IdP user can rely on.
LEMMA CreationFacts ==
    ASSUME MembersInv, NEW r \in Requests, req[r].pc \in Creates
    PROVE  /\ req[r] \in Request /\ req[r].user \in Users /\ req[r].old = None
           /\ req[r].new \in Account /\ IsAccount(req[r].new)
           /\ users[req[r].user] \notin {None, Deleted}
           /\ CreationOK(req[r], users, group, members, lost)
  BY Kinds DEF MembersInv, RequestOK, CreationOK, IsAccount, Lives

\* A creation relies on CreationOK only.
LEMMA CreationSuffices ==
    ASSUME NEW q, q.pc \in Creates, NEW us, NEW gr, NEW ms, NEW lo, CreationOK(q, us, gr, ms, lo)
    PROVE  RequestOK(q, us, gr, ms, lo)
  BY DEF RequestOK, StartOK, UpdateOK, Creates, Early, Writes

LEMMA FindGroupStep ==
    ASSUME MembersInv, NEW r \in Requests, FindGroup(r)
    PROVE  MembersInv'
  <1> PICK u : u = req[r].user
    OBVIOUS
  <1>1. PICK pc \in {"addToGroup", "deleteUser"} : Goto(r, pc)
    BY DEF FindGroup
  <1>2. req[r].pc = "findGroup" /\ UNCHANGED <<users, group, members, lost, drift>>
    BY DEF FindGroup
  <1>3. PICK q \in Request :
           /\ req' = [req EXCEPT ![r] = q] /\ req'[r] = q /\ q.pc = pc
           /\ q.user = u /\ q.new = req[r].new /\ q.old = req[r].old
           /\ q.alone = req[r].alone
    BY <1>1, Moved DEF Creates, Early
  <1>4. /\ u \in Users /\ req[r].old = None /\ users[u] # None
        /\ CreationOK(req[r], users, group, members, lost)
    BY <1>2, CreationFacts DEF Creates, Early
  <1>5. RequestOK(q, users', group', members', lost')
    BY <1>2, <1>3, <1>4, CreationSuffices DEF CreationOK, Creates, Early
  <1>6. TypeOK'
    BY <1>2, <1>3, SameRows DEF MembersInv, TypeOK
  <1>7. \A s \in Requests : s # r => req[s].user # u
    BY <1>2, EarlyAlone DEF Early
  <1>8. members[u] = None
    BY <1>2, <1>4 DEF CreationOK, Creates, Early
  <1>9. MemberOK(u)'
    BY <1>2, <1>3, <1>4, <1>8 DEF MemberOK, Complete, Agreed
  <1>10. Touches(r, q, u) /\ OthersGoOn(r, u) /\ KeepsApart(r, q, u)
    BY <1>2, <1>3, <1>7 DEF Touches, OthersGoOn, KeepsApart
  <1> QED BY <1>5, <1>6, <1>9, <1>10, OneMember

LEMMA AddToGroupStep ==
    ASSUME MembersInv, NEW r \in Requests, AddToGroup(r)
    PROVE  MembersInv'
  <1> PICK u : u = req[r].user
    OBVIOUS
  <1>1. PICK pc \in {"insert", "deleteUser"} :
           /\ Goto(r, pc)
           /\ group' \in {group, group \union {u}}
           /\ pc = "insert" => u \in group'
           /\ lost' \in {lost, lost \union {<<"group", u>>}}
           /\ pc = "deleteUser" /\ group' # group => <<"group", u>> \in lost'
    BY DEF AddToGroup, Leaves
  <1>2. req[r].pc = "addToGroup" /\ UNCHANGED <<users, members, drift>>
    BY DEF AddToGroup
  <1>3. PICK q \in Request :
           /\ req' = [req EXCEPT ![r] = q] /\ req'[r] = q /\ q.pc = pc
           /\ q.user = u /\ q.new = req[r].new /\ q.old = req[r].old
           /\ q.alone = req[r].alone
    BY <1>1, Moved DEF Creates, Early
  <1>4. /\ u \in Users /\ req[r].old = None /\ users[u] # None
        /\ CreationOK(req[r], users, group, members, lost)
    BY <1>2, CreationFacts DEF Creates, Early
  <1>5. members[u] = None /\ u \notin group
    BY <1>2, <1>4 DEF CreationOK, Creates, Early
  <1>6. RequestOK(q, users', group', members', lost')
    BY <1>1, <1>2, <1>3, <1>4, <1>5, CreationSuffices DEF CreationOK, Creates, Early
  <1>7. TypeOK'
    BY <1>1, <1>2, <1>3, <1>4, SameRows DEF MembersInv, TypeOK
  <1>8. \A s \in Requests : s # r => req[s].user # u
    BY <1>2, EarlyAlone DEF Early
  <1>9. MemberOK(u)'
    BY <1>2, <1>3, <1>4, <1>5 DEF MemberOK, Complete, Agreed
  <1>10. Touches(r, q, u) /\ OthersGoOn(r, u) /\ KeepsApart(r, q, u)
    BY <1>1, <1>2, <1>3, <1>8 DEF Touches, OthersGoOn, KeepsApart
  <1> QED BY <1>6, <1>7, <1>9, <1>10, OneMember

LEMMA InsertMemberStep ==
    ASSUME MembersInv, NEW r \in Requests, InsertMember(r)
    PROVE  MembersInv'
  <1> PICK u : u = req[r].user
    OBVIOUS
  <1>1. req[r].pc = "insert" /\ UNCHANGED <<users, group, drift>>
    BY DEF InsertMember
  <1>2. /\ u \in Users /\ req[r].old = None /\ users[u] # None
        /\ req[r].new \in Account /\ req[r].new # None
        /\ CreationOK(req[r], users, group, members, lost)
    BY <1>1, CreationFacts DEF Creates, Early, IsAccount
  <1>3. members[u] = None /\ u \in group /\ users[u] = req[r].new /\ Exists(u)
    BY <1>1, <1>2, CreationFacts DEF CreationOK, Creates, Early, Exists
  <1>4. \A s \in Requests : s # r => req[s].user # u
    BY <1>1, EarlyAlone DEF Early
  <1>5. OthersGoOn(r, u)
    BY <1>4 DEF OthersGoOn
  <1>6. \/ members' = [members EXCEPT ![u] = req[r].new] /\ EmailFree(req[r].new.email)
        \/ UNCHANGED members
    BY DEF InsertMember
  <1>7. /\ members' \in [Users -> Account \union {None}]
        /\ \A v \in Users : v # u => members'[v] = members[v]
        /\ members'[u] \in {None, req[r].new}
        /\ \/ UNCHANGED members
           \/ members'[u] = req[r].new /\ EmailFree(req[r].new.email)
    BY <1>2, <1>3, <1>6 DEF MembersInv, TypeOK
  <1>8. \A v, w \in Users : v # w /\ members'[v] # None /\ members'[w] # None
                             => members'[v].email # members'[w].email
    BY <1>7 DEF EmailFree, MembersInv, TypeOK
  <1>9. CASE Done(r) /\ UNCHANGED lost /\ members' = [members EXCEPT ![u] = req[r].new]
    <2>1. TypeOK'
      BY <1>1, <1>7, <1>8, <1>9, IdleFacts DEF Done, MembersInv, TypeOK
    <2>2. Has(u)' = {"user", "group", "row"}
      BY <1>1, <1>2, <1>3, <1>7, <1>9 DEF Has, Exists, MembersInv, TypeOK
    <2>3. MemberOK(u)'
      BY <1>1, <1>2, <1>3, <1>7, <1>9, <2>2 DEF MemberOK, Complete, Agreed, MembersInv, TypeOK
    <2>4. Touches(r, Idle, u) /\ KeepsApart(r, Idle, u)
      BY <1>1, <1>7, <1>9, IdleFacts DEF Touches, KeepsApart, Done
    <2> QED BY <1>5, <2>1, <2>3, <2>4, IdleOK, OneMember
  <1>10. CASE /\ Goto(r, "removeFromGroup")
              /\ \/ UNCHANGED <<members, lost>>
                 \/ lost' = lost \union {<<"row", u>>}
    <2>1. PICK q \in Request :
             /\ req' = [req EXCEPT ![r] = q] /\ req'[r] = q /\ q.pc = "removeFromGroup"
             /\ q.user = u /\ q.new = req[r].new /\ q.old = req[r].old
             /\ q.alone = req[r].alone
      BY <1>10, Moved DEF Creates
    <2>2. lost \subseteq lost' /\ lost' \subseteq {"user", "group", "row"} \X Users
      BY <1>2, <1>10 DEF MembersInv, TypeOK
    <2>3. TypeOK'
      BY <1>1, <1>7, <1>8, <2>1, <2>2 DEF MembersInv, TypeOK
    <2>4. members'[u] # None => <<"row", u>> \in lost'
      BY <1>3, <1>10
    <2>5. RequestOK(q, users', group', members', lost')
      BY <1>1, <1>2, <1>3, <2>1, <2>4, CreationFacts, CreationSuffices DEF CreationOK, Creates, Early, Lives, Exists
    <2>6. Agreed(u)'
      BY <1>1, <1>3, <1>7 DEF Agreed
    <2>7. MemberOK(u)'
      BY <1>1, <1>2, <2>1, <2>6 DEF MemberOK, Complete
    <2>8. Touches(r, q, u) /\ KeepsApart(r, q, u)
      BY <1>1, <1>7, <2>1, <2>2 DEF Touches, KeepsApart
    <2> QED BY <1>5, <2>3, <2>5, <2>7, <2>8, OneMember
  <1>11. \/ Done(r) /\ UNCHANGED lost /\ members' = [members EXCEPT ![u] = req[r].new]
         \/ /\ Goto(r, "removeFromGroup")
            /\ \/ UNCHANGED <<members, lost>>
               \/ lost' = lost \union {<<"row", u>>}
    <2> HIDE DEF Done, Goto
    <2> QED BY DEF InsertMember, Leaves
  <1> QED BY <1>9, <1>10, <1>11

\* What other requests for the member of a failed creation rely on is its row.
LEMMA OthersOfCreation ==
    ASSUME MembersInv, NEW r \in Requests, NEW u, u = req[r].user, u # None, req[r].old = None,
           UNCHANGED members
    PROVE  OthersGoOn(r, u)
  <1> SUFFICES ASSUME NEW s \in Requests, s # r, req[s].user = u
               PROVE  RequestOK(req[s], users', group', members', lost')
    BY DEF OthersGoOn
  <1>1. req[s].pc \in Writes /\ ~req[s].alone
    BY LateOthers
  <1>2. RequestOK(req[s], users, group, members, lost)
    BY DEF MembersInv
  <1> QED BY <1>1, <1>2 DEF RequestOK, StartOK, CreationOK, UpdateOK, Creates, Early, Writes

LEMMA RemoveFromGroupStep ==
    ASSUME MembersInv, NEW r \in Requests, RemoveFromGroup(r)
    PROVE  MembersInv'
  <1> PICK u : u = req[r].user
    OBVIOUS
  <1>1. /\ req[r].pc = "removeFromGroup" /\ UNCHANGED <<users, members, drift>>
        /\ Goto(r, "deleteUser")
    BY DEF RemoveFromGroup
  <1>2. \/ group' = group \ {u} /\ UNCHANGED lost
        \/ UNCHANGED group /\ lost' = lost \union {<<"group", u>>}
    BY DEF RemoveFromGroup, Leaves
  <1>3. PICK q \in Request :
           /\ req' = [req EXCEPT ![r] = q] /\ req'[r] = q /\ q.pc = "deleteUser"
           /\ q.user = u /\ q.new = req[r].new /\ q.old = req[r].old
           /\ q.alone = req[r].alone
    BY <1>1, Moved DEF Creates
  <1>4. /\ u \in Users /\ req[r].old = None /\ users[u] # None /\ u # None
        /\ CreationOK(req[r], users, group, members, lost)
    BY <1>1, CreationFacts, ConstantsAssumption DEF Creates
  <1>5. lost \subseteq lost' /\ lost' \subseteq {"user", "group", "row"} \X Users
    BY <1>2, <1>4 DEF MembersInv, TypeOK
  <1>6. u \in group' => <<"group", u>> \in lost'
    BY <1>2
  <1>7. RequestOK(q, users', group', members', lost')
    BY <1>1, <1>3, <1>4, <1>5, <1>6, CreationSuffices DEF CreationOK, Creates, Early
  <1>8. TypeOK'
    BY <1>1, <1>2, <1>3, <1>5, SameRows DEF MembersInv, TypeOK
  <1>9. Agreed(u)'
    <2>1. Agreed(u)
      BY <1>4 DEF MembersInv
    <2>2. \A s \in Requests : s # r => req'[s] = req[s]
      BY <1>3 DEF MembersInv, TypeOK
    <2> QED BY <1>1, <1>3, <2>1, <2>2 DEF Agreed, Exists
  <1>10. MemberOK(u)'
    BY <1>1, <1>3, <1>4, <1>9 DEF MemberOK, Complete
  <1>11. Touches(r, q, u) /\ KeepsApart(r, q, u)
    BY <1>1, <1>2, <1>3, <1>5 DEF Touches, KeepsApart
  <1>12. OthersGoOn(r, u)
    BY <1>1, <1>4, OthersOfCreation
  <1> QED BY <1>7, <1>8, <1>10, <1>11, <1>12, OneMember

LEMMA DeleteUserStep ==
    ASSUME MembersInv, NEW r \in Requests, DeleteUser(r)
    PROVE  MembersInv'
  <1> PICK u : u = req[r].user
    OBVIOUS
  <1>1. /\ req[r].pc = "deleteUser" /\ UNCHANGED <<group, members, drift>>
        /\ req' = [req EXCEPT ![r] = Idle]
    BY DEF DeleteUser, Done
  <1>2. \/ users' = [users EXCEPT ![u] = Deleted] /\ UNCHANGED lost
        \/ UNCHANGED users /\ lost' = lost \union {<<"user", u>>}
    BY DEF DeleteUser, Leaves
  <1>3. /\ u \in Users /\ req[r].old = None /\ users[u] \notin {None, Deleted} /\ u # None
        /\ CreationOK(req[r], users, group, members, lost)
    BY <1>1, CreationFacts, ConstantsAssumption DEF Creates
  <1>4. lost \subseteq lost' /\ lost' \subseteq {"user", "group", "row"} \X Users
    BY <1>2, <1>3 DEF MembersInv, TypeOK
  <1>5. /\ users' \in [Users -> Account \union {None, Deleted}]
        /\ \A v \in Users : v # u => users'[v] = users[v]
        /\ users'[u] \in {Deleted, users[u]}
        /\ users'[u] # Deleted => UNCHANGED users /\ <<"user", u>> \in lost'
    BY <1>2, <1>3 DEF MembersInv, TypeOK
  <1>6. TypeOK'
    BY <1>1, <1>4, <1>5, IdleFacts, SameRows DEF MembersInv, TypeOK
  <1>7. \A s \in Requests : s # r => req'[s] = req[s]
    BY <1>1 DEF MembersInv, TypeOK
  <1>8. Agreed(u)'
    <2>1. Agreed(u)
      BY <1>3 DEF MembersInv
    <2>2. CASE users'[u] = Deleted
      BY <2>2 DEF Agreed, Exists
    <2>3. CASE users'[u] # Deleted
      <3>1. UNCHANGED users
        BY <1>5, <2>3
      <3> QED BY <1>1, <1>7, <2>1, <3>1 DEF Agreed, Exists
    <2> QED BY <2>2, <2>3
  <1>9. Has(u)' \X {u} \subseteq lost'
    <2>1. /\ u \in group' => <<"group", u>> \in lost'
          /\ members'[u] # None => <<"row", u>> \in lost'
          /\ Exists(u)' => <<"user", u>> \in lost'
      BY <1>1, <1>3, <1>4, <1>5 DEF CreationOK, Creates, Exists
    <2> QED BY <2>1 DEF Has
  <1>10. MemberOK(u)'
    BY <1>3, <1>5, <1>8, <1>9, ConstantsAssumption DEF MemberOK, Complete
  <1>11. Touches(r, Idle, u) /\ KeepsApart(r, Idle, u)
    BY <1>1, <1>4, <1>5, IdleFacts DEF Touches, KeepsApart
  <1>12. OthersGoOn(r, u)
    BY <1>1, <1>3, OthersOfCreation
  <1> QED BY <1>6, <1>10, <1>11, <1>12, IdleOK, OneMember

-----------------------------------------------------------------------------
(* Updates *)

\* What an update can rely on.
LEMMA UpdateFacts ==
    ASSUME MembersInv, NEW r \in Requests, req[r].pc \in Writes
    PROVE  /\ req[r] \in Request /\ req[r].user \in Users /\ req[r].user # None
           /\ req[r].new \in Account /\ req[r].new # None /\ req[r].old \in Account
           /\ req[r].old # None /\ members[req[r].user] # None
           /\ UpdateOK(req[r], users, members)
  <1>1. /\ req[r] \in Request /\ UpdateOK(req[r], users, members)
        /\ req[r].user \in Users
    BY Kinds DEF MembersInv, RequestOK
  <1> QED BY <1>1, ConstantsAssumption DEF UpdateOK, IsAccount

\* An update relies on UpdateOK only.
LEMMA UpdateSuffices ==
    ASSUME NEW q, q.pc \in Writes, NEW us, NEW gr, NEW ms, NEW lo, UpdateOK(q, us, ms)
    PROVE  RequestOK(q, us, gr, ms, lo)
  BY DEF RequestOK, StartOK, CreationOK, Creates, Early, Writes

\* Other requests for the member of an update go on: it keeps the IdP user, the
\* row and its e-mail.
LEMMA OthersOfUpdate ==
    ASSUME MembersInv, NEW r \in Requests, NEW u, u = req[r].user, req[r].pc \in Writes,
           UNCHANGED <<group, lost>>, users'[u] = users[u] \/ IsAccount(users'[u]),
           members'[u] # None, members'[u].email = members[u].email
    PROVE  OthersGoOn(r, u)
  <1> SUFFICES ASSUME NEW s \in Requests, s # r, req[s].user = u
               PROVE  RequestOK(req[s], users', group', members', lost')
    BY DEF OthersGoOn
  <1>1. u # None /\ members[u] # None
    BY UpdateFacts
  <1>2. req[s].pc \in Creates \union Writes /\ ~req[s].alone
    BY <1>1, LateOthers
  <1>3. RequestOK(req[s], users, group, members, lost)
    BY DEF MembersInv
  <1>4. req[s].pc \notin Early
    BY <1>1, <1>3 DEF RequestOK, CreationOK, Creates
  <1> QED BY <1>1, <1>2, <1>3, <1>4
          DEF RequestOK, StartOK, CreationOK, UpdateOK, Creates, Early, Writes, Lives, IsAccount

\* The steps of an update after it has read its row.
LEMMA UpdateStep ==
    ASSUME MembersInv, NEW r \in Requests, NEW u, u = req[r].user, req[r].pc \in Writes,
           UNCHANGED <<group, lost>>,
           NEW q \in Request, req' = [req EXCEPT ![r] = q],
           \/ q = Idle
           \/ q.user = u /\ q.old = req[r].old /\ q.alone = req[r].alone,
           RequestOK(q, users', group', members', lost'),
           \/ UNCHANGED users
           \/ Exists(u) /\ \E a \in Account : users' = [users EXCEPT ![u] = a],
           \/ UNCHANGED members
           \/ \E a \in Account : /\ a.email = members[u].email
                                 /\ members' = [members EXCEPT ![u] = a],
           drift' \subseteq Users, \A v \in Users : v # u => (v \in drift' <=> v \in drift),
           Agreed(u)'
    PROVE  MembersInv'
  <1>1. /\ u \in Users /\ u # None /\ req[r].old # None /\ members[u] # None
        /\ users[u] # None
    BY Kinds, UpdateFacts
  <1>2. /\ users' \in [Users -> Account \union {None, Deleted}]
        /\ \A v \in Users : v # u => users'[v] = users[v]
        /\ users'[u] = users[u] \/ (Exists(u) /\ IsAccount(users'[u]))
    BY <1>1, AccountFacts DEF MembersInv, TypeOK
  <1>3. /\ members' \in [Users -> Account \union {None}]
        /\ \A v \in Users : v # u => members'[v] = members[v]
        /\ members'[u] # None /\ members'[u].email = members[u].email
    BY <1>1, AccountFacts DEF MembersInv, TypeOK, IsAccount
  <1>4. \A v, w \in Users : v # w /\ members'[v] # None /\ members'[w] # None
                             => members'[v].email # members'[w].email
    <2> SUFFICES ASSUME NEW v \in Users, NEW w \in Users, v # w,
                        members'[v] # None, members'[w] # None
                 PROVE  members'[v].email # members'[w].email
      OBVIOUS
    <2>1. /\ members[v] # None /\ members'[v].email = members[v].email
          /\ members[w] # None /\ members'[w].email = members[w].email
      BY <1>1, <1>3
    <2> QED BY <2>1 DEF MembersInv, TypeOK
  <1>5. TypeOK'
    BY <1>2, <1>3, <1>4 DEF MembersInv, TypeOK
  <1>6. OthersGoOn(r, u)
    BY <1>2, <1>3, OthersOfUpdate
  <1>7. Has(u)' = Has(u)
    BY <1>1, <1>2, <1>3 DEF Has, Exists, IsAccount
  <1>8. Complete(u)'
    <2>1. Complete(u)
      BY <1>1 DEF MembersInv, MembersComplete, Complete
    <2>2. \A s \in Requests : s # r => req'[s] = req[s]
      BY DEF MembersInv, TypeOK
    <2> QED BY <1>1, <1>7, <2>1, <2>2 DEF Complete
  <1>9. MemberOK(u)'
    BY <1>1, <1>2, <1>8 DEF MemberOK, IsAccount
  <1>10. Touches(r, q, u)
    BY <1>2, <1>3 DEF Touches
  <1>11. KeepsApart(r, q, u)
    BY IdleFacts DEF KeepsApart
  <1> QED BY <1>5, <1>6, <1>9, <1>10, <1>11, OneMember

\* The end of an update.
LEMMA SettleFacts ==
    ASSUME MembersInv, NEW r \in Requests, NEW u, u = req[r].user, u \in Users,
           NEW agreed, Settle(r, agreed),
           agreed /\ req[r].alone => users'[u] = members'[u]
    PROVE  /\ req' = [req EXCEPT ![r] = Idle]
           /\ drift' \subseteq Users
           /\ \A v \in Users : v # u => (v \in drift' <=> v \in drift)
           /\ Agreed(u)'
  BY DEF Settle, Done, Agreed, MembersInv, TypeOK

\* An update that ends without having written anything.
LEMMA NothingWritten ==
    ASSUME MembersInv, NEW r \in Requests, NEW u, u = req[r].user, u \in Users,
           req[r].pc \notin {"saveBoth", "restore"}, Done(r),
           UNCHANGED <<users, members, drift>>
    PROVE  Agreed(u)'
  <1>1. Agreed(u) /\ \A s \in Requests : s # r => req'[s] = req[s]
    BY DEF MembersInv, TypeOK, Done
  <1> QED BY <1>1 DEF Agreed, Exists

LEMMA UpdateUserStep ==
    ASSUME MembersInv, NEW r \in Requests, UpdateUser(r)
    PROVE  MembersInv'
  <1> PICK u : u = req[r].user
    OBVIOUS
  <1>1. /\ req[r].pc = "updateUser" /\ req[r].pc \in Writes
        /\ UNCHANGED <<group, members, lost>>
    BY DEF UpdateUser, Writes
  <1>2. /\ u \in Users /\ u # None /\ req[r].new \in Account /\ req[r].new # None
        /\ UpdateOK(req[r], users, members)
    BY <1>1, UpdateFacts
  <1>3. drift \subseteq Users
    BY DEF MembersInv, TypeOK
  <1>4. CASE UNCHANGED <<users, drift>> /\ Done(r)
    <2>1. Agreed(u)'
      BY <1>1, <1>2, <1>4, NothingWritten
    <2> QED BY <1>1, <1>3, <1>4, <2>1, IdleFacts, IdleOK, UpdateStep DEF Done
  <1>5. CASE Exists(u) /\ users' = [users EXCEPT ![u] = req[r].new] /\ Settle(r, FALSE)
    <2>1. /\ req' = [req EXCEPT ![r] = Idle]
          /\ drift' \subseteq Users
          /\ \A v \in Users : v # u => (v \in drift' <=> v \in drift)
          /\ Agreed(u)'
      BY <1>2, <1>5, SettleFacts
    <2> QED BY <1>1, <1>2, <1>5, <2>1, IdleFacts, IdleOK, UpdateStep
  <1>6. CASE /\ Exists(u) /\ users' = [users EXCEPT ![u] = req[r].new]
             /\ Goto(r, "saveBoth") /\ UNCHANGED drift
    <2>1. PICK q \in Request :
             /\ req' = [req EXCEPT ![r] = q] /\ req'[r] = q /\ q.pc = "saveBoth"
             /\ q.user = u /\ q.new = req[r].new /\ q.old = req[r].old
             /\ q.alone = req[r].alone
      BY <1>6, Moved DEF Writes
    <2>2. users'[u] = req[r].new
      BY <1>2, <1>6 DEF MembersInv, TypeOK
    <2>3. RequestOK(q, users', group', members', lost')
      BY <1>1, <1>2, <2>1, <2>2, UpdateSuffices DEF UpdateOK, Writes
    <2>4. Agreed(u)'
      BY <2>1 DEF Agreed
    <2> QED BY <1>1, <1>2, <1>3, <1>6, <2>1, <2>3, <2>4, UpdateStep
  <1>7. \/ UNCHANGED <<users, drift>> /\ Done(r)
        \/ /\ Exists(u) /\ users' = [users EXCEPT ![u] = req[r].new]
           /\ \/ Settle(r, FALSE)
              \/ Goto(r, "saveBoth") /\ UNCHANGED drift
    BY DEF UpdateUser
  <1> QED BY <1>4, <1>5, <1>6, <1>7

LEMMA RestoreUserStep ==
    ASSUME MembersInv, NEW r \in Requests, RestoreUser(r)
    PROVE  MembersInv'
  <1> PICK u : u = req[r].user
    OBVIOUS
  <1>1. req[r].pc = "restore" /\ req[r].pc \in Writes /\ UNCHANGED <<group, members, lost>>
    BY DEF RestoreUser, Writes
  <1>2. u \in Users /\ req[r].old \in Account
    BY <1>1, UpdateFacts
  <1>3. PICK agreed \in BOOLEAN :
           /\ Settle(r, agreed)
           /\ \/ UNCHANGED users
              \/ Exists(u) /\ users' = [users EXCEPT ![u] = req[r].old]
           /\ agreed => users'[u] = req[r].old /\ members[u] = req[r].old
    <2>1. users \in [Users -> Account \union {None, Deleted}]
      BY DEF MembersInv, TypeOK
    <2>2. CASE UNCHANGED users /\ Settle(r, FALSE)
      BY <2>2
    <2>3. CASE /\ Exists(u) /\ users' = [users EXCEPT ![u] = req[r].old]
               /\ Settle(r, members[u] = req[r].old)
      <3>1. users'[u] = req[r].old
        BY <1>2, <2>1, <2>3
      <3>2. CASE members[u] = req[r].old
        <4>1. Settle(r, TRUE)
          BY <2>3, <3>2 DEF Settle
        <4> QED BY <2>3, <3>1, <3>2, <4>1
      <3>3. CASE members[u] # req[r].old
        <4>1. Settle(r, FALSE)
          BY <2>3, <3>3 DEF Settle
        <4> QED BY <2>3, <4>1
      <3> QED BY <3>2, <3>3
    <2> QED BY <2>2, <2>3 DEF RestoreUser
  <1>4. /\ req' = [req EXCEPT ![r] = Idle]
        /\ drift' \subseteq Users
        /\ \A v \in Users : v # u => (v \in drift' <=> v \in drift)
        /\ Agreed(u)'
    BY <1>1, <1>2, <1>3, SettleFacts
  <1> QED BY <1>1, <1>2, <1>3, <1>4, IdleFacts, IdleOK, UpdateStep

LEMMA SaveMemberStep ==
    ASSUME MembersInv, NEW r \in Requests, SaveMember(r)
    PROVE  MembersInv'
  <1> PICK u : u = req[r].user
    OBVIOUS
  <1>1. /\ req[r].pc \in {"save", "saveBoth"} /\ req[r].pc \in Writes
        /\ UNCHANGED <<users, group, lost>>
        /\ members' \in {[members EXCEPT ![u] = req[r].new], members}
    BY DEF SaveMember, Writes
  <1>2. /\ u \in Users /\ u # None /\ req[r].new \in Account /\ req[r].new # None
        /\ members[u] # None /\ UpdateOK(req[r], users, members)
    BY <1>1, UpdateFacts
  <1>3. /\ drift \subseteq Users /\ members \in [Users -> Account \union {None}]
        /\ req[r].alone \in BOOLEAN
    BY DEF MembersInv, TypeOK, Request
  <1>4. req[r].new.email = members[u].email
    BY <1>1, <1>2 DEF UpdateOK
  <1>5. ASSUME NEW agreed \in BOOLEAN, Settle(r, agreed),
               agreed /\ req[r].alone => users'[u] = members'[u]
        PROVE  MembersInv'
    <2>1. /\ req' = [req EXCEPT ![r] = Idle]
          /\ drift' \subseteq Users
          /\ \A v \in Users : v # u => (v \in drift' <=> v \in drift)
          /\ Agreed(u)'
      BY <1>2, <1>5, SettleFacts
    <2> QED BY <1>1, <1>2, <1>4, <2>1, IdleFacts, IdleOK, UpdateStep
  <1>6. CASE /\ req[r].pc = "saveBoth" /\ members' = [members EXCEPT ![u] = req[r].new]
             /\ Settle(r, TRUE)
    <2>1. members'[u] = req[r].new
      BY <1>2, <1>3, <1>6
    <2>2. req[r].alone => users[u] = req[r].new
      BY <1>1, <1>2, <1>6 DEF UpdateOK
    <2> QED BY <1>1, <1>5, <1>6, <2>1, <2>2
  <1>7. CASE req[r].pc = "saveBoth" /\ Goto(r, "restore") /\ UNCHANGED drift
    <2>1. PICK q \in Request :
             /\ req' = [req EXCEPT ![r] = q] /\ req'[r] = q /\ q.pc = "restore"
             /\ q.user = u /\ q.new = req[r].new /\ q.old = req[r].old
             /\ q.alone = req[r].alone
      BY <1>7, Moved DEF Writes
    <2>2. members'[u] # None /\ members'[u].email = members[u].email
      BY <1>1, <1>2, <1>3, <1>4
    <2>3. RequestOK(q, users', group', members', lost')
      BY <1>1, <1>2, <2>1, <2>2, UpdateSuffices DEF UpdateOK, Writes
    <2>4. Agreed(u)'
      BY <2>1 DEF Agreed
    <2> QED BY <1>1, <1>2, <1>3, <1>4, <1>7, <2>1, <2>3, <2>4, UpdateStep
  <1>8. CASE req[r].pc = "save" /\ req[r].alone /\ Done(r) /\ UNCHANGED drift
    <2>1. members[u] = req[r].new
      BY <1>1, <1>2, <1>8 DEF UpdateOK
    <2>2. UNCHANGED members
      BY <1>1, <1>3, <2>1
    <2>3. Agreed(u)'
      BY <1>1, <1>2, <1>8, <2>2, NothingWritten
    <2> QED BY <1>1, <1>2, <1>3, <1>8, <2>2, <2>3, IdleFacts, IdleOK, UpdateStep DEF Done
  <1>9. CASE req[r].pc = "save" /\ Settle(r, FALSE)
    BY <1>5, <1>9
  <1>10. \/ /\ req[r].pc = "saveBoth"
            /\ \/ members' = [members EXCEPT ![u] = req[r].new] /\ Settle(r, TRUE)
               \/ Goto(r, "restore") /\ UNCHANGED drift
         \/ /\ req[r].pc = "save"
            /\ \/ req[r].alone /\ Done(r) /\ UNCHANGED drift
               \/ Settle(r, FALSE)
    BY <1>3 DEF SaveMember
  <1> QED BY <1>6, <1>7, <1>8, <1>9, <1>10

\* What an update writes: another profile, or the row as it is.
LEMMA MergedFacts ==
    ASSUME NEW row \in Account, NEW body \in Updates
    PROVE  /\ Merged(row, body) \in Account
           /\ Merged(row, body).email = row.email
           /\ DOMAIN body = {} => Merged(row, body) = row
  <1>1. \A f \in DOMAIN body : f \in Fields /\ body[f] \in Values
    BY ConstantsAssumption DEF Bodies
  <1>2. row.profile \in [Fields -> Values] /\ row.email \in Emails
    BY DEF Account, Profiles
  <1> DEFINE p == [f \in Fields |-> IF f \in DOMAIN body THEN body[f] ELSE row.profile[f]]
  <1>3. p \in [Fields -> Values]
    BY <1>1, <1>2
  <1>4. DOMAIN body = {} => p = row.profile
    BY <1>2
  <1>5. Merged(row, body) = [row EXCEPT !.profile = p]
    BY DEF Merged
  <1>6. row = [email |-> row.email, profile |-> row.profile]
    BY DEF Account
  <1> HIDE DEF p
  <1> QED BY <1>2, <1>3, <1>4, <1>5, <1>6 DEF Account, Profiles

LEMMA UpdateMemberStep ==
    ASSUME MembersInv, NEW r \in Requests, UpdateMember(r)
    PROVE  MembersInv'
  <1>1. PICK u \in Users, body \in Updates :
           /\ members[u] # None
           /\ req' = [s \in Requests |->
                IF s = r
                THEN [At(IF DOMAIN body = {} THEN "save" ELSE "updateUser",
                         u, Merged(members[u], body), members[u])
                      EXCEPT !.alone = ~Busy(u)]
                ELSE IF req[s].user = u THEN [req[s] EXCEPT !.alone = FALSE]
                ELSE req[s]]
    BY DEF UpdateMember
  <1>2. req[r].pc = "idle" /\ UNCHANGED <<users, group, members, lost, drift>>
    BY DEF UpdateMember
  <1>3. /\ members[u] \in Account /\ u # None /\ req \in [Requests -> Request]
        /\ req[r].user = None /\ req[r].old = None
    BY <1>1, <1>2, Kinds, ConstantsAssumption DEF MembersInv, TypeOK
  <1>4. /\ req'[r].pc \in {"save", "updateUser"} /\ req'[r].user = u
        /\ req'[r].new = Merged(members[u], body) /\ req'[r].old = members[u]
        /\ req'[r].pc = "save" => DOMAIN body = {}
        /\ req'[r].alone = ~Busy(u) /\ req'[r] \in Request
    <2>1. Busy(u) \in BOOLEAN /\ Merged(members[u], body) \in Account
      BY <1>3, MergedFacts DEF Busy
    <2> HIDE DEF Busy, Merged
    <2> QED BY <1>1, <1>3, <2>1 DEF At, Request
  <1>5. ASSUME NEW s \in Requests, s # r
        PROVE  /\ req'[s] \in Request /\ req'[s].pc = req[s].pc /\ req'[s].user = req[s].user
               /\ req'[s].new = req[s].new /\ req'[s].old = req[s].old
               /\ req[s].user = u => ~req'[s].alone
               /\ req[s].user # u => req'[s] = req[s]
    <2>1. req[s] \in Request
      BY <1>3
    <2>2. req'[s] = IF req[s].user = u THEN [req[s] EXCEPT !.alone = FALSE] ELSE req[s]
      BY <1>1, <1>5
    <2> QED BY <2>1, <2>2 DEF Request
  <1>6. TypeOK'
    <2>1. \A s \in Requests : req'[s] \in Request
      BY <1>4, <1>5
    <2>2. req' \in [Requests -> Request]
      BY <1>1, <2>1
    <2> QED BY <1>2, <2>2 DEF MembersInv, TypeOK
  <1>7. ASSUME NEW s \in Requests
        PROVE  RequestOK(req'[s], users', group', members', lost')
    <2>1. CASE s = r
      <3>1. /\ Merged(members[u], body) \in Account
            /\ Merged(members[u], body).email = members[u].email
            /\ req'[r].pc = "save" => Merged(members[u], body) = members[u]
        BY <1>3, <1>4, MergedFacts
      <3>2. UpdateOK(req'[r], users, members)
        <4>1. /\ req'[r].pc \in {"save", "updateUser"} /\ req'[r].user = u
              /\ req'[r].new = Merged(members[u], body) /\ req'[r].old = members[u]
          BY <1>4
        <4>2. IsAccount(Merged(members[u], body)) /\ IsAccount(members[u])
          BY <1>3, <3>1, AccountFacts
        <4> HIDE DEF Merged
        <4> QED BY <1>1, <3>1, <4>1, <4>2 DEF UpdateOK
      <3> QED BY <1>2, <1>4, <2>1, <3>2, UpdateSuffices DEF Writes
    <2>2. CASE s # r /\ req[s].user # u
      BY <1>2, <1>5, <2>2 DEF MembersInv
    <2>3. CASE s # r /\ req[s].user = u
      <3>1. RequestOK(req[s], users, group, members, lost) /\ req[s].pc \in Creates \union Writes
        BY <1>3, <2>3, Kinds DEF MembersInv
      <3>2. /\ req'[s].pc = req[s].pc /\ req'[s].user = req[s].user
            /\ req'[s].new = req[s].new /\ req'[s].old = req[s].old /\ ~req'[s].alone
        BY <1>5, <2>3
      <3>3. StartOK(req'[s])
        BY <3>1, <3>2 DEF StartOK, Creates, Early, Writes
      <3>4. CreationOK(req'[s], users, group, members, lost)
        BY <3>1, <3>2 DEF RequestOK, CreationOK
      <3>5. UpdateOK(req'[s], users, members)
        BY <3>1, <3>2 DEF RequestOK, UpdateOK
      <3>6. RequestOK(req'[s], users, group, members, lost)
        BY <3>3, <3>4, <3>5 DEF RequestOK
      <3> QED BY <1>2, <3>6
    <2> QED BY <2>1, <2>2, <2>3
  <1>8. ASSUME NEW s \in Requests, NEW t \in Requests, s # t
        PROVE  Apart(req'[s], req'[t])
    <2>1. ASSUME NEW w \in Requests, w # r
          PROVE  Apart(req'[r], req'[w]) /\ Apart(req'[w], req'[r])
      <3>1. req'[w].user = req[w].user /\ req'[r].user = u /\ req'[r].old # None
        BY <1>1, <1>4, <1>5, <2>1
      <3>2. req[w].user = u => ~req'[w].alone /\ ~req'[r].alone
        BY <1>4, <1>5, <2>1 DEF Busy
      <3> QED BY <3>1, <3>2 DEF Apart
    <2>2. CASE s # r /\ t # r
      <3>1. Apart(req[s], req[t])
        BY <1>8 DEF MembersInv
      <3> QED BY <1>5, <2>2, <3>1 DEF Apart
    <2> QED BY <1>8, <2>1, <2>2
  <1>9. UserFirst'
    BY <1>2 DEF MembersInv, UserFirst
  <1>10. MembersComplete'
    <2>1. \A s \in Requests : req'[s].user = req[s].user \/ s = r
      BY <1>5
    <2>2. \A v \in Users, s \in Requests :
             (req'[s].user = v => req'[s].old # None) => (req[s].user = v => req[s].old # None)
      BY <1>3, <1>5, ConstantsAssumption
    <2>3. \A v \in Users : Has(v)' = Has(v)
      BY <1>2 DEF Has, Exists
    <2> QED BY <1>2, <2>2, <2>3 DEF MembersInv, MembersComplete
  <1>11. \A v \in Users : Agreed(v)'
    <2>1. \A v \in Users, s \in Requests :
             (req'[s].user = v => req'[s].pc \notin {"saveBoth", "restore"})
             => (req[s].user = v => req[s].pc \notin {"saveBoth", "restore"})
      BY <1>3, <1>5, ConstantsAssumption
    <2> QED BY <1>2, <2>1 DEF MembersInv, Agreed, Exists
  <1> QED BY <1>6, <1>7, <1>8, <1>9, <1>10, <1>11 DEF MembersInv

-----------------------------------------------------------------------------
(* The end of the process, and any step *)

LEMMA CrashStep ==
    ASSUME MembersInv, NEW r \in Requests, Crash(r)
    PROVE  MembersInv'
  <1> PICK u : u = req[r].user
    OBVIOUS
  <1>1. req' = [req EXCEPT ![r] = Idle] /\ UNCHANGED <<users, group, members>>
    BY DEF Crash, Done
  <1>2. \A s \in Requests : s # r => req'[s] = req[s]
    BY <1>1 DEF MembersInv, TypeOK
  <1>3. /\ drift \subseteq Users /\ lost \subseteq {"user", "group", "row"} \X Users
        /\ users \in [Users -> Account \union {None, Deleted}] /\ group \subseteq Users
    BY DEF MembersInv, TypeOK
  <1>4. ASSUME lost \subseteq lost', lost' \subseteq {"user", "group", "row"} \X Users,
               drift' \subseteq Users, \A v \in Users : v # u => (v \in drift' <=> v \in drift),
               u \in Users => Complete(u)' /\ Agreed(u)'
        PROVE  MembersInv'
    <2>1. TypeOK'
      BY <1>1, <1>3, <1>4, IdleFacts, SameRows
    <2>2. OthersGoOn(r, u)
      <3>1. \A s \in Requests : RequestOK(req[s], users, group, members, lost)
        BY DEF MembersInv
      <3>2. \A s \in Requests : RequestOK(req[s], users', group', members', lost')
        BY <1>1, <1>4, <3>1, Frame
      <3> QED BY <3>2 DEF OthersGoOn
    <2>3. MemberOK(u)'
      BY <1>1, <1>4 DEF MemberOK, MembersInv, UserFirst
    <2>4. Touches(r, Idle, u) /\ KeepsApart(r, Idle, u)
      BY <1>1, <1>4, IdleFacts DEF Touches, KeepsApart
    <2> QED BY <2>1, <2>2, <2>3, <2>4, IdleOK, OneMember
  <1>5. CASE u = None
    BY <1>3, <1>4, <1>5, ConstantsAssumption DEF Crash
  <1>6. CASE u # None /\ req[r].old = None
    <2>1. req[r].pc \in Creates /\ u \in Users
      BY <1>6, Kinds
    <2>2. lost' = lost \union (Has(u) \X {u}) /\ UNCHANGED drift
      BY <1>6 DEF Crash
    <2>3. lost' \subseteq {"user", "group", "row"} \X Users
      BY <1>3, <2>1, <2>2 DEF Has
    <2>4. Has(u)' = Has(u)
      BY <1>1 DEF Has, Exists
    <2>5. Complete(u)'
      BY <2>2, <2>4 DEF Complete
    <2>6. Agreed(u)
      BY <2>1 DEF MembersInv
    <2>7. Agreed(u)'
      BY <1>1, <1>2, <2>1, <2>2, <2>6 DEF Agreed, Exists, Creates, Early
    <2> QED BY <1>3, <1>4, <2>2, <2>3, <2>5, <2>7
  <1>7. CASE u # None /\ req[r].old # None
    <2>1. req[r].pc \in Writes /\ u \in Users
      BY <1>7, Kinds
    <2>2. drift' = drift \union {u} /\ UNCHANGED lost
      BY <1>7 DEF Crash
    <2>3. Complete(u)
      BY <2>1 DEF MembersInv, MembersComplete, Complete
    <2>4. Has(u)' = Has(u)
      BY <1>1 DEF Has, Exists
    <2>5. Complete(u)'
      BY <1>2, <1>7, <2>2, <2>3, <2>4 DEF Complete
    <2>6. Agreed(u)'
      BY <2>2 DEF Agreed
    <2> QED BY <1>3, <1>4, <2>1, <2>2, <2>5, <2>6
  <1> QED BY <1>5, <1>6, <1>7

LEMMA MembersNext == MembersInv /\ [Next]_vars => MembersInv'
  <1> SUFFICES ASSUME MembersInv, [Next]_vars PROVE MembersInv'
    OBVIOUS
  <1>1. CASE UNCHANGED vars
    BY <1>1 DEF vars, MembersInv, TypeOK, UserFirst, MembersComplete, Has, Agreed, Exists
  <1>2. ASSUME NEW r \in Requests, Step(r) PROVE MembersInv'
    BY <1>2, CreateMemberStep, CreateUserStep, FindGroupStep, AddToGroupStep, InsertMemberStep,
       RemoveFromGroupStep, DeleteUserStep, UpdateMemberStep, UpdateUserStep, SaveMemberStep,
       RestoreUserStep, CrashStep DEF Step
  <1> QED BY <1>1, <1>2 DEF Next

-----------------------------------------------------------------------------
(* Theorems *)

\* Whatever the calls, failures, overlaps and crashes, every request in flight can
\* rely on what it has done and read so far (member_service.go).
THEOREM MembersInvariance == Spec => []MembersInv
  <1>1. Init => MembersInv
    BY MembersInit
  <1>2. MembersInv /\ [Next]_vars => MembersInv'
    BY MembersNext
  <1> QED BY <1>1, <1>2, PTL DEF Spec

\* The variables keep their types, and no two rows of the table members have the
\* same e-mail address (its unique index); users of the identity provider may.
THEOREM MembersTypeCorrect == Spec => []TypeOK
  <1>1. MembersInv => TypeOK
    BY DEF MembersInv
  <1> QED BY <1>1, MembersInvariance, PTL

\* A member no creation works on is whole or absent, or its parts are accounted for
\* as left behind by a call that failed (CreateMember and its compensations).
THEOREM CreationsAccountedFor == Spec => []MembersComplete
  <1>1. MembersInv => MembersComplete
    BY DEF MembersInv
  <1> QED BY <1>1, MembersInvariance, PTL

\* The IdP and the database agree on a member no request works on, unless its last
\* disturbed update has not been followed by an undisturbed one (UpdateMember).
THEOREM UpdatesAgree == Spec => []ProfilesAgree
  <1>1. MembersInv => ProfilesAgree
    BY DEF MembersInv, Agreed, ProfilesAgree, Busy
  <1> QED BY <1>1, MembersInvariance, PTL
=============================================================================
