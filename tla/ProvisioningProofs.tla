------------------------ MODULE ProvisioningProofs -------------------------
(***************************************************************************)
(* Theorems of Provisioning, for any number of requests, submissions,      *)
(* applications and schemas.                                               *)
(***************************************************************************)
EXTENDS Provisioning, TLAPS

-----------------------------------------------------------------------------
(* The inductive invariant *)

\* A request that is creating the resource q.id, or has just done so.
Holds(q) == q.id # None /\ q.pc \notin {"idle", "update"}

\* Before its row is stored, and before anything has failed.
Early(q) == q.pc \in {"save", "idpCreate", "oidc", "insert"}
Alive(q) == Early(q) \/ q.pc \in {"call", "wait", "ok"}

\* The fields a request has at each step.
ShapeOK(q) ==
    /\ q.pc \notin {"idle", "save", "revert"} => q.id \in Resources
    /\ q.pc \in {"idpCreate", "oidc", "deleteIdp"} => q.id \in Applications
    /\ q.pc \in {"save", "revert"} => q.sub \in Submissions
    /\ q.pc = "save" => q.saved \in Statuses
    /\ q.pc # "idle" /\ q.id # None => q.id \in used

\* How far the resource of a request has come at each step.
HeldOK(q) ==
    Holds(q) =>
       /\ Alive(q) => q.id \notin unclean
       /\ q.pc = "call" \/ Early(q) => call[q.id] = None
       /\ q.pc = "wait" => call[q.id] # None
       /\ q.id \notin unclean =>
             /\ q.pc \in {"save", "idpCreate", "revert"} => Gone(q.id)
             /\ q.pc = "oidc" => q.id \in idp /\ q.id \notin rows
             /\ q.pc = "insert" =>
                   q.id \notin rows /\ (q.id \in Applications => q.id \in idp)
             /\ q.pc \in {"call", "wait"} =>
                   q.id \in rows /\ (q.id \in Applications => q.id \in idp)
             /\ q.pc = "deleteIdp" => q.id \notin rows
             /\ q.pc = "ok" => Whole(q.id)

RequestsOK == \A r \in Requests : ShapeOK(req[r]) /\ HeldOK(req[r])

\* No two requests create one resource, and none updates one without a row.
Alone ==
    \A r, s \in Requests :
       r # s /\ Holds(req[r]) /\ Holds(req[s]) => req[r].id # req[s].id
UpdatesLate ==
    \A r, s \in Requests :
       req[r].pc = "update" /\ Early(req[s]) => req[r].id # req[s].id

\* A resource nobody works on is complete, gone or listed as unclean.
UnheldOK ==
    \A i \in used \ unclean :
       (\A r \in Requests : Holds(req[r]) => req[r].id # i) => Whole(i) \/ Gone(i)

CallsOK ==
    \A i \in Resources : /\ call[i] # None => i \in used
                         /\ call[i] = "200" => i \in pdp

IInv == TypeOK /\ RequestsOK /\ Alone /\ UpdatesLate /\ UnheldOK /\ CallsOK

-----------------------------------------------------------------------------
(* Types *)

\* Requests move between records of the right type.
LEMMA RequestType ==
    ASSUME NEW q \in Request,
           NEW pc \in {"idle", "save", "revert", "idpCreate", "oidc", "insert", "call",
                       "wait", "deleteRow", "deleteIdp", "ok", "update"}
    PROVE  /\ [q EXCEPT !.pc = pc] \in Request
           /\ [q EXCEPT !.pc = pc] =
                 [pc |-> pc, sub |-> q.sub, saved |-> q.saved, id |-> q.id]
BY DEF Request

LEMMA AdvancedRequest ==
    ASSUME NEW r \in Requests, req[r] \in Request,
           NEW pc \in {"idle", "save", "revert", "idpCreate", "oidc", "insert", "call",
                       "wait", "deleteRow", "deleteIdp", "ok", "update"},
           Advance(r, pc)
    PROVE  \E q \in Request :
              /\ Goto(r, q)
              /\ q.pc = pc /\ q.id = req[r].id /\ q.sub = req[r].sub
<1>1. PICK q : q = [req[r] EXCEPT !.pc = pc]
  OBVIOUS
<1>2. /\ q \in Request
      /\ q = [pc |-> pc, sub |-> req[r].sub, saved |-> req[r].saved, id |-> req[r].id]
  BY <1>1, RequestType
<1>3. Goto(r, q)
  BY <1>1 DEF Advance
<1>4. QED
  BY <1>2, <1>3

LEMMA SlotType ==
    ASSUME req \in [Requests -> Request], NEW r \in Requests, NEW q \in Request,
           Goto(r, q)
    PROVE  req' \in [Requests -> Request]
BY DEF Goto

\* A slot stays well-typed whichever way its request goes on.
LEMMA AdvanceType ==
    ASSUME req \in [Requests -> Request], NEW r \in Requests,
           \/ Finish(r) \/ Failed(r)
           \/ \E pc \in {"revert", "idpCreate", "oidc", "insert", "call", "wait",
                         "deleteRow", "deleteIdp", "ok"} : Advance(r, pc)
    PROVE  req' \in [Requests -> Request]
<1>1. req[r] \in Request
  OBVIOUS
<1>2. ASSUME NEW pc \in {"revert", "idpCreate", "oidc", "insert", "call", "wait",
                         "deleteRow", "deleteIdp", "ok"}, Advance(r, pc)
      PROVE  req' \in [Requests -> Request]
  <2> DEFINE q == [req[r] EXCEPT !.pc = pc]
  <2>1. q \in Request
    BY <1>1, RequestType
  <2>2. Goto(r, q)
    BY <1>2 DEF Advance
  <2> HIDE DEF q
  <2>3. QED
    BY <2>1, <2>2, SlotType
<1>3. ASSUME Finish(r)
      PROVE  req' \in [Requests -> Request]
  BY <1>3, SlotType DEF Finish, Idle, At, Request
<1>4. QED
  BY <1>2, <1>3 DEF Failed

LEMMA UsedWhileBusy ==
    ASSUME NEW q, ShapeOK(q), q.pc \notin {"idle", "save", "revert"}
    PROVE  q.id \in Resources /\ q.id \in used
BY ConstantsAssumption DEF ShapeOK

LEMMA TypeStep ==
    ASSUME IInv, Next
    PROVE  TypeOK'
<1> USE DEF stores
<1>1. TypeOK /\ RequestsOK
  BY DEF IInv
<1>2. ASSUME NEW s \in Submissions, CreateSubmission(s)
      PROVE  TypeOK'
  BY <1>1, <1>2 DEF CreateSubmission, TypeOK, Statuses
<1>3. ASSUME NEW r \in Requests, Arrival(r)
      PROVE  TypeOK'
  <2>1. CASE UpdateSubmission(r)
    <3>1. PICK s \in Submissions :
             /\ status[s] # None
             /\ \/ /\ \E st \in {status[s], "pending", "rejected"} :
                         Goto(r, At("save", s, st, None))
                   /\ UNCHANGED used
                \/ \E i \in Wanted(s) \ used :
                      /\ Goto(r, At("save", s, "approved", i))
                      /\ used' = used \union {i}
      BY <2>1 DEF UpdateSubmission
    <3>2. status[s] \in Statuses
      BY <1>1, <3>1 DEF TypeOK
    <3>3. \A i \in Wanted(s) : i \in Resources
      BY DEF Wanted, Resources
    <3>4. req' \in [Requests -> Request]
      <4>1. \A st \in Statuses : At("save", s, st, None) \in Request
        BY DEF At, Request
      <4>2. \A i \in Wanted(s) : At("save", s, "approved", i) \in Request
        BY <3>3 DEF At, Request, Statuses
      <4>3. QED
        BY <1>1, <3>1, <3>2, <4>1, <4>2, SlotType DEF TypeOK, Statuses
    <3>5. QED
      BY <1>1, <2>1, <3>1, <3>3, <3>4 DEF TypeOK, UpdateSubmission
  <2>2. CASE Create(r)
    <3>1. PICK i \in Resources \ used :
             Goto(r, At(First(i), None, None, i)) /\ used' = used \union {i}
      BY <2>2 DEF Create
    <3>2. At(First(i), None, None, i) \in Request
      BY DEF At, Request, First
    <3>3. req' \in [Requests -> Request]
      BY <1>1, <3>1, <3>2, SlotType DEF TypeOK
    <3>4. QED
      BY <1>1, <2>2, <3>1, <3>3 DEF TypeOK, Create
  <2>3. CASE UpdateResource(r)
    <3>1. PICK i \in rows : Goto(r, At("update", None, None, i))
      BY <2>3 DEF UpdateResource
    <3>2. At("update", None, None, i) \in Request
      BY <1>1 DEF At, Request, TypeOK
    <3>3. req' \in [Requests -> Request]
      BY <1>1, <3>1, <3>2, SlotType DEF TypeOK
    <3>4. QED
      BY <1>1, <2>3, <3>3 DEF TypeOK, UpdateResource
  <2>4. QED
    BY <1>3, <2>1, <2>2, <2>3 DEF Arrival
<1>4. ASSUME NEW r \in Requests, Step(r)
      PROVE  TypeOK'
  <2>1. ShapeOK(req[r]) /\ req[r] \in Request
    BY <1>1 DEF RequestsOK, TypeOK
  <2>2. req' \in [Requests -> Request]
    BY <1>1, <1>4, AdvanceType
    DEF TypeOK, Step, OwnStep, IdpStep, SaveSubmission, RevertSubmission, CreateIdpApplication,
        GetApplicationOIDC, InsertRow, CallPdp, PdpReply, Timeout, DeleteRow,
        DeleteIdpApplication, Return, SaveResource, First
  <2>3. CASE SaveSubmission(r)
    BY <1>1, <2>1, <2>2, <2>3 DEF TypeOK, SaveSubmission, ShapeOK
  <2>4. CASE RevertSubmission(r)
    BY <1>1, <2>1, <2>2, <2>4 DEF TypeOK, RevertSubmission, ShapeOK, Statuses
  <2>5. CASE CreateIdpApplication(r)
    <3>1. req[r].id \in Applications /\ req[r].id \in used
      BY <2>1, <2>5, UsedWhileBusy DEF CreateIdpApplication, ShapeOK
    <3>2. QED
      BY <1>1, <2>2, <2>5, <3>1 DEF TypeOK, CreateIdpApplication
  <2>6. CASE GetApplicationOIDC(r)
    BY <1>1, <2>1, <2>2, <2>6, UsedWhileBusy DEF TypeOK, GetApplicationOIDC
  <2>7. CASE InsertRow(r)
    BY <1>1, <2>1, <2>2, <2>7, UsedWhileBusy DEF TypeOK, InsertRow
  <2>8. CASE CallPdp(r)
    BY <1>1, <2>2, <2>8 DEF TypeOK, CallPdp, CallStates
  <2>9. CASE PdpReply(r) \/ Timeout(r) \/ Return(r)
    BY <1>1, <2>2, <2>9 DEF TypeOK, PdpReply, Timeout, Return
  <2>10. CASE DeleteRow(r)
    BY <1>1, <2>1, <2>2, <2>10, UsedWhileBusy DEF TypeOK, DeleteRow
  <2>11. CASE DeleteIdpApplication(r)
    BY <1>1, <2>1, <2>2, <2>11, UsedWhileBusy DEF TypeOK, DeleteIdpApplication
  <2>12. CASE SaveResource(r)
    BY <1>1, <2>1, <2>2, <2>12, UsedWhileBusy DEF TypeOK, SaveResource
  <2>13. QED
    BY <1>4, <2>3, <2>4, <2>5, <2>6, <2>7, <2>8, <2>9, <2>10, <2>11, <2>12 DEF Step, OwnStep, IdpStep
<1>5. ASSUME NEW i \in Resources, PdpCommits(i) \/ PdpRefuses(i)
      PROVE  TypeOK'
  <2>1. i \in used
    BY <1>5, ConstantsAssumption
    DEF IInv, CallsOK, PdpCommits, PdpRefuses, CallStates
  <2>2. QED
    BY <1>1, <1>5, <2>1 DEF TypeOK, PdpCommits, PdpRefuses, CallStates
<1>6. CASE Crash
  <2>1. \A r \in Requests : Creating(r) => req[r].id \in used
    BY <1>1, UsedWhileBusy DEF RequestsOK, Creating
  <2>2. req' \in [Requests -> Request]
    BY <1>6 DEF Crash, Idle, At, Request
  <2>3. QED
    BY <1>1, <1>6, <2>1, <2>2 DEF TypeOK, Crash
<1>7. QED
  BY <1>2, <1>3, <1>4, <1>5, <1>6 DEF Next

-----------------------------------------------------------------------------
(* Steps that a creating request takes *)

\* The state changes only at resource i.
OnlyTouches(i) ==
    /\ used' = used
    /\ \A j \in Resources \ {i} :
          /\ j \in rows' <=> j \in rows
          /\ j \in idp' <=> j \in idp
          /\ j \in pdp' <=> j \in pdp
          /\ j \in unclean' <=> j \in unclean
          /\ call'[j] = call[j]
    /\ call'[i] = "200" => i \in pdp'

\* Request r, which creates i, becomes q.
LEMMA HolderStep ==
    ASSUME IInv, TypeOK', NEW r \in Requests, NEW i \in Resources, NEW q \in Request,
           Holds(req[r]), req[r].id = i, Goto(r, q), OnlyTouches(i),
           q.pc = "idle" \/ (q.id = i /\ q.pc # "update"),
           ShapeOK(q), HeldOK(q)', Early(q) => Early(req[r]),
           q.pc = "idle" /\ i \notin unclean' => Whole(i)' \/ Gone(i)'
    PROVE  IInv'
<1> USE ConstantsAssumption
<1>0. used' = used
  BY DEF OnlyTouches
<1>a. ASSUME NEW j \in Resources, j # i
      PROVE  /\ j \in rows' <=> j \in rows
             /\ j \in idp' <=> j \in idp
             /\ j \in pdp' <=> j \in pdp
             /\ j \in unclean' <=> j \in unclean
             /\ call'[j] = call[j]
  BY <1>a DEF OnlyTouches
<1>b. call'[i] = "200" => i \in pdp'
  BY DEF OnlyTouches
<1>1. req'[r] = q /\ \A s \in Requests \ {r} : req'[s] = req[s]
  BY DEF IInv, TypeOK, Goto
<1>2. i \in used
  BY DEF IInv, RequestsOK, ShapeOK, Holds
<1>3. \A s \in Requests \ {r} : Holds(req[s]) => req[s].id \in Resources \ {i}
  BY DEF IInv, Alone, Holds, TypeOK, Request
<1>4. RequestsOK'
  <2>1. ASSUME NEW s \in Requests \ {r}
        PROVE  ShapeOK(req[s])' /\ HeldOK(req[s])'
    <3>1. ShapeOK(req[s]) /\ HeldOK(req[s]) /\ req'[s] = req[s]
      BY <1>1, <2>1 DEF IInv, RequestsOK
    <3>2. ShapeOK(req[s])'
      BY <1>0, <3>1 DEF ShapeOK
    <3>3. CASE Holds(req[s])
      <4>1. req[s].id \in Resources \ {i}
        BY <1>3, <2>1, <3>3
      <4>2. QED
        BY <1>a, <3>1, <3>2, <4>1 DEF HeldOK, Holds, Alive, Early, Whole, Gone
    <3>4. CASE ~Holds(req[s])
      BY <3>1, <3>2, <3>4 DEF HeldOK, Holds
    <3>5. QED
      BY <3>3, <3>4
  <2>2. ShapeOK(req[r])' /\ HeldOK(req[r])'
    BY <1>0, <1>1 DEF ShapeOK, HeldOK, Holds, Alive, Early, Whole, Gone
  <2>3. QED
    BY <2>1, <2>2 DEF RequestsOK
<1>5. Alone'
  BY <1>1, <1>3 DEF IInv, Alone, Holds
<1>6. UpdatesLate'
  BY <1>1 DEF IInv, UpdatesLate, Early
<1>7. UnheldOK'
  <2>1. ASSUME NEW j \in used' \ unclean',
               \A s \in Requests : Holds(req'[s]) => req'[s].id # j
        PROVE  Whole(j)' \/ Gone(j)'
    <3>1. CASE j = i
      <4>1. q.pc = "idle"
        BY <1>1, <2>1, <3>1, r \in Requests DEF Holds
      <4>2. QED
        BY <2>1, <3>1, <4>1
    <3>2. CASE j # i
      <4>1. j \in Resources \ {i} /\ j \in used \ unclean
        BY <1>0, <1>a, <2>1, <3>2 DEF IInv, TypeOK
      <4>2. \A s \in Requests : Holds(req[s]) => req[s].id # j
        BY <1>1, <2>1, <3>2
      <4>3. Whole(j) \/ Gone(j)
        BY <4>1, <4>2 DEF IInv, UnheldOK
      <4>4. QED
        BY <1>a, <4>1, <4>3 DEF Whole, Gone
    <3>3. QED
      BY <3>1, <3>2
  <2>2. QED
    BY <2>1 DEF UnheldOK
<1>8. CallsOK'
  BY <1>0, <1>a, <1>b, <1>2 DEF IInv, CallsOK
<1>9. QED
  BY <1>4, <1>5, <1>6, <1>7, <1>8 DEF IInv

\* A creating request ends with its resource complete, gone or unclean.
LEMMA HolderFinishes ==
    ASSUME IInv, TypeOK', NEW r \in Requests, NEW i \in Resources,
           Holds(req[r]), req[r].id = i, OnlyTouches(i), Finish(r),
           i \notin unclean' => Whole(i)' \/ Gone(i)'
    PROVE  IInv'
<1>1. PICK q \in Request : q = Idle
  BY DEF Idle, At, Request
<1>2. q.pc = "idle" /\ q.id = None
  BY <1>1 DEF Idle, At
<1>3. Goto(r, q)
  BY <1>1 DEF Finish
<1>4. ShapeOK(q) /\ HeldOK(q)' /\ ~Early(q)
  BY <1>2 DEF ShapeOK, HeldOK, Holds, Early
<1>5. QED
  BY <1>2, <1>3, <1>4, HolderStep

\* A creating request goes on to step pc.
LEMMA HolderAdvances ==
    ASSUME IInv, TypeOK', NEW r \in Requests, NEW i \in Resources,
           NEW pc \in {"revert", "idpCreate", "oidc", "insert", "call", "wait",
                       "deleteRow", "deleteIdp", "ok"},
           NEW q \in Request, q.pc = pc, q.id = i, q.sub = req[r].sub,
           Holds(req[r]), req[r].id = i, OnlyTouches(i), Goto(r, q),
           pc \in {"idpCreate", "oidc", "deleteIdp"} => i \in Applications,
           pc = "revert" => req[r].sub \in Submissions,
           pc \in {"idpCreate", "oidc", "insert"} => Early(req[r]),
           HeldOK(q)'
    PROVE  IInv'
<1>2. i \in used
  BY DEF IInv, RequestsOK, ShapeOK, Holds
<1>3. ShapeOK(q)
  BY <1>2 DEF ShapeOK
<1>4. Early(q) => Early(req[r])
  BY DEF Early
<1>5. QED
  BY <1>3, <1>4, HolderStep

LEMMA HolderFails ==
    ASSUME IInv, TypeOK', NEW r \in Requests, NEW i \in Resources,
           Holds(req[r]), req[r].id = i, OnlyTouches(i), Failed(r),
           i \notin unclean' => Gone(i)'
    PROVE  IInv'
<1>1. CASE req[r].sub = None
  BY <1>1, HolderFinishes DEF Failed
<1>2. CASE req[r].sub # None
  <2>1. req[r] \in Request
    BY DEF IInv, TypeOK
  <2>2. PICK q \in Request :
           /\ Goto(r, q)
           /\ q.pc = "revert" /\ q.id = i /\ q.sub = req[r].sub
    BY <1>2, <2>1, AdvancedRequest DEF Failed
  <2>3. req[r].sub \in Submissions
    BY <1>2, <2>1 DEF Request
  <2>4. HeldOK(q)'
    BY <2>2 DEF HeldOK, Alive, Early
  <2>5. QED
    BY <2>2, <2>3, <2>4, HolderAdvances
<1>3. QED
  BY <1>1, <1>2

\* Every step of the creation of a resource preserves the invariant.
LEMMA CreationStep ==
    ASSUME IInv, TypeOK', NEW r \in Requests,
           \/ CreateIdpApplication(r) \/ GetApplicationOIDC(r) \/ InsertRow(r)
           \/ CallPdp(r) \/ PdpReply(r) \/ Timeout(r)
           \/ DeleteRow(r) \/ DeleteIdpApplication(r) \/ Return(r)
    PROVE  IInv'
<1> USE ConstantsAssumption DEF stores
<1>1. req[r] \in Request /\ ShapeOK(req[r]) /\ HeldOK(req[r])
  BY DEF IInv, RequestsOK, TypeOK
<1>2. req[r].pc \notin {"idle", "save", "revert", "update"}
  BY DEF CreateIdpApplication, GetApplicationOIDC, InsertRow, CallPdp, PdpReply,
         Timeout, DeleteRow, DeleteIdpApplication, Return
<1>3. PICK i \in Resources : i = req[r].id
  BY <1>1, <1>2 DEF ShapeOK
<1>4. Holds(req[r]) /\ i \in used
  BY <1>1, <1>2, <1>3 DEF Holds, ShapeOK
<1>5. call[i] = "200" => i \in pdp
  BY <1>3 DEF IInv, CallsOK
<1>6. /\ idp \subseteq Applications
      /\ call \in [Resources -> CallStates \union {None}]
  BY DEF IInv, TypeOK
<1>7. ASSUME OnlyTouches(i), Failed(r), i \notin unclean' => Gone(i)'
      PROVE  IInv'
  BY <1>3, <1>4, <1>7, HolderFails
<1>8. ASSUME OnlyTouches(i),
             NEW pc \in {"oidc", "insert", "call", "wait",
                         "deleteRow", "deleteIdp", "ok"},
             Advance(r, pc),
             pc \in {"oidc", "deleteIdp"} => i \in Applications,
             pc \in {"oidc", "insert"} => Early(req[r]),
             \A q \in Request : q.pc = pc /\ q.id = i => HeldOK(q)'
      PROVE  IInv'
  <2>1. PICK q \in Request :
           /\ Goto(r, q)
           /\ q.pc = pc /\ q.id = i /\ q.sub = req[r].sub
    BY <1>1, <1>3, <1>8, AdvancedRequest
  <2>2. QED
    BY <1>3, <1>4, <1>8, <2>1, HolderAdvances
<1>9. CASE CreateIdpApplication(r)
  <2>1. OnlyTouches(i)
    BY <1>3, <1>5, <1>9 DEF OnlyTouches, CreateIdpApplication
  <2>2. /\ i \in Applications /\ i \notin unclean /\ i \notin rows
        /\ i \notin idp /\ call[i] = None /\ Early(req[r])
    BY <1>1, <1>3, <1>4, <1>9
    DEF ShapeOK, HeldOK, Alive, Early, Gone, CreateIdpApplication
  <2>3. CASE idp' = idp \union {i} /\ unclean' = unclean /\ Advance(r, "oidc")
    <3>1. i \notin rows' /\ i \in idp' /\ i \notin unclean' /\ call'[i] = None
      BY <1>9, <2>2, <2>3 DEF CreateIdpApplication
    <3>2. \A q \in Request : q.pc = "oidc" /\ q.id = i => HeldOK(q)'
      BY <3>1 DEF HeldOK, Alive, Early
    <3>3. QED
      BY <1>8, <2>1, <2>2, <2>3, <3>2
  <2>4. CASE idp' = idp /\ unclean' = unclean /\ Failed(r)
    BY <1>7, <1>9, <2>1, <2>2, <2>4 DEF Gone, CreateIdpApplication
  <2>5. CASE i \in unclean' /\ Failed(r)
    BY <1>7, <2>1, <2>5
  <2>6. QED
    BY <1>3, <1>9, <2>3, <2>4, <2>5 DEF CreateIdpApplication
<1>10. CASE GetApplicationOIDC(r)
  <2>1. OnlyTouches(i)
    BY <1>3, <1>5, <1>10 DEF OnlyTouches, GetApplicationOIDC
  <2>2. /\ i \in idp /\ i \notin rows /\ i \notin unclean
        /\ call[i] = None /\ Early(req[r])
    BY <1>1, <1>3, <1>4, <1>10 DEF HeldOK, Alive, Early, GetApplicationOIDC
  <2>3. CASE unclean' = unclean /\ Advance(r, "insert")
    <3>1. i \notin rows' /\ i \in idp' /\ i \notin unclean' /\ call'[i] = None
      BY <1>10, <2>2, <2>3 DEF GetApplicationOIDC
    <3>2. \A q \in Request : q.pc = "insert" /\ q.id = i => HeldOK(q)'
      BY <3>1 DEF HeldOK, Alive, Early
    <3>3. QED
      BY <1>8, <2>1, <2>2, <2>3, <3>2
  <2>4. CASE i \in unclean' /\ Failed(r)
    BY <1>7, <2>1, <2>4
  <2>5. QED
    BY <1>3, <1>10, <2>3, <2>4 DEF GetApplicationOIDC
<1>11. CASE InsertRow(r)
  <2>1. OnlyTouches(i)
    BY <1>3, <1>5, <1>11 DEF OnlyTouches, InsertRow
  <2>2. /\ i \in Applications => i \in idp
        /\ i \notin rows /\ i \notin unclean /\ call[i] = None
    BY <1>1, <1>3, <1>4, <1>11 DEF HeldOK, Alive, Early, InsertRow
  <2>3. CASE rows' = rows \union {i} /\ Advance(r, "call")
    <3>1. /\ i \in Applications => i \in idp'
          /\ i \in rows' /\ i \notin unclean' /\ call'[i] = None
      BY <1>11, <2>2, <2>3 DEF InsertRow
    <3>2. \A q \in Request : q.pc = "call" /\ q.id = i => HeldOK(q)'
      BY <3>1 DEF HeldOK, Alive, Early
    <3>3. QED
      BY <1>8, <2>1, <2>3, <3>2
  <2>4. CASE rows' = rows /\ i \in Applications /\ Advance(r, "deleteIdp")
    <3>1. \A q \in Request : q.pc = "deleteIdp" /\ q.id = i => HeldOK(q)'
      BY <2>2, <2>4 DEF HeldOK, Alive, Early
    <3>2. QED
      BY <1>8, <2>1, <2>4, <3>1
  <2>5. CASE rows' = rows /\ i \notin Applications /\ Failed(r)
    <3>1. Gone(i)'
      BY <1>6, <1>11, <2>2, <2>5 DEF Gone, InsertRow
    <3>2. QED
      BY <1>7, <2>1, <2>5, <3>1
  <2>6. QED
    BY <1>3, <1>11, <2>3, <2>4, <2>5 DEF InsertRow
<1>12. CASE CallPdp(r)
  <2>1. OnlyTouches(i)
    BY <1>3, <1>5, <1>6, <1>12 DEF OnlyTouches, CallPdp
  <2>2. /\ i \in Applications => i \in idp
        /\ i \in rows /\ i \notin unclean
    BY <1>1, <1>3, <1>4, <1>12 DEF HeldOK, Alive, Early, CallPdp
  <2>3. CASE call' = [call EXCEPT ![i] = "sent"] /\ Advance(r, "wait")
    <3>1. /\ i \in Applications => i \in idp'
          /\ i \in rows' /\ i \notin unclean' /\ call'[i] # None
      BY <1>6, <1>12, <2>2, <2>3 DEF CallPdp, CallStates
    <3>2. \A q \in Request : q.pc = "wait" /\ q.id = i => HeldOK(q)'
      BY <3>1 DEF HeldOK, Alive, Early
    <3>3. QED
      BY <1>8, <2>1, <2>3, <3>2
  <2>4. CASE Advance(r, "deleteRow")
    <3>1. \A q \in Request : q.pc = "deleteRow" /\ q.id = i => HeldOK(q)'
      BY DEF HeldOK, Alive, Early
    <3>2. QED
      BY <1>8, <2>1, <2>4, <3>1
  <2>5. QED
    BY <1>3, <1>12, <2>3, <2>4 DEF CallPdp
<1>13. CASE PdpReply(r) \/ Timeout(r)
  <2>1. OnlyTouches(i)
    BY <1>3, <1>5, <1>13 DEF OnlyTouches, PdpReply, Timeout
  <2>2. CASE Advance(r, "deleteRow")
    <3>1. \A q \in Request : q.pc = "deleteRow" /\ q.id = i => HeldOK(q)'
      BY DEF HeldOK, Alive, Early
    <3>2. QED
      BY <1>8, <2>1, <2>2, <3>1
  <2>3. CASE Advance(r, "ok") /\ call[i] = "200" /\ PdpReply(r)
    <3>1. /\ i \in Applications => i \in idp
          /\ i \in rows /\ i \notin unclean
      BY <1>1, <1>3, <1>4, <2>3 DEF HeldOK, Alive, Early, PdpReply
    <3>2. Whole(i)' /\ i \notin unclean'
      BY <1>5, <2>3, <3>1 DEF Whole, PdpReply
    <3>3. \A q \in Request : q.pc = "ok" /\ q.id = i => HeldOK(q)'
      BY <3>2 DEF HeldOK, Alive, Early
    <3>4. QED
      BY <1>8, <2>1, <2>3, <3>3
  <2>4. QED
    BY <1>3, <1>13, <2>2, <2>3 DEF PdpReply, Timeout, Accepted
<1>14. CASE DeleteRow(r)
  <2>1. OnlyTouches(i)
    BY <1>3, <1>5, <1>14 DEF OnlyTouches, DeleteRow
  <2>2. i \notin unclean' => i \notin rows'
    BY <1>3, <1>14 DEF DeleteRow
  <2>3. CASE i \in Applications /\ Advance(r, "deleteIdp")
    <3>1. \A q \in Request : q.pc = "deleteIdp" /\ q.id = i => HeldOK(q)'
      BY <2>2 DEF HeldOK, Alive, Early
    <3>2. QED
      BY <1>8, <2>1, <2>3, <3>1
  <2>4. CASE i \notin Applications /\ Failed(r)
    <3>1. i \notin unclean' => Gone(i)'
      BY <1>6, <1>14, <2>2, <2>4 DEF Gone, DeleteRow
    <3>2. QED
      BY <1>7, <2>1, <2>4, <3>1
  <2>5. QED
    BY <1>3, <1>14, <2>3, <2>4 DEF DeleteRow
<1>15. CASE DeleteIdpApplication(r)
  <2>1. OnlyTouches(i)
    BY <1>3, <1>5, <1>15 DEF OnlyTouches, DeleteIdpApplication
  <2>2. i \notin unclean => i \notin rows
    BY <1>1, <1>3, <1>4, <1>15 DEF HeldOK, DeleteIdpApplication
  <2>3. i \notin unclean' => Gone(i)'
    BY <1>3, <1>15, <2>2 DEF Gone, DeleteIdpApplication
  <2>4. QED
    BY <1>7, <1>15, <2>1, <2>3 DEF DeleteIdpApplication
<1>16. CASE Return(r)
  <2>1. OnlyTouches(i)
    BY <1>5, <1>16 DEF OnlyTouches, Return
  <2>2. Whole(i)
    BY <1>1, <1>3, <1>4, <1>16 DEF HeldOK, Alive, Return
  <2>3. Whole(i)' /\ Finish(r)
    BY <1>16, <2>2 DEF Whole, Return
  <2>4. QED
    BY <1>3, <1>4, <2>1, <2>3, HolderFinishes
<1>17. QED
  BY <1>9, <1>10, <1>11, <1>12, <1>13, <1>14, <1>15, <1>16

-----------------------------------------------------------------------------
(* Steps of requests that create nothing, and steps of nobody's *)

\* The resource i of a request at each early step has no row yet.
LEMMA EarlyHasNoRow ==
    ASSUME IInv, NEW r \in Requests, Early(req[r])
    PROVE  req[r].id \notin rows
<1>1. ShapeOK(req[r]) /\ HeldOK(req[r])
  BY DEF IInv, RequestsOK
<1>2. rows \subseteq Resources /\ None \notin Resources
  BY ConstantsAssumption DEF IInv, TypeOK
<1>3. CASE req[r].id = None
  BY <1>2, <1>3
<1>4. CASE req[r].id # None
  BY <1>1, <1>4 DEF HeldOK, Holds, Alive, Early, Gone
<1>5. QED
  BY <1>3, <1>4

\* Request r becomes q; it created nothing before and creates nothing after.
LEMMA PlainStep ==
    ASSUME IInv, TypeOK', NEW r \in Requests, NEW q \in Request,
           ~Holds(req[r]), ~Holds(q), ShapeOK(q), Goto(r, q),
           q.pc = "update" => q.id \in rows,
           UNCHANGED <<used, stores, call, unclean>>
    PROVE  IInv'
<1> USE DEF stores
<1>1. req'[r] = q /\ \A s \in Requests \ {r} : req'[s] = req[s]
  BY DEF IInv, TypeOK, Goto
<1>2. RequestsOK'
  <2>1. ASSUME NEW s \in Requests
        PROVE  ShapeOK(req[s])' /\ HeldOK(req[s])'
    <3>1. ShapeOK(req'[s])
      BY <1>1 DEF IInv, RequestsOK
    <3>2. CASE s = r
      BY <1>1, <3>1, <3>2 DEF ShapeOK, HeldOK, Holds
    <3>3. CASE s # r
      <4>1. HeldOK(req[s])
        BY DEF IInv, RequestsOK
      <4>2. QED
        BY <1>1, <3>1, <3>3, <4>1 DEF ShapeOK, HeldOK, Holds, Alive, Early, Whole, Gone
    <3>4. QED
      BY <3>2, <3>3
  <2>2. QED
    BY <2>1 DEF RequestsOK
<1>3. Alone'
  BY <1>1 DEF IInv, Alone, Holds
<1>4. UpdatesLate'
  <2>1. ASSUME NEW s \in Requests, NEW t \in Requests,
               req'[s].pc = "update", Early(req'[t])
        PROVE  req'[s].id # req'[t].id
    <3>1. CASE t = r
      BY <1>1, <2>1, <3>1, ConstantsAssumption
      DEF Early, Holds, IInv, RequestsOK, ShapeOK
    <3>2. CASE t # r
      <4>1. Early(req[t]) /\ req'[t] = req[t]
        BY <1>1, <2>1, <3>2 DEF Early
      <4>2. CASE s = r
        BY <1>1, <2>1, <4>1, <4>2, EarlyHasNoRow
      <4>3. CASE s # r
        BY <1>1, <2>1, <4>1, <4>3 DEF IInv, UpdatesLate
      <4>4. QED
        BY <4>2, <4>3
    <3>3. QED
      BY <3>1, <3>2
  <2>2. QED
    BY <2>1 DEF UpdatesLate, Early
<1>5. UnheldOK'
  BY <1>1 DEF IInv, UnheldOK, Whole, Gone, Holds
<1>6. CallsOK'
  BY DEF IInv, CallsOK
<1>7. QED
  BY <1>2, <1>3, <1>4, <1>5, <1>6 DEF IInv

\* Request r begins to create i, which no request has tried before.
LEMMA FreshStep ==
    ASSUME IInv, TypeOK', NEW r \in Requests, NEW q \in Request,
           NEW i \in Resources \ used,
           req[r].pc = "idle", q.id = i,
           q.pc \in {"save", "idpCreate", "insert"},
           q.pc = "idpCreate" <=> q.pc # "save" /\ i \in Applications,
           q.pc = "save" => q.sub \in Submissions /\ q.saved \in Statuses,
           Goto(r, q), used' = used \union {i},
           UNCHANGED <<stores, call, unclean>>
    PROVE  IInv'
<1> USE ConstantsAssumption DEF stores
<1>1. req'[r] = q /\ \A s \in Requests \ {r} : req'[s] = req[s]
  BY DEF IInv, TypeOK, Goto
<1>2. i \notin rows /\ i \notin unclean /\ i \notin idp /\ call[i] = None
  BY DEF IInv, TypeOK, CallsOK
<1>3. RequestsOK'
  <2>1. ASSUME NEW s \in Requests
        PROVE  ShapeOK(req[s])' /\ HeldOK(req[s])'
    <3>1. CASE s = r
      <4>1. i \in Resources /\ i \in used'
        OBVIOUS
      <4>2. Gone(i)' /\ i \notin unclean' /\ call'[i] = None
        BY <1>2 DEF Gone
      <4>3. i \notin Applications => q.pc # "idpCreate"
        OBVIOUS
      <4>4. QED
        BY <1>1, <3>1, <4>1, <4>2 DEF ShapeOK, HeldOK, Alive, Early, Gone
    <3>2. CASE s # r
      <4>1. ShapeOK(req[s]) /\ HeldOK(req[s])
        BY DEF IInv, RequestsOK
      <4>2. QED
        BY <1>1, <3>2, <4>1 DEF ShapeOK, HeldOK, Holds, Alive, Early, Whole, Gone
    <3>3. QED
      BY <3>1, <3>2
  <2>2. QED
    BY <2>1 DEF RequestsOK
<1>4. \A s \in Requests \ {r} : req[s].pc # "idle" => req[s].id # i
  BY DEF IInv, RequestsOK, ShapeOK
<1>5. Alone'
  BY <1>1, <1>4 DEF IInv, Alone, Holds
<1>6. UpdatesLate'
  BY <1>1, <1>4 DEF IInv, UpdatesLate, Early
<1>7. UnheldOK'
  <2>1. ASSUME NEW j \in used' \ unclean',
               \A s \in Requests : Holds(req'[s]) => req'[s].id # j
        PROVE  Whole(j) \/ Gone(j)
    <3>1. Holds(q)
      BY DEF Holds
    <3>2. j # i
      BY <1>1, <2>1, <3>1
    <3>3. \A s \in Requests : Holds(req[s]) => req[s].id # j
      BY <1>1, <2>1 DEF Holds
    <3>4. QED
      BY <2>1, <3>2, <3>3 DEF IInv, UnheldOK
  <2>2. QED
    BY <2>1 DEF UnheldOK, Whole, Gone
<1>8. CallsOK'
  BY DEF IInv, CallsOK
<1>9. QED
  BY <1>3, <1>5, <1>6, <1>7, <1>8 DEF IInv

\* The portal saves the resource it has read; if its row was deleted meanwhile,
\* the resource is unclean from now on, and nobody relies on it.
LEMMA SaveResourceStep ==
    ASSUME IInv, TypeOK', NEW r \in Requests, SaveResource(r)
    PROVE  IInv'
<1> USE DEF stores
<1>1. PICK i \in Resources : i = req[r].id
  BY DEF IInv, RequestsOK, ShapeOK, SaveResource
<1>2. /\ req'[r] = Idle /\ \A s \in Requests \ {r} : req'[s] = req[s]
      /\ Idle.pc = "idle" /\ Idle.id = None
  BY DEF SaveResource, Finish, Goto, IInv, TypeOK, Idle, At
<1>3. /\ UNCHANGED <<used, idp, pdp, call>>
      /\ \A j \in Resources \ {i} : /\ j \in rows' <=> j \in rows
                                    /\ j \in unclean' <=> j \in unclean
      /\ i \in rows => UNCHANGED <<rows, unclean>>
      /\ i \notin rows /\ i \notin unclean' => UNCHANGED <<rows, unclean>>
      /\ rows \subseteq rows' /\ unclean \subseteq unclean'
  BY <1>1 DEF SaveResource, IInv, TypeOK
<1>4. \A s \in Requests \ {r} : Alive(req[s]) /\ Holds(req[s]) =>
                                req[s].id # i \/ UNCHANGED <<rows, unclean>>
  <2>1. ASSUME NEW s \in Requests \ {r}, Alive(req[s]), Holds(req[s]), req[s].id = i
        PROVE  UNCHANGED <<rows, unclean>>
    <3>1. HeldOK(req[s]) /\ i \notin unclean
      BY <2>1 DEF IInv, RequestsOK, HeldOK
    <3>2. ~Early(req[s])
      BY <1>1, <2>1 DEF IInv, UpdatesLate, SaveResource
    <3>3. i \in rows
      BY <2>1, <3>1, <3>2 DEF HeldOK, Alive, Whole
    <3>4. QED
      BY <1>3, <3>3
  <2>2. QED
    BY <2>1
<1>5. RequestsOK'
  <2>1. ASSUME NEW s \in Requests
        PROVE  ShapeOK(req[s])' /\ HeldOK(req[s])'
    <3>1. CASE s = r
      BY <1>2, <3>1 DEF ShapeOK, HeldOK, Holds
    <3>2. CASE s # r
      <4>1. ShapeOK(req[s]) /\ HeldOK(req[s]) /\ req'[s] = req[s]
        BY <1>2, <3>2 DEF IInv, RequestsOK
      <4>2. ShapeOK(req[s])'
        BY <1>3, <4>1 DEF ShapeOK
      <4>3. ASSUME Holds(req[s])
            PROVE  HeldOK(req[s])'
        <5>1. CASE req[s].id = i /\ ~Alive(req[s])
          <6>1. CASE UNCHANGED <<rows, unclean>>
            BY <1>3, <4>1, <6>1 DEF HeldOK, Holds, Alive, Early, Whole, Gone
          <6>2. CASE i \in unclean'
            BY <1>3, <4>1, <5>1, <6>2 DEF HeldOK, Alive, Early
          <6>3. QED
            BY <1>3, <6>1, <6>2
        <5>2. CASE req[s].id # i
          <6>1. req[s].id \in Resources \ {i}
            BY <4>1, <4>3, <5>2, ConstantsAssumption
            DEF Holds, IInv, TypeOK, Request
          <6>2. QED
            BY <1>3, <4>1, <6>1 DEF HeldOK, Holds, Alive, Early, Whole, Gone
        <5>3. CASE UNCHANGED <<rows, unclean>>
          BY <1>3, <4>1, <5>3 DEF HeldOK, Holds, Alive, Early, Whole, Gone
        <5>4. QED
          BY <1>4, <3>2, <4>3, <5>1, <5>2, <5>3
      <4>4. QED
        BY <4>1, <4>2, <4>3 DEF HeldOK, Holds
    <3>3. QED
      BY <3>1, <3>2
  <2>2. QED
    BY <2>1 DEF RequestsOK
<1>6. Alone'
  BY <1>2 DEF IInv, Alone, Holds
<1>7. UpdatesLate'
  BY <1>2 DEF IInv, UpdatesLate, Early
<1>8. UnheldOK'
  <2>1. ASSUME NEW j \in used' \ unclean',
               \A s \in Requests : Holds(req'[s]) => req'[s].id # j
        PROVE  Whole(j)' \/ Gone(j)'
    <3>1. ~Holds(req[r])
      BY DEF SaveResource, Holds
    <3>2. \A s \in Requests : Holds(req[s]) => req[s].id # j
      BY <1>2, <2>1, <3>1
    <3>3. j \in Resources /\ j \in used \ unclean
      BY <1>3, <2>1 DEF IInv, TypeOK
    <3>4. Whole(j) \/ Gone(j)
      BY <3>2, <3>3 DEF IInv, UnheldOK
    <3>5. j \in rows' <=> j \in rows
      BY <1>3, <2>1, <3>3
    <3>6. QED
      BY <1>3, <3>4, <3>5 DEF Whole, Gone
  <2>2. QED
    BY <2>1 DEF UnheldOK
<1>9. CallsOK'
  BY <1>3 DEF IInv, CallsOK
<1>10. QED
  BY <1>5, <1>6, <1>7, <1>8, <1>9 DEF IInv

\* The PDP commits or refuses a call that may have timed out long ago.
LEMMA PdpStep ==
    ASSUME IInv, TypeOK', NEW i \in Resources, PdpCommits(i) \/ PdpRefuses(i)
    PROVE  IInv'
<1> USE DEF stores
<1>1. /\ UNCHANGED <<used, idp, rows, req, unclean>>
      /\ pdp \subseteq pdp'
      /\ \A j \in Resources \ {i} : call'[j] = call[j]
      /\ call[i] = "sent" /\ call[i] # None /\ call'[i] # None
      /\ call'[i] = "200" => i \in pdp'
  BY ConstantsAssumption DEF PdpCommits, PdpRefuses, CallStates, IInv, TypeOK
<1>2. RequestsOK'
  <2>1. ASSUME NEW s \in Requests
        PROVE  ShapeOK(req[s])' /\ HeldOK(req[s])'
    <3>1. ShapeOK(req[s]) /\ HeldOK(req[s]) /\ req'[s] = req[s]
      BY <1>1 DEF IInv, RequestsOK
    <3>2. ShapeOK(req[s])'
      BY <1>1, <3>1 DEF ShapeOK
    <3>3. Holds(req[s]) => req[s].id \in Resources
      BY DEF Holds, IInv, TypeOK, Request
    <3>4. HeldOK(req[s])'
      BY <1>1, <3>1, <3>3 DEF HeldOK, Holds, Alive, Early, Whole, Gone
    <3>5. QED
      BY <3>2, <3>4
  <2>2. QED
    BY <2>1 DEF RequestsOK
<1>3. Alone' /\ UpdatesLate'
  BY <1>1 DEF IInv, Alone, UpdatesLate, Holds, Early
<1>4. UnheldOK'
  BY <1>1 DEF IInv, UnheldOK, Whole, Gone, Holds
<1>5. CallsOK'
  <2>1. ASSUME NEW j \in Resources
        PROVE  (call'[j] # None => j \in used') /\ (call'[j] = "200" => j \in pdp')
    <3>1. CASE j = i
      BY <1>1, <3>1 DEF IInv, CallsOK
    <3>2. CASE j # i
      BY <1>1, <3>2 DEF IInv, CallsOK
    <3>3. QED
      BY <3>1, <3>2
  <2>2. QED
    BY <2>1 DEF CallsOK
<1>6. QED
  BY <1>2, <1>3, <1>4, <1>5 DEF IInv

\* After a crash nothing is under way: what was being created is unclean.
LEMMA CrashStep ==
    ASSUME IInv, TypeOK', Crash
    PROVE  IInv'
<1> USE DEF stores
<1>1. /\ \A s \in Requests : req'[s].pc = "idle"
      /\ UNCHANGED <<used, idp, rows, pdp, call>> /\ unclean \subseteq unclean'
  BY DEF Crash, Idle, At
<1>2. RequestsOK' /\ Alone' /\ UpdatesLate' /\ CallsOK'
  BY <1>1 DEF IInv, RequestsOK, ShapeOK, HeldOK, Holds, Alone, UpdatesLate, CallsOK
<1>3. UnheldOK'
  <2>1. ASSUME NEW j \in used \ unclean'
        PROVE  Whole(j) \/ Gone(j)
    <3>1. CASE \A s \in Requests : Holds(req[s]) => req[s].id # j
      BY <1>1, <2>1, <3>1 DEF IInv, UnheldOK
    <3>2. ASSUME NEW s \in Requests, Holds(req[s]), req[s].id = j
          PROVE  Whole(j) \/ Gone(j)
      <4>1. ~Creating(s)
        BY <2>1, <3>2 DEF Crash
      <4>2. HeldOK(req[s]) /\ req[s].pc \in {"save", "revert", "ok"}
        BY <3>2, <4>1 DEF IInv, RequestsOK, Creating, Holds
      <4>3. QED
        BY <1>1, <2>1, <3>2, <4>2 DEF HeldOK
    <3>3. QED
      BY <3>1, <3>2
  <2>2. QED
    BY <1>1, <2>1 DEF UnheldOK, Whole, Gone
<1>4. QED
  BY <1>2, <1>3 DEF IInv

LEMMA ArrivalStep ==
    ASSUME IInv, TypeOK', NEW r \in Requests, Arrival(r)
    PROVE  IInv'
<1> USE ConstantsAssumption
<1>1. req[r].pc = "idle" /\ ~Holds(req[r])
  BY DEF Arrival, UpdateSubmission, Create, UpdateResource, Holds
<1>2. CASE UpdateSubmission(r)
  <2>1. PICK s \in Submissions :
           /\ status[s] # None
           /\ \/ /\ \E st \in {status[s], "pending", "rejected"} :
                       Goto(r, At("save", s, st, None))
                 /\ UNCHANGED used
              \/ \E i \in Wanted(s) \ used :
                    /\ Goto(r, At("save", s, "approved", i))
                    /\ used' = used \union {i}
    BY <1>2 DEF UpdateSubmission
  <2>2. status[s] \in Statuses
    BY <2>1 DEF IInv, TypeOK
  <2>3. ASSUME NEW st \in Statuses, Goto(r, At("save", s, st, None)), UNCHANGED used
        PROVE  IInv'
    <3>1. PICK q \in Request : q = At("save", s, st, None)
      BY DEF At, Request
    <3>2. q.pc = "save" /\ q.sub = s /\ q.saved = st /\ q.id = None
      BY <3>1 DEF At
    <3>3. ShapeOK(q) /\ ~Holds(q)
      BY <3>2 DEF ShapeOK, Holds
    <3>4. QED
      BY <1>1, <1>2, <2>3, <3>1, <3>2, <3>3, PlainStep DEF UpdateSubmission
  <2>4. ASSUME NEW i \in Wanted(s) \ used, Goto(r, At("save", s, "approved", i)),
               used' = used \union {i}
        PROVE  IInv'
    <3>1. i \in Resources \ used
      BY <2>4 DEF Wanted, Resources
    <3>2. PICK q \in Request : q = At("save", s, "approved", i)
      BY <3>1 DEF At, Request, Statuses
    <3>3. q.pc = "save" /\ q.sub = s /\ q.saved \in Statuses /\ q.id = i
      BY <3>2 DEF At, Statuses
    <3>4. QED
      BY <1>1, <1>2, <2>4, <3>1, <3>2, <3>3, FreshStep DEF UpdateSubmission
  <2>5. QED
    BY <2>1, <2>2, <2>3, <2>4 DEF Statuses
<1>3. CASE Create(r)
  <2>1. PICK i \in Resources \ used :
           Goto(r, At(First(i), None, None, i)) /\ used' = used \union {i}
    BY <1>3 DEF Create
  <2>2. PICK q \in Request : q = At(First(i), None, None, i)
    <3>1. First(i) \in {"idpCreate", "insert"}
      BY DEF First
    <3>2. QED
      BY <3>1 DEF At, Request
  <2>3. q.pc = First(i) /\ q.id = i
    BY <2>2 DEF At
  <2>4. QED
    BY <1>1, <1>3, <2>1, <2>2, <2>3, FreshStep DEF Create, First
<1>4. CASE UpdateResource(r)
  <2>1. PICK i \in rows : Goto(r, At("update", None, None, i))
    BY <1>4 DEF UpdateResource
  <2>2. i \in Resources /\ i \in used
    BY <2>1 DEF IInv, TypeOK
  <2>3. PICK q \in Request : q = At("update", None, None, i)
    BY <2>2 DEF At, Request
  <2>4. q.pc = "update" /\ q.id = i
    BY <2>3 DEF At
  <2>5. ShapeOK(q) /\ ~Holds(q)
    BY <2>2, <2>4 DEF ShapeOK, Holds
  <2>6. QED
    BY <1>1, <1>4, <2>1, <2>3, <2>4, <2>5, PlainStep DEF UpdateResource
<1>5. QED
  BY <1>2, <1>3, <1>4 DEF Arrival

\* Saving a submission, and putting it back to pending.
LEMMA SubmissionStep ==
    ASSUME IInv, TypeOK', NEW r \in Requests, SaveSubmission(r) \/ RevertSubmission(r)
    PROVE  IInv'
<1> USE ConstantsAssumption
<1>1. req[r] \in Request /\ ShapeOK(req[r]) /\ HeldOK(req[r])
  BY DEF IInv, RequestsOK, TypeOK
<1>2. req[r].pc \in {"save", "revert"} /\ UNCHANGED <<used, stores, call, unclean>>
  BY DEF SaveSubmission, RevertSubmission
<1>3. ASSUME Finish(r)
      PROVE  IInv'
  <2>1. CASE req[r].id = None
    <3>1. PICK q \in Request : q = Idle
      BY DEF Idle, At, Request
    <3>2. q.pc = "idle" /\ q.id = None
      BY <3>1 DEF Idle, At
    <3>3. ShapeOK(q) /\ ~Holds(q) /\ ~Holds(req[r])
      BY <2>1, <3>2 DEF ShapeOK, Holds
    <3>4. QED
      BY <1>2, <1>3, <3>1, <3>2, <3>3, PlainStep DEF Finish
  <2>2. CASE req[r].id # None
    <3>1. PICK i \in Resources : i = req[r].id
      BY <1>1, <2>2 DEF Request
    <3>2. Holds(req[r])
      BY <1>2, <2>2 DEF Holds
    <3>3. OnlyTouches(i)
      BY <1>2 DEF OnlyTouches, IInv, CallsOK, stores
    <3>4. i \notin unclean' => Gone(i)'
      BY <1>1, <1>2, <3>1, <3>2 DEF HeldOK, Gone, stores
    <3>5. QED
      BY <1>3, <3>1, <3>2, <3>3, <3>4, HolderFinishes
  <2>3. QED
    BY <2>1, <2>2
<1>4. ASSUME req[r].pc = "save", req[r].id # None, Advance(r, First(req[r].id))
      PROVE  IInv'
  <2>1. PICK i \in Resources : i = req[r].id
    BY <1>1, <1>4 DEF Request
  <2>2. PICK q \in Request :
           Goto(r, q) /\ q.pc = First(i) /\ q.id = i /\ q.sub = req[r].sub
    BY <1>1, <1>4, <2>1, AdvancedRequest DEF First
  <2>3. Holds(req[r]) /\ Early(req[r])
    BY <1>4 DEF Holds, Early
  <2>4. OnlyTouches(i)
    BY <1>2 DEF OnlyTouches, IInv, CallsOK, stores
  <2>5. Gone(i)' /\ i \notin unclean' /\ call'[i] = None
    BY <1>1, <1>2, <1>4, <2>1, <2>3 DEF HeldOK, Alive, Early, Gone, stores
  <2>6. CASE i \in Applications
    <3>1. q.pc = "idpCreate"
      BY <2>2, <2>6 DEF First
    <3>2. HeldOK(q)'
      BY <2>2, <2>5, <3>1 DEF HeldOK, Alive, Early, Gone
    <3>3. QED
      BY <2>1, <2>2, <2>3, <2>4, <2>6, <3>1, <3>2, HolderAdvances
  <2>7. CASE i \notin Applications
    <3>1. q.pc = "insert"
      BY <2>2, <2>7 DEF First
    <3>2. HeldOK(q)'
      BY <2>2, <2>5, <2>7, <3>1 DEF HeldOK, Alive, Early, Gone
    <3>3. QED
      BY <2>1, <2>2, <2>3, <2>4, <2>7, <3>1, <3>2, HolderAdvances
  <2>8. QED
    BY <2>6, <2>7
<1>5. QED
  BY <1>3, <1>4 DEF SaveSubmission, RevertSubmission

-----------------------------------------------------------------------------
(* Theorems *)

LEMMA InitEstablishes == ASSUME Init PROVE IInv
<1> USE ConstantsAssumption
<1>1. TypeOK
  BY DEF Init, TypeOK, Idle, At, Request
<1>2. \A r \in Requests : req[r].pc = "idle"
  BY DEF Init, Idle, At
<1>3. RequestsOK /\ Alone /\ UpdatesLate
  BY <1>2 DEF RequestsOK, ShapeOK, HeldOK, Holds, Alone, UpdatesLate
<1>4. UnheldOK /\ CallsOK
  BY DEF Init, UnheldOK, CallsOK, CallStates
<1>5. QED
  BY <1>1, <1>3, <1>4 DEF IInv

LEMMA NextPreserves == ASSUME IInv, [Next]_vars PROVE IInv'
<1>1. CASE Next
  <2>1. TypeOK'
    BY <1>1, TypeStep
  <2>2. ASSUME NEW s \in Submissions, CreateSubmission(s)
        PROVE  IInv'
    BY <2>1, <2>2
    DEF CreateSubmission, stores, IInv, RequestsOK, ShapeOK, HeldOK, Holds, Alive,
        Early, Whole, Gone, Alone, UpdatesLate, UnheldOK, CallsOK
  <2>3. ASSUME NEW r \in Requests, Arrival(r)
        PROVE  IInv'
    BY <2>1, <2>3, ArrivalStep
  <2>4. ASSUME NEW r \in Requests, Step(r)
        PROVE  IInv'
    BY <2>1, <2>4, SubmissionStep, CreationStep, SaveResourceStep DEF Step, OwnStep, IdpStep
  <2>5. ASSUME NEW i \in Resources, PdpCommits(i) \/ PdpRefuses(i)
        PROVE  IInv'
    BY <2>1, <2>5, PdpStep
  <2>6. CASE Crash
    BY <2>1, <2>6, CrashStep
  <2>7. QED
    BY <1>1, <2>2, <2>3, <2>4, <2>5, <2>6 DEF Next
<1>2. CASE UNCHANGED vars
  BY <1>2
  DEF vars, stores, IInv, TypeOK, RequestsOK, ShapeOK, HeldOK, Holds, Alive, Early,
      Whole, Gone, Alone, UpdatesLate, UnheldOK, CallsOK
<1>3. QED
  BY <1>1, <1>2

\* How far the sagas have brought their resources, in every state.
THEOREM ProvisioningInvariance == Spec => []IInv
BY InitEstablishes, NextPreserves, PTL DEF Spec

\* The type invariant of the portal's sagas, for any number of requests.
THEOREM ProvisioningTypeCorrect == Spec => []TypeOK
<1>1. IInv => TypeOK
  BY DEF IInv
<1>2. QED
  BY <1>1, ProvisioningInvariance, PTL

\* The creation sagas are all-or-nothing (AllOrNothing): what is neither complete
\* nor gone, and has nobody at work on it, is one of the cases unclean lists.
THEOREM SagasAtomic == Spec => []AllOrNothing
<1>1. IInv => AllOrNothing
  <2>1. ASSUME IInv, NEW i \in used \ unclean, Settled(i)
        PROVE  Whole(i) \/ Gone(i)
    <3>1. CASE \A r \in Requests : Holds(req[r]) => req[r].id # i
      BY <2>1, <3>1 DEF IInv, UnheldOK
    <3>2. ASSUME NEW r \in Requests, Holds(req[r]), req[r].id = i
          PROVE  Whole(i) \/ Gone(i)
      <4>1. req[r].pc \in {"save", "revert", "ok"}
        BY <2>1, <3>2 DEF Settled, Creating, Holds
      <4>2. QED
        BY <2>1, <3>2, <4>1 DEF IInv, RequestsOK, HeldOK
    <3>3. QED
      BY <3>1, <3>2
  <2>2. QED
    BY <2>1 DEF AllOrNothing
<1>2. QED
  BY <1>1, ProvisioningInvariance, PTL

\* A request that answers success has made its resource complete
\* (SuccessIsComplete), whatever ran beside it.
THEOREM SuccessSound == Spec => []SuccessIsComplete
<1>1. IInv => SuccessIsComplete
  <2>1. ASSUME IInv, NEW r \in Requests, req[r].pc = "ok"
        PROVE  Whole(req[r].id)
    <3>1. ShapeOK(req[r]) /\ HeldOK(req[r])
      BY <2>1 DEF IInv, RequestsOK
    <3>2. Holds(req[r])
      BY <2>1, <3>1, ConstantsAssumption DEF Holds, ShapeOK
    <3>3. QED
      BY <2>1, <3>1, <3>2 DEF HeldOK, Alive
  <2>2. QED
    BY <2>1 DEF SuccessIsComplete
<1>2. QED
  BY <1>1, ProvisioningInvariance, PTL

-----------------------------------------------------------------------------
(* The lifecycle of a resource *)

\* What the phase of a resource says of it.
PhasesMean ==
    \A i \in Resources :
       /\ i \notin used => Phase(i) = "new"
       /\ i \in unclean => i \in used /\ Phase(i) = "unclean"
       /\ i \in used \ unclean /\ Held(i) => Phase(i) = "working"
       /\ Left(i) => \/ Whole(i) /\ ~Gone(i) /\ Phase(i) = "whole"
                     \/ Gone(i) /\ ~Whole(i) /\ Phase(i) = "gone"

LEMMA PhasesAre == IInv => PhasesMean
<1> SUFFICES ASSUME IInv PROVE PhasesMean
  OBVIOUS
<1>1. unclean \subseteq used
  BY DEF IInv, TypeOK
<1>2. ASSUME NEW i \in Resources, Left(i)
      PROVE  \/ Whole(i) /\ ~Gone(i) /\ Phase(i) = "whole"
             \/ Gone(i) /\ ~Whole(i) /\ Phase(i) = "gone"
  <2>1. i \in used \ unclean /\ ~Held(i)
    BY <1>2 DEF Left
  <2>2. Whole(i) \/ Gone(i)
    BY <2>1 DEF IInv, UnheldOK, Held, Holds
  <2>3. ~(Whole(i) /\ Gone(i))
    BY DEF Whole, Gone
  <2>4. QED
    BY <1>2, <2>1, <2>2, <2>3 DEF Phase
<1>3. QED
  BY <1>1, <1>2 DEF PhasesMean, Phase, Left

\* What no request creates is left alone, except that the PDP may still commit.
Undisturbed(i) ==
    i \notin unclean /\ ~Held(i) =>
       /\ i \notin unclean' /\ ~Held(i)'
       /\ i \in rows' <=> i \in rows
       /\ i \in idp' <=> i \in idp
       /\ i \in pdp => i \in pdp'

\* Phase i is where it was, or i was being created and no longer is.
Ends(i) ==
    \/ Phase(i)' = Phase(i)
    \/ Phase(i) = "working" /\ Phase(i)' \in {"whole", "gone", "unclean"}

LEMMA UndisturbedEnds ==
    ASSUME IInv, IInv', NEW i \in Resources, i \in used' <=> i \in used,
           i \in unclean => i \in unclean', Undisturbed(i)
    PROVE  Ends(i) /\ Phase(i)' \in Lifecycle!Phases
<1>1. PhasesMean /\ PhasesMean'
  BY PhasesAre, PTL
<1>2. QED
  BY <1>1 DEF PhasesMean, Undisturbed, Ends, Left, Whole, Gone, Lifecycle!Phases

PhaseOf == [i \in Resources |-> Phase(i)]

\* No id is taken, and nothing but what a request creates is disturbed.
Calm == /\ used' = used
        /\ \A i \in Resources : (i \in unclean => i \in unclean') /\ Undisturbed(i)

LEMMA CalmEnds ==
    ASSUME IInv, IInv', Calm
    PROVE  Lifecycle!Next
<1>1. \A i \in Resources : Ends(i) /\ Phase(i)' \in Lifecycle!Phases
  BY UndisturbedEnds DEF Calm
<1>2. PhaseOf' \in [Resources -> Lifecycle!Phases]
  BY <1>1 DEF PhaseOf
<1>3. \A i \in Resources : PhaseOf[i] = Phase(i) /\ PhaseOf'[i] = Phase(i)'
  BY DEF PhaseOf
<1>4. Lifecycle!End
  BY <1>1, <1>2, <1>3 DEF Ends, Lifecycle!End, PhaseOf
<1>5. QED
  BY <1>4 DEF Lifecycle!Next

LEMMA SamePhase ==
    ASSUME NEW i \in Resources, Held(i)' <=> Held(i),
           i \in used' <=> i \in used, i \in unclean' <=> i \in unclean,
           i \in rows' <=> i \in rows, i \in idp' <=> i \in idp, i \in pdp' <=> i \in pdp
    PROVE  Phase(i)' = Phase(i)
BY DEF Phase, Left, Whole, Gone

\* One resource goes from one phase to another.
LEMMA OneMoves ==
    ASSUME NEW i \in Resources, NEW x, Phase(i)' = x,
           \A j \in Resources \ {i} : Phase(j)' = Phase(j)
    PROVE  PhaseOf' = [PhaseOf EXCEPT ![i] = x]
<1>1. PhaseOf' = [j \in Resources |-> IF j = i THEN x ELSE Phase(j)]
  BY DEF PhaseOf
<1>2. QED
  BY <1>1 DEF PhaseOf

\* A request that has been idle takes the id i.
LEMMA FreshBegins ==
    ASSUME IInv, IInv', NEW r \in Requests, NEW i \in Resources \ used,
           req[r].pc = "idle", used' = used \union {i},
           UNCHANGED <<idp, rows, pdp, unclean>>,
           NEW q, Goto(r, q), q.id = i, q.pc \notin {"idle", "update"}
    PROVE  Lifecycle!Next
<1>1. req'[r] = q /\ \A s \in Requests \ {r} : req'[s] = req[s]
  BY DEF IInv, TypeOK, Goto
<1>2. PhasesMean /\ PhasesMean'
  BY PhasesAre, PTL
<1>3. Phase(i) = "new"
  BY <1>2 DEF PhasesMean
<1>4. Phase(i)' = "working"
  <2>1. i \in used' \ unclean'
    BY DEF IInv, TypeOK
  <2>2. Held(i)'
    BY <1>1 DEF Held
  <2>3. QED
    BY <1>2, <2>1, <2>2 DEF PhasesMean
<1>5. ASSUME NEW j \in Resources \ {i}
      PROVE  Phase(j)' = Phase(j)
  <2>1. Held(j)' <=> Held(j)
    BY <1>1 DEF Held
  <2>2. QED
    BY <2>1, SamePhase
<1>6. PhaseOf' = [PhaseOf EXCEPT ![i] = "working"] /\ PhaseOf[i] = "new"
  BY <1>3, <1>4, <1>5, OneMoves DEF PhaseOf
<1>7. QED
  BY <1>6 DEF Lifecycle!Next, Lifecycle!Begin, PhaseOf

\* A request arrives and creates nothing.
LEMMA PlainArrivalCalm ==
    ASSUME IInv, NEW r \in Requests, NEW q, Goto(r, q),
           q.id = None \/ q.pc = "update",
           UNCHANGED <<used, idp, rows, pdp, unclean>>
    PROVE  Calm
<1>1. req'[r] = q /\ \A s \in Requests \ {r} : req'[s] = req[s]
  BY DEF IInv, TypeOK, Goto
<1>2. \A i \in Resources : Held(i)' => Held(i)
  BY <1>1, ConstantsAssumption DEF Held
<1>3. QED
  BY <1>2 DEF Calm, Undisturbed

LEMMA ArrivalLifecycle ==
    ASSUME IInv, IInv', NEW r \in Requests, Arrival(r)
    PROVE  Lifecycle!Next
<1> USE DEF stores
<1>1. CASE UpdateSubmission(r)
  <2>1. PICK s \in Submissions :
           \/ /\ \E st \in {status[s], "pending", "rejected"} :
                    Goto(r, At("save", s, st, None))
              /\ UNCHANGED used
           \/ \E i \in Wanted(s) \ used :
                 /\ Goto(r, At("save", s, "approved", i))
                 /\ used' = used \union {i}
    BY <1>1 DEF UpdateSubmission
  <2>2. ASSUME NEW st, Goto(r, At("save", s, st, None)), UNCHANGED used
        PROVE  Lifecycle!Next
    <3>1. PICK q : q = At("save", s, st, None)
      OBVIOUS
    <3>2. q.id = None
      BY <3>1 DEF At
    <3>3. Calm
      BY <1>1, <2>2, <3>1, <3>2, PlainArrivalCalm DEF UpdateSubmission
    <3>4. QED
      BY <3>3, CalmEnds
  <2>3. ASSUME NEW i \in Wanted(s) \ used, Goto(r, At("save", s, "approved", i)),
               used' = used \union {i}
        PROVE  Lifecycle!Next
    <3>1. i \in Resources \ used
      BY <2>3 DEF Wanted, Resources
    <3>2. PICK q : q = At("save", s, "approved", i)
      OBVIOUS
    <3>3. q.id = i /\ q.pc \notin {"idle", "update"}
      BY <3>2 DEF At
    <3>4. QED
      BY <1>1, <2>3, <3>1, <3>2, <3>3, FreshBegins DEF UpdateSubmission
  <2>4. QED
    BY <2>1, <2>2, <2>3
<1>2. CASE Create(r)
  <2>1. PICK i \in Resources \ used :
           Goto(r, At(First(i), None, None, i)) /\ used' = used \union {i}
    BY <1>2 DEF Create
  <2>2. PICK q : q = At(First(i), None, None, i)
    OBVIOUS
  <2>3. q.id = i /\ q.pc \notin {"idle", "update"}
    BY <2>2 DEF At, First
  <2>4. QED
    BY <1>2, <2>1, <2>2, <2>3, FreshBegins DEF Create
<1>3. CASE UpdateResource(r)
  <2>1. PICK i \in rows : Goto(r, At("update", None, None, i))
    BY <1>3 DEF UpdateResource
  <2>2. PICK q : q = At("update", None, None, i)
    OBVIOUS
  <2>3. q.pc = "update"
    BY <2>2 DEF At
  <2>4. Calm
    BY <1>3, <2>1, <2>2, <2>3, PlainArrivalCalm DEF UpdateResource
  <2>5. QED
    BY <2>4, CalmEnds
<1>4. QED
  BY <1>1, <1>2, <1>3 DEF Arrival

\* A step of the request r changes its slot, and nothing but its resource.
StaysWith(r) ==
    /\ req'[r].id \in {None, req[r].id}
    /\ \A s \in Requests \ {r} : req'[s] = req[s]
    /\ used' = used /\ unclean \subseteq unclean'
    /\ \A i \in Resources \ {req[r].id} :
          /\ i \in unclean' <=> i \in unclean
          /\ i \in rows' <=> i \in rows
          /\ i \in idp' <=> i \in idp
          /\ i \in pdp' <=> i \in pdp

LEMMA SlotMoves ==
    ASSUME req \in [Requests -> Request], NEW r \in Requests,
           Finish(r) \/ Failed(r) \/ \E pc : Advance(r, pc)
    PROVE  /\ req'[r].id \in {None, req[r].id}
           /\ \A s \in Requests \ {r} : req'[s] = req[s]
<1>1. req[r] \in Request
  OBVIOUS
<1>2. ASSUME NEW pc, Advance(r, pc)
      PROVE  /\ req'[r].id = req[r].id
             /\ \A s \in Requests \ {r} : req'[s] = req[s]
  <2>1. /\ req'[r] = [req[r] EXCEPT !.pc = pc]
        /\ \A s \in Requests \ {r} : req'[s] = req[s]
    BY <1>2 DEF Advance, Goto
  <2>2. [req[r] EXCEPT !.pc = pc].id = req[r].id
    BY <1>1 DEF Request
  <2>3. QED
    BY <2>1, <2>2
<1>3. ASSUME Finish(r)
      PROVE  /\ req'[r].id = None
             /\ \A s \in Requests \ {r} : req'[s] = req[s]
  BY <1>3 DEF Finish, Goto, Idle, At
<1>4. QED
  BY <1>2, <1>3 DEF Failed

\* A step for the resource it creates, or for none, leaves the others alone.
LEMMA OwnStepCalm ==
    ASSUME IInv, NEW r \in Requests, StaysWith(r),
           req[r].pc \notin {"idle", "update"},
           req[r].id = None => UNCHANGED <<idp, rows, pdp, unclean>>
    PROVE  Calm
<1>1. ASSUME NEW i \in Resources, ~Held(i)
      PROVE  Undisturbed(i)
  <2>1. req[r].id # i
    BY <1>1 DEF Held
  <2>2. ~Held(i)'
    BY <1>1, <2>1, ConstantsAssumption DEF Held, StaysWith
  <2>3. QED
    BY <2>1, <2>2 DEF Undisturbed, StaysWith
<1>2. QED
  BY <1>1 DEF Calm, Undisturbed, StaysWith

LEMMA CreationCalm ==
    ASSUME IInv, NEW r \in Requests, Step(r), ~SaveResource(r)
    PROVE  Calm
<1> USE DEF stores
<1>1. req \in [Requests -> Request] /\ ShapeOK(req[r])
  BY DEF IInv, TypeOK, RequestsOK
<1>2. /\ req'[r].id \in {None, req[r].id}
      /\ \A s \in Requests \ {r} : req'[s] = req[s]
  <2>1. Finish(r) \/ Failed(r) \/ \E pc : Advance(r, pc)
    BY DEF Step, OwnStep, IdpStep, SaveSubmission, RevertSubmission, CreateIdpApplication,
       GetApplicationOIDC, InsertRow, CallPdp, PdpReply, Timeout, DeleteRow,
       DeleteIdpApplication, Return
  <2>2. QED
    BY <1>1, <2>1, SlotMoves
<1>3. StaysWith(r)
  BY <1>2 DEF StaysWith, Step, OwnStep, IdpStep, SaveSubmission, RevertSubmission, CreateIdpApplication,
     GetApplicationOIDC, InsertRow, CallPdp, PdpReply, Timeout, DeleteRow,
     DeleteIdpApplication, Return
<1>4. req[r].pc \notin {"idle", "update"}
  BY DEF Step, OwnStep, IdpStep, SaveSubmission, RevertSubmission, CreateIdpApplication,
     GetApplicationOIDC, InsertRow, CallPdp, PdpReply, Timeout, DeleteRow,
     DeleteIdpApplication, Return
<1>5. req[r].id = None => UNCHANGED <<idp, rows, pdp, unclean>>
  <2>1. req[r].id = None => req[r].pc \in {"save", "revert"}
    BY <1>1, <1>4, ConstantsAssumption DEF ShapeOK
  <2>2. req[r].pc \in {"save", "revert"} => SaveSubmission(r) \/ RevertSubmission(r)
    BY DEF Step, OwnStep, IdpStep, CreateIdpApplication, GetApplicationOIDC, InsertRow, CallPdp,
       PdpReply, Timeout, DeleteRow, DeleteIdpApplication, Return
  <2>3. QED
    BY <2>1, <2>2 DEF SaveSubmission, RevertSubmission
<1>6. QED
  BY <1>3, <1>4, <1>5, OwnStepCalm

\* The late save of a row: where nobody works on it any more, it was gone.
LEMMA SaveLifecycle ==
    ASSUME IInv, IInv', NEW r \in Requests, SaveResource(r)
    PROVE  Lifecycle!Next
<1>1. PICK i \in Resources : i = req[r].id /\ i \in used
  BY UsedWhileBusy DEF IInv, RequestsOK, SaveResource
<1>2. /\ req'[r] = Idle /\ \A s \in Requests \ {r} : req'[s] = req[s]
      /\ UNCHANGED <<used, idp, pdp>>
      /\ \/ UNCHANGED <<rows, unclean>>
         \/ /\ rows' = rows \union {i}
            /\ unclean' = IF i \in rows THEN unclean ELSE unclean \union {i}
  BY <1>1 DEF SaveResource, Finish, Goto, IInv, TypeOK
<1>3. \A j \in Resources : Held(j)' <=> Held(j)
  <2>1. req[r].pc = "update" /\ req'[r].pc = "idle"
    BY <1>2 DEF SaveResource, Idle, At
  <2>2. QED
    BY <1>2, <2>1 DEF Held
<1>4. CASE i \in unclean \/ Held(i) \/ i \in rows \/ UNCHANGED <<rows, unclean>>
  <2>1. ASSUME NEW j \in Resources
        PROVE  (j \in unclean => j \in unclean') /\ Undisturbed(j)
    BY <1>2, <1>3, <1>4 DEF Undisturbed
  <2>2. Calm
    BY <1>2, <2>1 DEF Calm
  <2>3. QED
    BY <2>2, CalmEnds
<1>5. CASE Left(i) /\ i \notin rows /\ ~UNCHANGED <<rows, unclean>>
  <2>1. PhasesMean /\ PhasesMean'
    BY PhasesAre, PTL
  <2>2. Phase(i) = "gone"
    BY <1>5, <2>1 DEF PhasesMean, Whole
  <2>3. Phase(i)' = "unclean"
    BY <1>2, <1>5, <2>1 DEF PhasesMean
  <2>4. \A j \in Resources \ {i} : Phase(j)' = Phase(j)
    BY <1>2, <1>3, SamePhase
  <2>5. PhaseOf' = [PhaseOf EXCEPT ![i] = "unclean"] /\ PhaseOf[i] = "gone"
    BY <2>2, <2>3, <2>4, OneMoves DEF PhaseOf
  <2>6. QED
    BY <2>5 DEF Lifecycle!Next, Lifecycle!Reappear, PhaseOf
<1>6. QED
  BY <1>1, <1>4, <1>5 DEF Left

LEMMA CrashCalm ==
    ASSUME IInv, Crash
    PROVE  Calm
<1> USE DEF stores
<1>1. \A r \in Requests : req'[r].pc = "idle"
  BY DEF Crash, Idle, At
<1>2. \A i \in Resources : ~Held(i)'
  BY <1>1 DEF Held
<1>3. \A i \in Resources : ~Held(i) => (i \in unclean' <=> i \in unclean)
  BY DEF Crash, Creating, Held
<1>4. QED
  BY <1>2, <1>3 DEF Calm, Undisturbed, Crash

LEMMA LifecycleStep ==
    ASSUME IInv, [Next]_vars
    PROVE  [Lifecycle!Next]_PhaseOf
<1> USE DEF stores
<1>1. IInv'
  BY NextPreserves
<1>2. ASSUME UNCHANGED <<used, idp, rows, req, unclean>>, pdp \subseteq pdp'
      PROVE  Lifecycle!Next
  <2>1. Calm
    BY <1>2 DEF Calm, Undisturbed, Held
  <2>2. QED
    BY <1>1, <2>1, CalmEnds
<1>3. ASSUME NEW s \in Submissions, CreateSubmission(s)
      PROVE  Lifecycle!Next
  BY <1>2, <1>3 DEF CreateSubmission
<1>4. ASSUME NEW r \in Requests, Arrival(r)
      PROVE  Lifecycle!Next
  BY <1>1, <1>4, ArrivalLifecycle
<1>5. ASSUME NEW r \in Requests, Step(r)
      PROVE  Lifecycle!Next
  BY <1>1, <1>5, CreationCalm, CalmEnds, SaveLifecycle
<1>6. ASSUME NEW i \in Resources, PdpCommits(i) \/ PdpRefuses(i)
      PROVE  Lifecycle!Next
  BY <1>2, <1>6 DEF PdpCommits, PdpRefuses
<1>7. CASE Crash
  BY <1>1, <1>7, CrashCalm, CalmEnds
<1>8. CASE UNCHANGED vars
  BY <1>2, <1>8 DEF vars
<1>9. QED
  BY <1>3, <1>4, <1>5, <1>6, <1>7, <1>8 DEF Next

\* Every step of the portal is one of ResourceLifecycle, for any number of requests
\* and resources: what is whole stays whole, and what is gone comes back only as
\* unclean.
THEOREM LifecycleRefinement == Spec => ImplementsLifecycle
<1>1. Init => Lifecycle!Init
  <2>1. ASSUME Init
        PROVE  \A i \in Resources : Phase(i) = "new"
    BY <2>1, InitEstablishes, PhasesAre DEF Init, PhasesMean
  <2>2. QED
    BY <2>1 DEF Lifecycle!Init
<1>2. IInv /\ [Next]_vars => [Lifecycle!Next]_PhaseOf
  BY LifecycleStep
<1>3. QED
  BY <1>1, <1>2, ProvisioningInvariance, PTL
  DEF Spec, ImplementsLifecycle, Lifecycle!Spec, PhaseOf
=============================================================================
