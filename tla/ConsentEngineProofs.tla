------------------------ MODULE ConsentEngineProofs ------------------------
(***************************************************************************)
(* Theorems of ConsentEngine, for any number of requests, records, owners, *)
(* e-mail addresses and applications.                                      *)
(***************************************************************************)
EXTENDS ConsentEngine, TLAPS

-----------------------------------------------------------------------------
(* The inductive invariant *)

\* What holds of every row that is stored or about to be stored at time n.
RowOK(row, n) ==
    /\ row.status = "pending" =>
          /\ row.pendingExpiresAt # None
          /\ row.grantExpiresAt = None
          /\ row.updatedBy = Nobody
    /\ row.status = "approved" =>
          /\ row.grantExpiresAt # None
          /\ row.grantExpiresAt <= n + GrantLength[row.duration]
          /\ row.pendingExpiresAt = None
          /\ row.updatedBy = row.email
    /\ row.status = "rejected" => row.updatedBy = row.email
    /\ row.status = "expired" => row.updatedBy \in {Nobody, row.email}
    /\ row.status = "revoked" => row.updatedBy \in {Revoker, Replaced}

SameIdentity(a, b) == /\ a.owner = b.owner
                      /\ a.email = b.email
                      /\ a.app = b.app
                      /\ a.fields = b.fields
                      /\ a.duration = b.duration

\* The argument of a request, and the operations that reach each step.
ArgumentOK(q) ==
    /\ q.op = "create" => q.arg \in CreateRequests
    /\ q.op = "get" => q.arg \in Lookups
    /\ q.op = "portal" => q.arg \in PortalRequests
    /\ q.pc \in {"lookup", "expire", "replied"} => q.op \in {"create", "get"}
    /\ q.pc = "revokeRead" => q.op \in {"create", "revoke"}
    /\ q.pc \in {"build", "create"} => q.op = "create"
    /\ q.pc \in {"authorize", "decide"} => q.op = "portal"
    /\ q.pc = "save" => q.op \in {"portal", "revoke"}
    /\ q.pc = "lookup" => q.row = None

\* A request holds a row it has read from the table t and will write back.
HoldsRow(q) == \/ q.pc \in {"expire", "save"}
               \/ q.pc \in {"build", "create"} /\ q.row # None

HeldRowOK(q, t, n) ==
    HoldsRow(q) =>
       /\ q.id \in Ids /\ t[q.id] # None
       /\ q.row # None
       /\ SameIdentity(q.row, t[q.id])
       /\ RowOK(q.row, n)
       /\ q.pc = "expire" => q.row.status = "expired"
       /\ q.pc \in {"build", "create"} =>
             q.row.status = "revoked" /\ q.row.updatedBy = Replaced
       /\ q.pc = "save" => q.row.status # "pending"
       /\ q.pc \in {"expire", "save"} => q.row.updatedBy # Replaced

\* A create request that has found a row found one of its owner and application.
FoundRowOK(q, t) ==
    /\ q.pc \in {"authorize", "decide", "revokeRead"} => q.id \in Ids
    /\ q.op = "create" /\ (HoldsRow(q) \/ q.pc = "revokeRead") =>
          /\ t[q.id] # None
          /\ t[q.id].owner = q.arg.owner
          /\ t[q.id].app = q.arg.app
    /\ q.pc = "decide" => t[q.id] # None /\ t[q.id].email = q.arg.user

\* A create request about to insert holds a fresh key and a pending row.
NewRowOK(q, t, l, n) ==
    q.pc = "create" =>
       /\ q.newId \in 1 .. l
       /\ t[q.newId] = None
       /\ q.new \in Consent
       /\ q.new.status = "pending"
       /\ RowOK(q.new, n)
       /\ q.new.owner = q.arg.owner
       /\ q.new.app = q.arg.app
       /\ q.new.fields = q.arg.fields
       /\ q.row # None => q.id < q.newId

AnswerOK(q) ==
    q.pc = "replied" =>
       /\ q.row # None
       /\ q.op = "create" => /\ Active(q.row)
                             /\ q.row.fields = q.arg.fields
                             /\ q.row.owner = q.arg.owner
                             /\ q.row.app = q.arg.app

RequestOK(q, t, l, n) == /\ ArgumentOK(q)
                         /\ HeldRowOK(q, t, n)
                         /\ FoundRowOK(q, t)
                         /\ NewRowOK(q, t, l, n)
                         /\ AnswerOK(q)

RowsOK == \A id \in Stored : id <= lastId /\ RowOK(table[id], now)

RequestsOK == \A r \in Requests : RequestOK(req[r], table, lastId, now)

FreshKeysDistinct ==
    \A r, s \in Requests :
       r # s /\ req[r].pc = "create" /\ req[s].pc = "create"
       => req[r].newId # req[s].newId

IInv == /\ TypeOK
        /\ RowsOK
        /\ RequestsOK
        /\ FreshKeysDistinct
        /\ ActiveRowsDistinct
        /\ ReplacedHasSuccessor
\* Rows only appear and keep their identity; keys and time only grow.
Grows(t, u) == \A id \in Ids : t[id] # None => u[id] # None /\ SameIdentity(u[id], t[id])

-----------------------------------------------------------------------------
(* A request that does not move stays well formed while others do *)

\* What a request holds stays right while the table, the keys and time grow and
\* nobody stores a row under its fresh key.
LEMMA RequestStable ==
    ASSUME NEW q \in Request,
           NEW t \in [Ids -> Consent \union {None}], NEW u \in [Ids -> Consent \union {None}],
           NEW l \in Nat, NEW m \in Nat, l <= m,
           NEW n \in Nat, NEW k \in Nat, n <= k,
           Grows(t, u),
           q.pc = "create" => u[q.newId] = None,
           RequestOK(q, t, l, n)
    PROVE  RequestOK(q, u, m, k)
<1>1. ASSUME NEW row \in Consent, RowOK(row, n)
      PROVE  RowOK(row, k)
  BY <1>1, ConstantsAssumption DEF RowOK, Consent, Time
<1>2. HeldRowOK(q, u, k)
  BY <1>1 DEF RequestOK, HeldRowOK, HoldsRow, Grows, SameIdentity, Request
<1>3. FoundRowOK(q, u)
  BY DEF RequestOK, FoundRowOK, HeldRowOK, HoldsRow, Grows, SameIdentity
<1>4. NewRowOK(q, u, m, k)
  BY <1>1 DEF RequestOK, NewRowOK
<1>5. QED
  BY <1>2, <1>3, <1>4 DEF RequestOK

\* A step of request r to state x, whatever it writes, keeps every request well
\* formed if x is and if it leaves the fresh keys of the others alone.
LEMMA RequestMoves ==
    ASSUME TypeOK, RequestsOK, FreshKeysDistinct,
           NEW r \in Requests, NEW x \in Request,
           Goto(r, x),
           table' \in [Ids -> Consent \union {None}],
           lastId' \in 0 .. MaxRecords, lastId <= lastId',
           now' \in 0 .. MaxTime, now <= now',
           Grows(table, table'),
           \A s \in Requests \ {r} :
              req[s].pc = "create" => /\ table'[req[s].newId] = None
                                      /\ x.pc = "create" => x.newId # req[s].newId,
           RequestOK(x, table', lastId', now')
    PROVE  TypeOK' /\ RequestsOK' /\ FreshKeysDistinct'
<1>1. req' \in [Requests -> Request]
  BY DEF TypeOK, Goto
<1>2. TypeOK'
  BY <1>1 DEF TypeOK
<1>3. ASSUME NEW s \in Requests
      PROVE  RequestOK(req'[s], table', lastId', now')
  <2>1. CASE s = r
    BY <2>1 DEF Goto, TypeOK
  <2>2. CASE s # r
    <3>1. req'[s] = req[s] /\ req[s] \in Request
      BY <2>2 DEF Goto, TypeOK
    <3>2. RequestOK(req[s], table, lastId, now)
      BY DEF RequestsOK
    <3>3. lastId \in Nat /\ lastId' \in Nat /\ now \in Nat /\ now' \in Nat
      BY ConstantsAssumption DEF TypeOK
    <3>4. req[s].pc = "create" => table'[req[s].newId] = None
      BY <2>2
    <3>5. table \in [Ids -> Consent \union {None}]
      BY DEF TypeOK
    <3>6. RequestOK(req[s], table', lastId', now')
      BY <3>1, <3>2, <3>3, <3>4, <3>5, RequestStable
    <3>7. QED
      BY <3>1, <3>6
  <2>3. QED
    BY <2>1, <2>2
<1>4. FreshKeysDistinct'
  BY DEF FreshKeysDistinct, Goto, TypeOK
<1>5. QED
  BY <1>2, <1>3, <1>4 DEF RequestsOK

-----------------------------------------------------------------------------
(* One lemma per kind of step *)

Grounds == TypeOK /\ RowsOK /\ RequestsOK /\ FreshKeysDistinct
Kept == TypeOK' /\ RequestsOK' /\ FreshKeysDistinct'

\* The facts every step starts from.
LEMMA Basics ==
    ASSUME Grounds
    PROVE  /\ table \in [Ids -> Consent \union {None}]
           /\ lastId \in 0 .. MaxRecords /\ lastId \in Nat
           /\ now \in 0 .. MaxTime /\ now \in Nat
           /\ \A r \in Requests : req[r] \in Request /\ RequestOK(req[r], table, lastId, now)
           /\ \A s \in Requests : req[s].pc = "create" => table[req[s].newId] = None
           /\ \A id \in Stored : RowOK(table[id], now) /\ id <= lastId
BY ConstantsAssumption DEF Grounds, TypeOK, RequestsOK, RequestOK, NewRowOK, RowsOK

\* A step of r that writes nothing and does not end up ready to insert.
LEMMA QuietStep ==
    ASSUME Grounds, NEW r \in Requests, NEW x \in Request,
           Goto(r, x), UNCHANGED <<table, lastId, now>>,
           x.pc # "create",
           RequestOK(x, table, lastId, now)
    PROVE  Kept
<1>1. Grows(table, table')
  BY DEF Grows, SameIdentity
<1>2. \A s \in Requests : req[s].pc = "create" => table'[req[s].newId] = None
  BY Basics
<1>3. /\ table' \in [Ids -> Consent \union {None}]
      /\ lastId' \in 0 .. MaxRecords /\ lastId <= lastId'
      /\ now' \in 0 .. MaxTime /\ now <= now'
  BY Basics
<1>4. RequestOK(x, table', lastId', now')
  OBVIOUS
<1>5. QED
  BY <1>1, <1>2, <1>3, <1>4, RequestMoves DEF Grounds, Kept

LEMMA IdleOK == Idle \in Request /\ RequestOK(Idle, table, lastId, now)
BY ConstantsAssumption DEF Idle, At, Request, RequestOK, ArgumentOK, HeldRowOK, HoldsRow,
   FoundRowOK, NewRowOK, AnswerOK

\* A request gives up, or has been answered.
LEMMA FinishStep ==
    ASSUME Grounds, NEW r \in Requests, Finish(r), UNCHANGED <<table, lastId, now>>
    PROVE  Kept
BY IdleOK, QuietStep DEF Finish, Idle, At

LEMMA ArrivalStep ==
    ASSUME Grounds, NEW r \in Requests, Arrival(r)
    PROVE  Kept
<1> USE Basics, ConstantsAssumption
<1>1. ASSUME NEW c \in CreateRequests, Arrive(r, "create", "lookup", c, 0)
      PROVE  Kept
  <2> DEFINE x == At("lookup", "create", c, 0, None)
  <2>1. x \in Request
    BY DEF At, Request
  <2>2. RequestOK(x, table, lastId, now)
    BY DEF At, RequestOK, ArgumentOK, HeldRowOK, HoldsRow, FoundRowOK, NewRowOK, AnswerOK
  <2>3. QED
    BY <1>1, <2>1, <2>2, QuietStep DEF Arrive, At
<1>2. ASSUME NEW q \in Lookups, Arrive(r, "get", "lookup", q, 0)
      PROVE  Kept
  <2> DEFINE x == At("lookup", "get", q, 0, None)
  <2>1. x \in Request
    BY DEF At, Request
  <2>2. RequestOK(x, table, lastId, now)
    BY DEF At, RequestOK, ArgumentOK, HeldRowOK, HoldsRow, FoundRowOK, NewRowOK, AnswerOK
  <2>3. QED
    BY <1>2, <2>1, <2>2, QuietStep DEF Arrive, At
<1>3. ASSUME NEW id \in 1 .. lastId, NEW a \in PortalRequests,
             Arrive(r, "portal", "authorize", a, id)
      PROVE  Kept
  <2> DEFINE x == At("authorize", "portal", a, id, None)
  <2>1. x \in Request /\ id \in Ids
    BY DEF At, Request, Ids
  <2>2. RequestOK(x, table, lastId, now)
    BY <2>1 DEF At, RequestOK, ArgumentOK, HeldRowOK, HoldsRow, FoundRowOK, NewRowOK, AnswerOK
  <2>3. QED
    BY <1>3, <2>1, <2>2, QuietStep DEF Arrive, At
<1>4. ASSUME NEW id \in 1 .. lastId, Arrive(r, "revoke", "revokeRead", None, id)
      PROVE  Kept
  <2> DEFINE x == At("revokeRead", "revoke", None, id, None)
  <2>1. x \in Request /\ id \in Ids
    BY DEF At, Request, Ids
  <2>2. RequestOK(x, table, lastId, now)
    BY <2>1 DEF At, RequestOK, ArgumentOK, HeldRowOK, HoldsRow, FoundRowOK, NewRowOK, AnswerOK
  <2>3. QED
    BY <1>4, <2>1, <2>2, QuietStep DEF Arrive, At
<1>5. QED
  BY <1>1, <1>2, <1>3, <1>4 DEF Arrival, PostConsent, GetConsent, PutConsent, RevokeConsent

\* The view of a stored row (or of its expired copy) leads to a well-formed state.
LEMMA ViewedOK ==
    ASSUME NEW q \in Request, q.op \in {"create", "get"}, ArgumentOK(q),
           NEW id \in Ids, NEW row \in Consent,
           NEW t \in [Ids -> Consent \union {None}], t[id] # None,
           NEW l \in Nat, NEW n \in Nat,
           q.op = "create" => /\ row.owner = q.arg.owner /\ row.app = q.arg.app
                              /\ t[id].owner = q.arg.owner /\ t[id].app = q.arg.app
    PROVE  /\ Viewed(q, id, row) \in Request
           /\ Viewed(q, id, row).pc # "create"
           /\ RequestOK(Viewed(q, id, row), t, l, n)
<1> USE ConstantsAssumption
<1>1. CASE q.op = "get" \/ (Active(row) /\ row.fields = q.arg.fields)
  <2> DEFINE x == At("replied", q.op, q.arg, id, row)
  <2>1. Viewed(q, id, row) = x
    BY <1>1 DEF Viewed
  <2>2. x \in Request /\ x.pc # "create"
    BY DEF At, Request, Ids
  <2>3. RequestOK(x, t, l, n)
    BY <1>1 DEF At, RequestOK, ArgumentOK, HeldRowOK, HoldsRow, FoundRowOK, NewRowOK, AnswerOK
  <2>4. QED
    BY <2>1, <2>2, <2>3
<1>2. CASE q.op # "get" /\ Active(row) /\ row.fields # q.arg.fields
  <2> DEFINE x == At("revokeRead", q.op, q.arg, id, None)
  <2>1. Viewed(q, id, row) = x
    BY <1>2 DEF Viewed
  <2>2. x \in Request /\ x.pc # "create"
    BY DEF At, Request, Ids
  <2>3. RequestOK(x, t, l, n)
    BY <1>2 DEF At, RequestOK, ArgumentOK, HeldRowOK, HoldsRow, FoundRowOK, NewRowOK, AnswerOK
  <2>4. QED
    BY <2>1, <2>2, <2>3
<1>3. CASE q.op # "get" /\ ~Active(row)
  <2> DEFINE x == At("build", q.op, q.arg, 0, None)
  <2>1. Viewed(q, id, row) = x
    BY <1>3 DEF Viewed
  <2>2. x \in Request /\ x.pc # "create"
    BY DEF At, Request, Ids
  <2>3. RequestOK(x, t, l, n)
    BY <1>3 DEF At, RequestOK, ArgumentOK, HeldRowOK, HoldsRow, FoundRowOK, NewRowOK, AnswerOK
  <2>4. QED
    BY <2>1, <2>2, <2>3
<1>4. QED
  BY <1>1, <1>2, <1>3

LEMMA LookupStep ==
    ASSUME Grounds, NEW r \in Requests, Lookup(r)
    PROVE  Kept
<1> DEFINE q == req[r]
           found == Matching(QueryOf(q))
<1>1. /\ q \in Request /\ q.pc = "lookup" /\ q.op \in {"create", "get"} /\ ArgumentOK(q)
      /\ UNCHANGED <<table, lastId, now>>
      /\ q.op = "create" => q.arg \in CreateRequests
  BY Basics DEF Lookup, RequestOK, ArgumentOK
<1>2. CASE found = {} /\ q.op = "create" /\ Goto(r, At("build", q.op, q.arg, 0, None))
  <2> DEFINE x == At("build", q.op, q.arg, 0, None)
  <2>1. x \in Request /\ x.pc # "create"
    BY <1>1, ConstantsAssumption DEF At, Request
  <2>2. RequestOK(x, table, lastId, now)
    BY <1>1, <1>2 DEF At, RequestOK, ArgumentOK, HeldRowOK, HoldsRow, FoundRowOK, NewRowOK, AnswerOK
  <2>3. QED
    BY <1>1, <1>2, <2>1, <2>2, QuietStep
<1>3. CASE Finish(r)
  BY <1>1, <1>3, FinishStep
<1>4. ASSUME NEW id \in found
      PROVE  /\ id \in Ids /\ table[id] \in Consent /\ table[id] # None
             /\ q.op = "create" => /\ table[id].owner = q.arg.owner
                                   /\ table[id].app = q.arg.app
  BY <1>1, Basics, ConstantsAssumption DEF Matching, QueryOf
<1>5. ASSUME NEW id \in found, Lapsed(table[id]),
             Goto(r, At("expire", q.op, q.arg, id, [table[id] EXCEPT !.status = "expired"]))
      PROVE  Kept
  <2> DEFINE row == [table[id] EXCEPT !.status = "expired"]
             x == At("expire", q.op, q.arg, id, row)
  <2>1. /\ row \in Consent /\ row # None /\ row.status = "expired"
        /\ SameIdentity(row, table[id])
        /\ row.updatedBy = table[id].updatedBy
        /\ row.owner = table[id].owner /\ row.app = table[id].app
        /\ row.email = table[id].email
    BY <1>4, <1>5, ConstantsAssumption DEF Consent, SameIdentity, Statuses
  <2>2. row.updatedBy # Replaced /\ row.updatedBy \in {Nobody, row.email}
    <3>1. RowOK(table[id], now) /\ Active(table[id])
      BY <1>4, <1>5, Basics DEF Lapsed, Active, Stored
    <3>2. table[id].email # Replaced
      BY <1>4, ConstantsAssumption DEF Consent
    <3>3. Nobody # Replaced
      BY DEF Nobody, Replaced
    <3>4. QED
      BY <2>1, <3>1, <3>2, <3>3 DEF RowOK, Active
  <2>3. RowOK(row, now)
    BY <2>1, <2>2 DEF RowOK
  <2>4. x \in Request /\ x.pc # "create"
    BY <1>1, <1>4, <2>1, ConstantsAssumption DEF At, Request, Ids
  <2>5. RequestOK(x, table, lastId, now)
    BY <1>1, <1>4, <2>1, <2>2, <2>3
       DEF At, RequestOK, ArgumentOK, HeldRowOK, HoldsRow, FoundRowOK, NewRowOK, AnswerOK
  <2>6. QED
    BY <1>1, <1>5, <2>4, <2>5, QuietStep
<1>6. ASSUME NEW id \in found, Goto(r, Viewed(q, id, table[id]))
      PROVE  Kept
  BY <1>1, <1>4, <1>6, Basics, ViewedOK, QuietStep
<1>7. QED
  BY <1>1, <1>2, <1>3, <1>5, <1>6 DEF Lookup

LEMMA RevokeReadStep ==
    ASSUME Grounds, NEW r \in Requests, RevokeRead(r)
    PROVE  Kept
<1> DEFINE q == req[r]
           by == IF q.op = "create" THEN Replaced ELSE Revoker
           next == IF q.op = "create" THEN "build" ELSE "save"
           row == [table[q.id] EXCEPT !.status = "revoked", !.updatedBy = by]
           x == At(next, q.op, q.arg, q.id, row)
<1>1. /\ q \in Request /\ q.pc = "revokeRead" /\ q.op \in {"create", "revoke"}
      /\ q.id \in Ids /\ RequestOK(q, table, lastId, now)
      /\ UNCHANGED <<table, lastId, now>>
  BY Basics DEF RevokeRead, RequestOK, ArgumentOK, FoundRowOK
<1>2. CASE Finish(r)
  BY <1>1, <1>2, FinishStep
<1>3. CASE table[q.id] # None /\ Active(table[q.id]) /\ Goto(r, x)
  <2>1. table[q.id] \in Consent
    BY <1>1, <1>3, Basics
  <2>2. /\ row \in Consent /\ row # None /\ row.status = "revoked" /\ row.updatedBy = by
        /\ SameIdentity(row, table[q.id])
        /\ row.owner = table[q.id].owner /\ row.app = table[q.id].app
    BY <2>1, ConstantsAssumption DEF Consent, SameIdentity, Statuses
  <2>3. q.op # "create" => row.updatedBy # Replaced
    BY <2>2 DEF Replaced, Revoker
  <2>4. RowOK(row, now)
    BY <2>2 DEF RowOK
  <2>5. x \in Request /\ x.pc # "create"
    BY <1>1, <2>2, ConstantsAssumption DEF At, Request, Ids
  <2>6. RequestOK(x, table, lastId, now)
    BY <1>1, <1>3, <2>2, <2>3, <2>4
       DEF At, RequestOK, ArgumentOK, HeldRowOK, HoldsRow, FoundRowOK, NewRowOK, AnswerOK
  <2>7. QED
    BY <1>1, <1>3, <2>5, <2>6, QuietStep
<1>4. QED
  BY <1>2, <1>3 DEF RevokeRead

LEMMA AuthorizeStep ==
    ASSUME Grounds, NEW r \in Requests, Authorize(r)
    PROVE  Kept
<1> DEFINE q == req[r]
           x == At("decide", q.op, q.arg, q.id, None)
<1>1. /\ q \in Request /\ q.op = "portal" /\ q.id \in Ids /\ ArgumentOK(q)
      /\ UNCHANGED <<table, lastId, now>>
  BY Basics DEF Authorize, RequestOK, ArgumentOK, FoundRowOK
<1>2. CASE Finish(r)
  BY <1>1, <1>2, FinishStep
<1>3. CASE table[q.id] # None /\ table[q.id].email = q.arg.user /\ Goto(r, x)
  <2>1. x \in Request /\ x.pc # "create"
    BY <1>1, ConstantsAssumption DEF At, Request
  <2>2. RequestOK(x, table, lastId, now)
    BY <1>1, <1>3
       DEF At, RequestOK, ArgumentOK, HeldRowOK, HoldsRow, FoundRowOK, NewRowOK, AnswerOK
  <2>3. QED
    BY <1>1, <1>3, <2>1, <2>2, QuietStep
<1>4. QED
  BY <1>2, <1>3 DEF Authorize

LEMMA DecideStep ==
    ASSUME Grounds, NEW r \in Requests, Decide(r)
    PROVE  Kept
<1> DEFINE q == req[r]
           row == Decided(table[q.id], q.arg)
           x == At("save", q.op, q.arg, q.id, row)
<1>1. /\ q \in Request /\ q.op = "portal" /\ q.id \in Ids /\ q.arg \in PortalRequests
      /\ table[q.id] # None /\ table[q.id].email = q.arg.user
      /\ UNCHANGED <<table, lastId, now>>
  BY Basics DEF Decide, RequestOK, ArgumentOK, FoundRowOK
<1>2. Goto(r, x)
  BY <1>1 DEF Decide
<1>3. /\ table[q.id] \in Consent
      /\ q.arg.user \in Emails /\ q.arg.user # Replaced
      /\ table[q.id].duration \in GrantDurations
      /\ GrantLength[table[q.id].duration] \in Nat
  BY <1>1, Basics, ConstantsAssumption DEF Consent
<1>4. now + GrantLength[table[q.id].duration] \in Nat
  BY <1>3, Basics
<1>5. /\ row \in Consent /\ row # None /\ row.status \in {"approved", "rejected"}
      /\ SameIdentity(row, table[q.id]) /\ row.updatedBy = q.arg.user
  <2>1. CASE q.arg.action = "approve"
    <3>1. row = [table[q.id] EXCEPT !.status = "approved", !.updatedBy = q.arg.user,
                    !.grantExpiresAt = now + GrantLength[table[q.id].duration],
                    !.pendingExpiresAt = None]
      BY <2>1 DEF Decided
    <3>2. row \in Consent
      <4>1. now + GrantLength[table[q.id].duration] \in Time /\ None \in Time /\ "approved" \in Statuses
        BY <1>4 DEF Time, Statuses
      <4>2. QED
        BY <1>3, <3>1, <4>1 DEF Consent
    <3>3. row.status = "approved" /\ row.updatedBy = q.arg.user /\ SameIdentity(row, table[q.id])
      BY <1>3, <3>1 DEF Consent, SameIdentity
    <3>4. QED
      BY <3>2, <3>3, ConstantsAssumption
  <2>2. CASE q.arg.action # "approve"
    <3>1. row = [table[q.id] EXCEPT !.status = "rejected", !.updatedBy = q.arg.user,
                    !.pendingExpiresAt = None]
      BY <2>2 DEF Decided
    <3>2. row \in Consent
      <4>1. None \in Time /\ "rejected" \in Statuses
        BY DEF Time, Statuses
      <4>2. QED
        BY <1>3, <3>1, <4>1 DEF Consent
    <3>3. row.status = "rejected" /\ row.updatedBy = q.arg.user /\ SameIdentity(row, table[q.id])
      BY <1>3, <3>1 DEF Consent, SameIdentity
    <3>4. QED
      BY <3>2, <3>3, ConstantsAssumption
  <2>3. QED
    BY <2>1, <2>2
<1>6. row.status = "approved" =>
         /\ row.grantExpiresAt = now + GrantLength[table[q.id].duration]
         /\ row.pendingExpiresAt = None
  BY <1>3 DEF Decided, Consent
<1>7. RowOK(row, now)
  BY <1>1, <1>3, <1>4, <1>5, <1>6, ConstantsAssumption DEF RowOK, SameIdentity
<1>8. x \in Request /\ x.pc # "create"
  BY <1>1, <1>5, ConstantsAssumption DEF At, Request, Ids
<1>9. RequestOK(x, table, lastId, now)
  BY <1>1, <1>3, <1>5, <1>7
     DEF At, RequestOK, ArgumentOK, HeldRowOK, HoldsRow, FoundRowOK, NewRowOK, AnswerOK
<1>10. QED
  BY <1>1, <1>2, <1>8, <1>9, QuietStep

LEMMA BuildStep ==
    ASSUME Grounds, NEW r \in Requests, BuildConsent(r)
    PROVE  Kept
<1> DEFINE q == req[r]
           new == NewConsent(q.arg)
           x == [q EXCEPT !.pc = "create", !.newId = lastId + 1, !.new = new]
<1>1. /\ q \in Request /\ q.pc = "build" /\ q.op = "create" /\ q.arg \in CreateRequests
      /\ RequestOK(q, table, lastId, now)
      /\ lastId < MaxRecords /\ lastId' = lastId + 1
      /\ Goto(r, x) /\ table' = table /\ now' = now
  BY Basics DEF BuildConsent, RequestOK, ArgumentOK
<1>2. /\ lastId + 1 \in Ids /\ lastId + 1 \in 0 .. MaxRecords
      /\ lastId' \in 0 .. MaxRecords /\ lastId <= lastId' /\ lastId' \in Nat
  BY <1>1, Basics, ConstantsAssumption DEF Ids
<1>3. table[lastId + 1] = None
  BY <1>2, Basics DEF Stored
<1>4. now + PendingTimeout[q.arg.type] \in Nat
  BY <1>1, Basics, ConstantsAssumption
<1>5. /\ new \in Consent /\ new.status = "pending" /\ RowOK(new, now)
      /\ new.owner = q.arg.owner /\ new.app = q.arg.app /\ new.fields = q.arg.fields
  BY <1>1, <1>4, ConstantsAssumption DEF NewConsent, Consent, Statuses, Time, RowOK
<1>6. /\ x \in Request
      /\ x.pc = "create" /\ x.op = q.op /\ x.arg = q.arg /\ x.id = q.id /\ x.row = q.row
      /\ x.newId = lastId + 1 /\ x.new = new
  BY <1>1, <1>2, <1>5 DEF Request
<1>7. ArgumentOK(x) /\ AnswerOK(x)
  BY <1>1, <1>6 DEF ArgumentOK, AnswerOK
<1>8. HeldRowOK(x, table, now) /\ FoundRowOK(x, table)
  BY <1>1, <1>6 DEF RequestOK, HeldRowOK, HoldsRow, FoundRowOK
<1>9. x.row # None => x.id < x.newId
  <2>1. ASSUME q.row # None
        PROVE  q.id \in Ids /\ table[q.id] # None
    BY <1>1, <2>1 DEF RequestOK, HeldRowOK, HoldsRow
  <2>2. QED
    BY <1>6, <2>1, Basics, ConstantsAssumption DEF Stored, Ids
<1>10. NewRowOK(x, table, lastId + 1, now)
  BY <1>2, <1>3, <1>5, <1>6, <1>9, Basics DEF NewRowOK
<1>11. RequestOK(x, table', lastId', now')
  BY <1>1, <1>7, <1>8, <1>10 DEF RequestOK
<1>12. Grows(table, table')
  BY <1>1 DEF Grows, SameIdentity
<1>13. \A s \in Requests \ {r} :
          req[s].pc = "create" => table'[req[s].newId] = None /\ x.newId # req[s].newId
  BY <1>1, <1>6, Basics DEF RequestOK, NewRowOK
<1>14. table' \in [Ids -> Consent \union {None}] /\ now' \in 0 .. MaxTime /\ now <= now'
  BY <1>1, Basics
<1>15. QED
  BY <1>1, <1>2, <1>6, <1>11, <1>12, <1>13, <1>14, RequestMoves DEF Grounds, Kept

LEMMA TickStep ==
    ASSUME Grounds, Tick
    PROVE  Kept /\ RowsOK'
<1>1. /\ table' = table /\ lastId' = lastId /\ req' = req
      /\ now' \in 0 .. MaxTime /\ now' \in Nat /\ now <= now'
  BY Basics, ConstantsAssumption DEF Tick
<1>2. TypeOK'
  BY <1>1 DEF Grounds, TypeOK
<1>3. ASSUME NEW s \in Requests
      PROVE  RequestOK(req[s], table, lastId, now')
  <2>1. Grows(table, table)
    BY DEF Grows, SameIdentity
  <2>2. QED
    BY <1>1, <2>1, Basics, RequestStable
<1>4. RowsOK'
  <2>1. \A id \in Stored : RowOK(table[id], now')
    BY <1>1, Basics, ConstantsAssumption DEF RowOK, Stored, Consent, Time
  <2>2. QED
    BY <1>1, <2>1, Basics DEF RowsOK, Stored
<1>5. QED
  BY <1>1, <1>2, <1>3, <1>4 DEF Kept, RequestsOK, FreshKeysDistinct, Grounds

-----------------------------------------------------------------------------
(* Steps that write *)

\* The row of a request that saves it under its own key.
LEMMA SaveStep ==
    ASSUME Grounds, ActiveRowsDistinct, ReplacedHasSuccessor,
           NEW r \in Requests, req[r].pc \in {"expire", "save"},
           IndexAllows(table, req[r].id, req[r].row),
           table' = [table EXCEPT ![req[r].id] = req[r].row],
           UNCHANGED <<lastId, now>>,
           NEW x \in Request, x.pc # "create", Goto(r, x),
           RequestOK(x, table', lastId, now)
    PROVE  Kept /\ RowsOK' /\ ActiveRowsDistinct' /\ ReplacedHasSuccessor'
<1> DEFINE q == req[r]
<1>1. /\ q \in Request /\ q.id \in Ids /\ table[q.id] # None /\ q.row # None
      /\ q.row \in Consent
      /\ SameIdentity(q.row, table[q.id]) /\ RowOK(q.row, now) /\ q.row.updatedBy # Replaced
  BY Basics DEF RequestOK, HeldRowOK, HoldsRow, Request
<1>2. /\ table' \in [Ids -> Consent \union {None}]
      /\ table'[q.id] = q.row
      /\ \A id \in Ids : id # q.id => table'[id] = table[id]
  BY <1>1, Basics
<1>3. Grows(table, table')
  BY <1>1, <1>2 DEF Grows, SameIdentity
<1>4. \A s \in Requests : req[s].pc = "create" => table'[req[s].newId] = None
  <2>1. ASSUME NEW s \in Requests, req[s].pc = "create"
        PROVE  req[s].newId \in Ids /\ table[req[s].newId] = None
    BY <2>1, Basics, ConstantsAssumption DEF RequestOK, NewRowOK, Ids
  <2>2. QED
    BY <1>1, <1>2, <2>1
<1>5. Kept
  <2>1. /\ lastId' \in 0 .. MaxRecords /\ lastId <= lastId'
        /\ now' \in 0 .. MaxTime /\ now <= now'
        /\ RequestOK(x, table', lastId', now')
    BY Basics
  <2>2. QED
    BY <1>2, <1>3, <1>4, <2>1, RequestMoves DEF Grounds, Kept
<1>6. Stored' = Stored
  BY <1>1, <1>2 DEF Stored
<1>7. RowsOK'
  BY <1>1, <1>2, <1>6, Basics DEF RowsOK
<1>8. ActiveRowsDistinct'
  <2>1. ASSUME NEW a \in Stored, NEW b \in Stored, a # b, Active(table'[a])
        PROVE  ~SameIndexKey(table'[a], table'[b])
    BY <1>1, <1>2, <2>1 DEF ActiveRowsDistinct, IndexAllows, Stored, SameIndexKey, Active
  <2>2. QED
    BY <1>6, <2>1 DEF ActiveRowsDistinct, Active, SameIndexKey
<1>9. ReplacedHasSuccessor'
  <2>1. ASSUME NEW id \in Stored, table'[id].updatedBy = Replaced
        PROVE  \E newer \in Stored : /\ newer > id
                                      /\ table'[newer].owner = table'[id].owner
                                      /\ table'[newer].app = table'[id].app
    <3>1. id # q.id /\ table'[id] = table[id]
      BY <1>1, <1>2, <2>1 DEF Stored
    <3>2. PICK newer \in Stored : /\ newer > id
                                  /\ table[newer].owner = table[id].owner
                                  /\ table[newer].app = table[id].app
      BY <2>1, <3>1 DEF ReplacedHasSuccessor
    <3>3. table'[newer].owner = table[newer].owner /\ table'[newer].app = table[newer].app
      BY <1>3, <3>2 DEF Grows, SameIdentity, Stored
    <3>4. QED
      BY <3>1, <3>2, <3>3
  <2>2. QED
    BY <1>6, <2>1 DEF ReplacedHasSuccessor
<1>10. QED
  BY <1>5, <1>7, <1>8, <1>9

\* The table in which the row that q replaces, if any, is revoked.
Base(q) == IF q.row = None THEN table ELSE [table EXCEPT ![q.id] = q.row]

\* A create request inserts its new row over that table.
LEMMA CreateStep ==
    ASSUME Grounds, ActiveRowsDistinct, ReplacedHasSuccessor,
           NEW r \in Requests, req[r].pc = "create",
           IndexAllows(Base(req[r]), req[r].newId, req[r].new),
           table' = [Base(req[r]) EXCEPT ![req[r].newId] = req[r].new],
           UNCHANGED <<lastId, now>>,
           Reply(r, req[r].newId, req[r].new)
    PROVE  Kept /\ RowsOK' /\ ActiveRowsDistinct' /\ ReplacedHasSuccessor'
<1> DEFINE q == req[r]
           n == q.newId
           t == Base(q)
           x == At("replied", q.op, q.arg, n, q.new)
<1>1. /\ q \in Request /\ q.op = "create" /\ q.arg \in CreateRequests
      /\ n \in Ids /\ n <= lastId /\ table[n] = None
      /\ q.new \in Consent /\ q.new # None /\ q.new.status = "pending"
      /\ RowOK(q.new, now) /\ q.new.updatedBy = Nobody
      /\ q.new.owner = q.arg.owner /\ q.new.app = q.arg.app /\ q.new.fields = q.arg.fields
  BY Basics, ConstantsAssumption DEF RequestOK, ArgumentOK, NewRowOK, RowOK, Ids
<1>2. q.row # None =>
         /\ q.id \in Ids /\ table[q.id] # None /\ q.id < n
         /\ q.row \in Consent /\ q.row.status = "revoked"
         /\ SameIdentity(q.row, table[q.id]) /\ RowOK(q.row, now)
         /\ q.row.owner = q.arg.owner /\ q.row.app = q.arg.app
  <2>1. q \in Request /\ RequestOK(q, table, lastId, now)
    BY Basics
  <2>2. q.row \in Consent \union {None}
    BY <2>1 DEF Request
  <2>3. QED
    BY <1>1, <2>1, <2>2 DEF RequestOK, HeldRowOK, HoldsRow, FoundRowOK, NewRowOK, SameIdentity
<1>3. /\ t \in [Ids -> Consent \union {None}]
      /\ \A id \in Ids : t[id] = table[id] \/ (id = q.id /\ t[id] = q.row /\ q.row # None)
  BY <1>2, Basics DEF Base
<1>4. /\ table' \in [Ids -> Consent \union {None}]
      /\ table'[n] = q.new
      /\ \A id \in Ids : id # n => table'[id] = t[id]
  BY <1>1, <1>3
<1>5. Grows(table, table')
  BY <1>1, <1>2, <1>3, <1>4 DEF Grows, SameIdentity
<1>6. \A s \in Requests \ {r} : req[s].pc = "create" => table'[req[s].newId] = None
  <2>1. ASSUME NEW s \in Requests \ {r}, req[s].pc = "create"
        PROVE  req[s].newId \in Ids /\ table[req[s].newId] = None /\ req[s].newId # n
    BY <2>1, Basics, ConstantsAssumption DEF RequestOK, NewRowOK, Ids, Grounds, FreshKeysDistinct
  <2>2. QED
    BY <1>2, <1>3, <1>4, <2>1
<1>7. x \in Request /\ x.pc # "create" /\ Goto(r, x)
  BY <1>1, ConstantsAssumption DEF At, Request, Ids, Reply
<1>8. RequestOK(x, table', lastId', now')
  BY <1>1 DEF At, RequestOK, ArgumentOK, HeldRowOK, HoldsRow, FoundRowOK, NewRowOK, AnswerOK, Active
<1>9. Kept
  <2>1. /\ lastId' \in 0 .. MaxRecords /\ lastId <= lastId'
        /\ now' \in 0 .. MaxTime /\ now <= now'
    BY Basics
  <2>2. QED
    BY <1>4, <1>5, <1>6, <1>7, <1>8, <2>1, RequestMoves DEF Grounds, Kept
<1>10. /\ n \in Stored' /\ Stored' = Stored \union {n}
       /\ \A id \in Stored : id # n /\ table[id] \in Consent
  BY <1>1, <1>2, <1>3, <1>4, Basics DEF Stored
<1>11. RowsOK'
  <2>1. n <= lastId /\ RowOK(table'[n], now)
    BY <1>1, <1>4
  <2>2. ASSUME NEW id \in Stored
        PROVE  id <= lastId /\ RowOK(table'[id], now)
    <3>1. id \in Ids /\ id # n /\ id <= lastId /\ RowOK(table[id], now)
      BY <1>10, Basics DEF Stored
    <3>2. table'[id] = table[id] \/ (q.row # None /\ table'[id] = q.row)
      BY <1>3, <1>4, <3>1
    <3>3. QED
      BY <1>2, <3>1, <3>2
  <2>3. QED
    BY <1>10, <2>1, <2>2 DEF RowsOK
<1>12. ActiveRowsDistinct'
  <2>1. \A id \in Stored : /\ t[id] # None /\ table'[id] = t[id]
                           /\ Active(t[id]) => t[id] = table[id]
    BY <1>2, <1>3, <1>4, <1>10 DEF Active, Stored
  <2>2. \A id \in Stored : ~SameIndexKey(t[id], q.new)
    BY <1>1, <1>10, <2>1 DEF IndexAllows, Active, Stored
  <2>3. ASSUME NEW a \in Stored, NEW b \in Stored, a # b, Active(t[a])
        PROVE  ~SameIndexKey(t[a], t[b])
    <3>1. CASE Active(t[b])
      <4>1. t[a] = table[a] /\ t[b] = table[b]
        BY <2>1, <2>3, <3>1
      <4>2. ~SameIndexKey(table[a], table[b])
        BY <2>3, <4>1 DEF ActiveRowsDistinct
      <4>3. QED
        BY <4>1, <4>2
    <3>2. CASE ~Active(t[b])
      BY <2>3, <3>2 DEF SameIndexKey, Active
    <3>3. QED
      BY <3>1, <3>2
  <2>4. QED
    BY <1>4, <1>10, <2>1, <2>2, <2>3 DEF ActiveRowsDistinct, Active, SameIndexKey
<1>13. ReplacedHasSuccessor'
  <2>1. ASSUME NEW id \in Stored', table'[id].updatedBy = Replaced
        PROVE  \E newer \in Stored' : /\ newer > id
                                       /\ table'[newer].owner = table'[id].owner
                                       /\ table'[newer].app = table'[id].app
    <3>1. id \in Stored
      <4>1. Nobody # Replaced
        BY DEF Nobody, Replaced
      <4>2. QED
        BY <1>1, <1>4, <1>10, <2>1, <4>1
    <3>2. CASE q.row # None /\ id = q.id
      <4>1. table'[id] = q.row \/ table'[id] = table[id]
        BY <1>3, <1>4, <1>10, <3>1 DEF Stored
      <4>2. table'[id].owner = q.arg.owner /\ table'[id].app = q.arg.app
        BY <1>2, <3>2, <4>1 DEF SameIdentity
      <4>3. n > id
        BY <1>1, <1>2, <3>2, ConstantsAssumption DEF Ids
      <4>4. QED
        BY <1>1, <1>4, <1>10, <4>2, <4>3
    <3>3. CASE ~(q.row # None /\ id = q.id)
      <4>1. table'[id] = table[id]
        BY <1>3, <1>4, <1>10, <3>1, <3>3 DEF Stored
      <4>2. PICK newer \in Stored : /\ newer > id
                                    /\ table[newer].owner = table[id].owner
                                    /\ table[newer].app = table[id].app
        BY <2>1, <3>1, <4>1 DEF ReplacedHasSuccessor
      <4>3. table'[newer].owner = table[newer].owner /\ table'[newer].app = table[newer].app
        BY <1>5, <4>2 DEF Grows, SameIdentity, Stored
      <4>4. QED
        BY <1>10, <4>1, <4>2, <4>3
    <3>4. QED
      BY <3>2, <3>3
  <2>2. QED
    BY <2>1 DEF ReplacedHasSuccessor
<1>14. QED
  BY <1>9, <1>11, <1>12, <1>13

\* The three actions that end in SaveStep or CreateStep, or write nothing.
LEMMA WriteStep ==
    ASSUME Grounds, ActiveRowsDistinct, ReplacedHasSuccessor, NEW r \in Requests,
           SaveExpired(r) \/ SaveConsent(r) \/ InsertConsent(r) \/ CommitRevokeAndCreate(r)
    PROVE  Kept /\ RowsOK' /\ ActiveRowsDistinct' /\ ReplacedHasSuccessor'
<1> DEFINE q == req[r]
<1>1. q \in Request /\ RequestOK(q, table, lastId, now)
  BY Basics
<1>2. ASSUME UNCHANGED <<table, lastId, now>>
      PROVE  RowsOK' /\ ActiveRowsDistinct' /\ ReplacedHasSuccessor'
  BY <1>2 DEF Grounds, RowsOK, ActiveRowsDistinct, ReplacedHasSuccessor, Stored
<1>3. CASE SaveExpired(r)
  <2> DEFINE x == Viewed(q, q.id, q.row)
  <2>1. /\ q.pc = "expire" /\ q.op \in {"create", "get"} /\ ArgumentOK(q) /\ q.id \in Ids
        /\ q.row # None /\ q.row \in Consent /\ q.row.status = "expired"
        /\ table[q.id] # None
        /\ q.op = "create" => /\ table[q.id].owner = q.arg.owner
                              /\ table[q.id].app = q.arg.app
        /\ SameIdentity(q.row, table[q.id])
    BY <1>1, <1>3 DEF SaveExpired, RequestOK, ArgumentOK, HeldRowOK, HoldsRow, FoundRowOK, Request
  <2>2. /\ table' \in [Ids -> Consent \union {None}] /\ table'[q.id] = q.row
        /\ lastId \in Nat /\ now \in Nat
        /\ table' = [table EXCEPT ![q.id] = q.row] /\ UNCHANGED <<lastId, now>>
        /\ Goto(r, x)
    BY <1>3, <2>1, Basics DEF SaveExpired
  <2>3. x \in Request /\ x.pc # "create" /\ RequestOK(x, table', lastId, now)
    <3>1. table'[q.id] # None /\ q.row.owner = table[q.id].owner /\ q.row.app = table[q.id].app
      BY <2>1, <2>2 DEF SameIdentity
    <3>2. q.op = "create" => /\ q.row.owner = q.arg.owner /\ q.row.app = q.arg.app
                             /\ table'[q.id].owner = q.arg.owner /\ table'[q.id].app = q.arg.app
      BY <2>1, <2>2, <3>1
    <3>3. /\ q \in Request /\ q.op \in {"create", "get"} /\ ArgumentOK(q)
          /\ q.id \in Ids /\ q.row \in Consent /\ lastId \in Nat /\ now \in Nat
          /\ table' \in [Ids -> Consent \union {None}]
      BY <1>1, <2>1, <2>2
    <3>4. QED
      BY <3>1, <3>2, <3>3, ViewedOK
  <2>4. IndexAllows(table, q.id, q.row)
    BY <2>1 DEF IndexAllows, Active
  <2>5. QED
    BY <2>1, <2>2, <2>3, <2>4, SaveStep
<1>4. CASE SaveConsent(r)
  <2>1. CASE IndexAllows(table, q.id, q.row)
    <3>1. /\ q.pc = "save" /\ table' = [table EXCEPT ![q.id] = q.row]
          /\ UNCHANGED <<lastId, now>> /\ Goto(r, Idle)
      BY <1>4, <2>1 DEF SaveConsent, Finish
    <3>2. Idle \in Request /\ Idle.pc # "create" /\ RequestOK(Idle, table', lastId, now)
      BY ConstantsAssumption DEF Idle, At, Request, RequestOK, ArgumentOK, HeldRowOK, HoldsRow,
         FoundRowOK, NewRowOK, AnswerOK
    <3>3. QED
      BY <2>1, <3>1, <3>2, SaveStep
  <2>2. CASE ~IndexAllows(table, q.id, q.row)
    BY <1>2, <1>4, <2>2, FinishStep DEF SaveConsent
  <2>3. QED
    BY <2>1, <2>2
<1>5. CASE InsertConsent(r)
  <2>1. q.pc = "create" /\ Base(q) = table /\ UNCHANGED <<lastId, now>>
    BY <1>5 DEF InsertConsent, Base
  <2>2. CASE IndexAllows(table, q.newId, q.new)
    BY <1>5, <2>1, <2>2, CreateStep DEF InsertConsent
  <2>3. CASE ~IndexAllows(table, q.newId, q.new)
    BY <1>2, <1>5, <2>3, FinishStep DEF InsertConsent
  <2>4. QED
    BY <2>2, <2>3
<1>6. CASE CommitRevokeAndCreate(r)
  <2>1. /\ q.pc = "create" /\ Base(q) = [table EXCEPT ![q.id] = q.row]
        /\ UNCHANGED <<lastId, now>>
    BY <1>6 DEF CommitRevokeAndCreate, Base
  <2>2. CASE IndexAllows(Base(q), q.newId, q.new)
    BY <1>6, <2>1, <2>2, CreateStep DEF CommitRevokeAndCreate
  <2>3. CASE ~IndexAllows(Base(q), q.newId, q.new)
    BY <1>2, <1>6, <2>1, <2>3, FinishStep DEF CommitRevokeAndCreate
  <2>4. QED
    BY <2>2, <2>3
<1>7. QED
  BY <1>3, <1>4, <1>5, <1>6

-----------------------------------------------------------------------------
(* The invariant *)

LEMMA InitEstablishes == Init => IInv
<1> SUFFICES ASSUME Init PROVE IInv
  OBVIOUS
<1>1. Idle \in Request /\ RequestOK(Idle, table, lastId, now) /\ Idle.pc # "create"
  BY IdleOK DEF Idle, At
<1>2. TypeOK
  BY <1>1, ConstantsAssumption DEF Init, TypeOK
<1>3. Stored = {}
  BY DEF Init, Stored
<1>4. QED
  BY <1>1, <1>2, <1>3 DEF Init, IInv, RowsOK, RequestsOK, FreshKeysDistinct,
     ActiveRowsDistinct, ReplacedHasSuccessor

\* Steps that leave the table and the clock alone keep its invariants.
LEMMA TableKept ==
    ASSUME Grounds, ActiveRowsDistinct, ReplacedHasSuccessor,
           table' = table, now' = now, lastId' \in Nat, lastId <= lastId'
    PROVE  RowsOK' /\ ActiveRowsDistinct' /\ ReplacedHasSuccessor'
<1>1. Stored' = Stored
  BY DEF Stored
<1>2. RowsOK'
  BY <1>1, Basics DEF RowsOK, Stored, Ids
<1>3. QED
  BY <1>1, <1>2 DEF ActiveRowsDistinct, ReplacedHasSuccessor

LEMMA NextPreserves == IInv /\ [Next]_vars => IInv'
<1> SUFFICES ASSUME IInv, [Next]_vars PROVE IInv'
  OBVIOUS
<1> USE DEF IInv
<1>1. Grounds /\ lastId \in Nat
  BY Basics DEF Grounds
<1>2. ASSUME Kept, table' = table, now' = now, lastId' \in Nat, lastId <= lastId'
      PROVE  IInv'
  BY <1>1, <1>2, TableKept DEF Kept
<1>3. ASSUME NEW r \in Requests, Arrival(r)
      PROVE  IInv'
  <2>1. UNCHANGED <<table, lastId, now>>
    BY <1>3 DEF Arrival, PostConsent, GetConsent, PutConsent, RevokeConsent, Arrive
  <2>2. QED
    BY <1>1, <1>2, <1>3, <2>1, ArrivalStep
<1>4. ASSUME NEW r \in Requests, Lookup(r)
      PROVE  IInv'
  BY <1>1, <1>2, <1>4, LookupStep DEF Lookup
<1>5. ASSUME NEW r \in Requests, BuildConsent(r)
      PROVE  IInv'
  <2>1. /\ table' = table /\ now' = now
        /\ lastId' \in Nat /\ lastId <= lastId'
    BY <1>1, <1>5 DEF BuildConsent
  <2>2. QED
    BY <1>1, <1>2, <1>5, <2>1, BuildStep
<1>6. ASSUME NEW r \in Requests, RevokeRead(r)
      PROVE  IInv'
  <2>1. UNCHANGED <<table, lastId, now>>
    BY <1>6 DEF RevokeRead
  <2>2. QED
    BY <1>1, <1>2, <1>6, <2>1, RevokeReadStep
<1>7. ASSUME NEW r \in Requests, Authorize(r)
      PROVE  IInv'
  BY <1>1, <1>2, <1>7, AuthorizeStep DEF Authorize
<1>8. ASSUME NEW r \in Requests, Decide(r)
      PROVE  IInv'
  BY <1>1, <1>2, <1>8, DecideStep DEF Decide
<1>9. ASSUME NEW r \in Requests, Return(r) \/ Fail(r)
      PROVE  IInv'
  <2>1. Finish(r) /\ UNCHANGED <<table, lastId, now>>
    BY <1>9 DEF Return, Fail
  <2>2. QED
    BY <1>1, <1>2, <2>1, FinishStep
<1>10. ASSUME NEW r \in Requests,
              SaveExpired(r) \/ SaveConsent(r) \/ InsertConsent(r) \/ CommitRevokeAndCreate(r)
       PROVE  IInv'
  BY <1>1, <1>10, WriteStep DEF Kept
<1>11. CASE Tick
  <2>1. Kept /\ RowsOK' /\ table' = table
    BY <1>1, <1>11, TickStep DEF Tick
  <2>2. ActiveRowsDistinct' /\ ReplacedHasSuccessor'
    BY <2>1 DEF ActiveRowsDistinct, ReplacedHasSuccessor, Stored
  <2>3. QED
    BY <2>1, <2>2 DEF Kept
<1>12. CASE UNCHANGED vars
  BY <1>12 DEF vars, TypeOK, RowsOK, RequestsOK, FreshKeysDistinct, ActiveRowsDistinct,
     ReplacedHasSuccessor, Stored
<1>13. QED
  BY <1>3, <1>4, <1>5, <1>6, <1>7, <1>8, <1>9, <1>10, <1>11, <1>12 DEF Next, Step

\* The inductive invariant holds in every reachable state.
THEOREM Invariance == Spec => []IInv
BY InitEstablishes, NextPreserves, PTL DEF Spec

-----------------------------------------------------------------------------
(* What follows from it *)

\* Every row, key and request state is well formed, for any constants.
THEOREM TypeCorrect == Spec => []TypeOK
<1>1. IInv => TypeOK
  BY DEF IInv
<1>2. QED
  BY <1>1, Invariance, PTL

\* However requests interleave, no two rows of the same owner, e-mail and
\* application are both pending, or both approved.
THEOREM IndexHolds == Spec => []ActiveRowsDistinct
<1>1. IInv => ActiveRowsDistinct
  BY DEF IInv
<1>2. QED
  BY <1>1, Invariance, PTL

\* A row that was replaced by a create request has a newer row beside it.
THEOREM ReplacementAtomic == Spec => []ReplacedHasSuccessor
<1>1. IInv => ReplacedHasSuccessor
  BY DEF IInv
<1>2. QED
  BY <1>1, Invariance, PTL

\* A row that reads approved was last written for its own owner.
THEOREM OwnerDecides == Spec => []ApprovedByOwner
<1>1. IInv => ApprovedByOwner
  BY DEF IInv, RowsOK, RowOK, ApprovedByOwner
<1>2. QED
  BY <1>1, Invariance, PTL

\* A grant never outlives its duration; a pending row has a deadline.
THEOREM GrantsBounded == Spec => []DeadlinesMatchStatus
<1>1. IInv => DeadlinesMatchStatus
  BY DEF IInv, RowsOK, RowOK, DeadlinesMatchStatus
<1>2. QED
  BY <1>1, Invariance, PTL

\* A create request is answered with an active consent for what it asked.
THEOREM CreateAnswers == Spec => []AnswersTheRequest
<1>1. IInv => AnswersTheRequest
  BY DEF IInv, RequestsOK, RequestOK, AnswerOK, AnswersTheRequest
<1>2. QED
  BY <1>1, Invariance, PTL

-----------------------------------------------------------------------------
(* The table implements the ledger *)

LedgerOf(t) == [id \in Ids |-> IF t[id] = None THEN None ELSE EntryOf(t[id])]

\* A stored row has an entry in the ledger, of the same terms, status and writer.
LEMMA EntryOfRow ==
    ASSUME NEW row \in Consent
    PROVE  /\ EntryOf(row) \in Ledger!Entries
           /\ EntryOf(row) # None
           /\ EntryOf(row).terms \in Ledger!Terms
           /\ EntryOf(row).terms.owner = row.owner
           /\ EntryOf(row).terms.email = row.email
           /\ EntryOf(row).terms.app = row.app
           /\ EntryOf(row).status = row.status
           /\ EntryOf(row).by = row.updatedBy
           /\ EntryOf(row) = Ledger!Entry(EntryOf(row).terms, row.status, row.updatedBy)
<1>1. EntryOf(row) \in Ledger!Entries
  BY DEF EntryOf, Ledger!Entries, Ledger!Terms, Consent, Statuses
<1>2. EntryOf(row).terms \in Ledger!Terms
  BY DEF EntryOf, Ledger!Terms, Consent
<1>3. QED
  BY <1>1, <1>2, NoneIsNoEntry DEF EntryOf, Ledger!Entry

\* Rows of one identity have the same terms.
LEMMA SameTerms ==
    ASSUME NEW a \in Consent, NEW b \in Consent, SameIdentity(a, b)
    PROVE  EntryOf(a).terms = EntryOf(b).terms
BY DEF EntryOf, SameIdentity

\* A row the index admits has no rival in the ledger.
LEMMA IndexUnrivalled ==
    ASSUME NEW t \in [Ids -> Consent \union {None}], NEW id \in Ids,
           NEW row \in Consent, IndexAllows(t, id, row)
    PROVE  row.status \in {"pending", "approved"} =>
              \A other \in Ids \ {id} :
                 LedgerOf(t)[other] # None => ~Ledger!Rivals(LedgerOf(t)[other], EntryOf(row))
<1> SUFFICES ASSUME row.status \in {"pending", "approved"},
                    NEW other \in Ids \ {id}, LedgerOf(t)[other] # None
             PROVE  ~Ledger!Rivals(LedgerOf(t)[other], EntryOf(row))
  OBVIOUS
<1>1. t[other] # None /\ t[other] \in Consent /\ LedgerOf(t)[other] = EntryOf(t[other])
  BY DEF LedgerOf
<1>2. ~SameIndexKey(t[other], row)
  BY <1>1 DEF IndexAllows, Active
<1>3. QED
  BY <1>1, <1>2, EntryOfRow DEF Ledger!Rivals, SameIndexKey

\* Saving a row over its own key settles a consent.
LEMMA SaveSettles ==
    ASSUME Grounds, NEW r \in Requests, req[r].pc \in {"expire", "save"},
           NEW id \in Ids, id = req[r].id,
           IndexAllows(table, id, req[r].row),
           table' = [table EXCEPT ![id] = req[r].row],
           LedgerOf(table)' # LedgerOf(table)
    PROVE  Ledger!Settle(id)
<1> DEFINE q == req[r]
           row == q.row
           l == LedgerOf(table)
           m == LedgerOf(table')
           old == EntryOf(table[id])
<1>1. /\ table \in [Ids -> Consent \union {None}]
      /\ table[id] # None /\ table[id] \in Consent
      /\ row # None /\ row \in Consent
      /\ SameIdentity(row, table[id]) /\ RowOK(row, now)
      /\ row.status # "pending" /\ row.updatedBy # Replaced
  BY Basics DEF RequestOK, HeldRowOK, HoldsRow, Request
<1>2. table' \in [Ids -> Consent \union {None}] /\ IndexAllows(table', id, row)
  BY <1>1 DEF IndexAllows
<1>3. /\ l[id] = old /\ old # None
      /\ old.terms = EntryOf(row).terms /\ old.terms.email = row.email
      /\ m[id] = EntryOf(row)
      /\ EntryOf(row) = Ledger!Entry(old.terms, row.status, row.updatedBy)
      /\ EntryOf(row).status = row.status
  BY <1>1, EntryOfRow, SameTerms DEF LedgerOf
<1>4. /\ m = [l EXCEPT ![id] = Ledger!Entry(l[id].terms, row.status, row.updatedBy)]
      /\ m[id] # l[id]
  <2>1. \A j \in Ids : j # id => m[j] = l[j]
    BY <1>1 DEF LedgerOf
  <2>2. l = [j \in Ids |-> l[j]] /\ m = [j \in Ids |-> m[j]] /\ m # l
    BY DEF LedgerOf
  <2>3. m[id] = Ledger!Entry(l[id].terms, row.status, row.updatedBy)
    BY <1>3
  <2> HIDE DEF l, m, row
  <2> DEFINE entry == Ledger!Entry(l[id].terms, row.status, row.updatedBy)
  <2>4. m[id] = entry
    BY <2>3
  <2> HIDE DEF entry
  <2>5. m = [l EXCEPT ![id] = entry]
    BY <2>1, <2>2, <2>4
  <2>6. m[id] # l[id]
    BY <2>1, <2>2, Zenon
  <2>7. QED
    BY <2>5, <2>6 DEF entry
<1>5. /\ row.status \in {"approved", "rejected", "expired", "revoked"}
      /\ row.updatedBy \in Emails \union {Nobody, Revoker}
      /\ Ledger!Settles(l[id], row.status, row.updatedBy)
  <2>1. /\ row.status \in {"approved", "rejected", "expired", "revoked"}
        /\ row.updatedBy \in Emails \union {Nobody, Revoker}
    BY <1>1 DEF Consent, Statuses
  <2>2. l[id].terms.email = row.email
    BY <1>3
  <2> HIDE DEF l
  <2>3. Ledger!Settles(l[id], row.status, row.updatedBy)
    BY <1>1, <2>1, <2>2 DEF RowOK, Ledger!Settles
  <2>4. QED
    BY <2>1, <2>3
<1>6. m[id].status \in {"pending", "approved"} =>
         \A other \in Ids \ {id} : m[other] # None => ~Ledger!Rivals(m[other], m[id])
  <2>1. row.status \in {"pending", "approved"} =>
           \A other \in Ids \ {id} : m[other] # None => ~Ledger!Rivals(m[other], EntryOf(row))
    BY <1>1, <1>2, IndexUnrivalled
  <2>2. QED
    BY <1>3, <2>1
<1>7. QED
  <2>1. l[id] # None
    BY <1>3
  <2>2. \E status \in {"approved", "rejected", "expired", "revoked"},
           by \in Emails \union {Nobody, Revoker} :
           /\ Ledger!Settles(l[id], status, by)
           /\ m = [l EXCEPT ![id] = Ledger!Entry(l[id].terms, status, by)]
    <3> HIDE DEF l, m, row
    <3>1. QED
      BY <1>4, <1>5, Zenon
  <2>3. Ledger!Unrivalled(id)
    BY <1>6 DEF Ledger!Unrivalled, LedgerOf
  <2>4. QED
    BY <1>4, <2>1, <2>2, <2>3 DEF Ledger!Settle, Ledger!Settled, LedgerOf

\* Inserting a new row asks for a consent; inserting it together with the
\* revocation of an earlier one replaces that one.
LEMMA CreateAsksOrReplaces ==
    ASSUME Grounds, NEW r \in Requests, req[r].pc = "create",
           NEW n \in Ids, n = req[r].newId,
           IndexAllows(Base(req[r]), n, req[r].new),
           table' = [Base(req[r]) EXCEPT ![n] = req[r].new]
    PROVE  Ledger!Ask(n) \/ \E old \in Ids : Ledger!Replace(old, n)
<1> DEFINE q == req[r]
           new == EntryOf(q.new)
           l == LedgerOf(table)
           m == LedgerOf(table')
<1>1. /\ table \in [Ids -> Consent \union {None}]
      /\ table[n] = None
      /\ q.new \in Consent /\ q.new # None /\ q.new.status = "pending"
      /\ q.new.updatedBy = Nobody
      /\ q.new.owner = q.arg.owner /\ q.new.app = q.arg.app
      /\ q.op = "create"
  BY Basics, ConstantsAssumption DEF RequestOK, ArgumentOK, NewRowOK, RowOK, Ids
<1>2. q.row # None =>
         /\ q.id \in Ids /\ table[q.id] # None /\ table[q.id] \in Consent /\ q.id # n
         /\ q.row \in Consent
         /\ q.row.status = "revoked" /\ q.row.updatedBy = Replaced
         /\ SameIdentity(q.row, table[q.id])
         /\ table[q.id].owner = q.arg.owner /\ table[q.id].app = q.arg.app
  <2>1. q \in Request /\ RequestOK(q, table, lastId, now)
    BY Basics
  <2>2. q.row \in Consent \union {None}
    BY <2>1 DEF Request
  <2>3. QED
    BY <1>1, <2>1, <2>2 DEF RequestOK, HeldRowOK, HoldsRow, FoundRowOK
<1>3. /\ Base(q) \in [Ids -> Consent \union {None}]
      /\ table' \in [Ids -> Consent \union {None}] /\ table'[n] = q.new
      /\ IndexAllows(table', n, q.new)
  BY <1>1, <1>2 DEF Base, IndexAllows
<1>4. /\ l[n] = None /\ m[n] = new /\ new # None /\ new.status = "pending"
      /\ new.terms \in Ledger!Terms
      /\ new = Ledger!Entry(new.terms, "pending", Nobody)
      /\ new.terms.owner = q.new.owner /\ new.terms.app = q.new.app
  BY <1>1, <1>3, EntryOfRow DEF LedgerOf
<1>5. m[n].status \in {"pending", "approved"} =>
         \A other \in Ids \ {n} : m[other] # None => ~Ledger!Rivals(m[other], m[n])
  BY <1>1, <1>3, <1>4, IndexUnrivalled
<1>6. CASE q.row = None
  <2>1. m = [l EXCEPT ![n] = Ledger!Entry(new.terms, "pending", Nobody)]
    BY <1>1, <1>4, <1>6 DEF LedgerOf, Base
  <2>2. Ledger!Unrivalled(n)
    BY <1>5 DEF Ledger!Unrivalled, LedgerOf
  <2>3. l[n] = None /\ m[n] # None /\ new.terms \in Ledger!Terms
    BY <1>4
  <2> HIDE DEF new
  <2>4. QED
    BY <2>1, <2>2, <2>3 DEF Ledger!Ask, Ledger!Asked, LedgerOf
<1>7. ASSUME NEW k \in Ids, k = q.id, q.row # None
      PROVE  Ledger!Replace(k, n)
  <2> DEFINE old == EntryOf(table[k])
  <2>1. /\ l[k] = old /\ old # None
        /\ old.terms.owner = q.arg.owner /\ old.terms.app = q.arg.app
        /\ EntryOf(q.row) = Ledger!Entry(old.terms, "revoked", Replaced)
    BY <1>2, <1>7, EntryOfRow, SameTerms DEF LedgerOf
  <2>2. table' = [table EXCEPT ![k] = q.row, ![n] = q.new]
    BY <1>2, <1>7 DEF Base
  <2>3. m = [l EXCEPT ![k] = Ledger!Entry(l[k].terms, "revoked", Replaced),
                      ![n] = Ledger!Entry(new.terms, "pending", Nobody)]
    <3>1. m[k] = Ledger!Entry(l[k].terms, "revoked", Replaced)
      BY <1>1, <1>2, <1>7, <2>1, <2>2 DEF LedgerOf
    <3>2. m[n] = Ledger!Entry(new.terms, "pending", Nobody)
      BY <1>4
    <3>3. \A j \in Ids : j # k /\ j # n => m[j] = l[j]
      BY <1>1, <2>2 DEF LedgerOf
    <3>4. l = [j \in Ids |-> l[j]] /\ m = [j \in Ids |-> m[j]]
      BY DEF LedgerOf
    <3> HIDE DEF l, m, new
    <3>5. QED
      BY <3>1, <3>2, <3>3, <3>4
  <2>4. /\ new.terms.owner = l[k].terms.owner
        /\ new.terms.app = l[k].terms.app
    BY <1>1, <1>4, <2>1
  <2>5. Ledger!Unrivalled(n)
    BY <1>5 DEF Ledger!Unrivalled, LedgerOf
  <2>6. l[k] # None /\ l[n] = None /\ new.terms \in Ledger!Terms
    BY <1>4, <2>1
  <2>7. \E terms \in Ledger!Terms :
           /\ terms.owner = l[k].terms.owner
           /\ terms.app = l[k].terms.app
           /\ m = [l EXCEPT ![k] = Ledger!Entry(l[k].terms, "revoked", Replaced),
                            ![n] = Ledger!Entry(terms, "pending", Nobody)]
    BY <2>3, <2>4, <2>6
  <2> HIDE DEF new
  <2>8. QED
    BY <2>5, <2>6, <2>7 DEF Ledger!Replace, Ledger!Succeeded, LedgerOf
<1>8. QED
  BY <1>2, <1>6, <1>7

\* Every step of the engine is a step of the ledger, or none at all.
LEMMA StepImplements == IInv /\ [Next]_vars => [Ledger!Next]_(LedgerOf(table))
<1> SUFFICES ASSUME IInv, [Next]_vars PROVE [Ledger!Next]_(LedgerOf(table))
  OBVIOUS
<1>1. Grounds
  BY DEF IInv, Grounds
<1>2. ASSUME table' = table
      PROVE  [Ledger!Next]_(LedgerOf(table))
  BY <1>2 DEF LedgerOf
<1>3. ASSUME NEW r \in Requests, req[r].pc \in {"expire", "save"},
             IndexAllows(table, req[r].id, req[r].row),
             table' = [table EXCEPT ![req[r].id] = req[r].row]
      PROVE  [Ledger!Next]_(LedgerOf(table))
  <2>1. PICK id \in Ids : id = req[r].id
    BY <1>1, <1>3, Basics DEF RequestOK, HeldRowOK, HoldsRow
  <2>2. LedgerOf(table)' # LedgerOf(table) => Ledger!Settle(id)
    BY <1>1, <1>3, <2>1, SaveSettles
  <2>3. QED
    BY <2>2 DEF Ledger!Next
<1>4. ASSUME NEW r \in Requests, req[r].pc = "create",
             IndexAllows(Base(req[r]), req[r].newId, req[r].new),
             table' = [Base(req[r]) EXCEPT ![req[r].newId] = req[r].new]
      PROVE  Ledger!Next
  <2>1. PICK n \in Ids : n = req[r].newId
    BY <1>1, <1>4, Basics, ConstantsAssumption DEF RequestOK, NewRowOK, Ids
  <2>2. Ledger!Ask(n) \/ \E old \in Ids : Ledger!Replace(old, n)
    BY <1>1, <1>4, <2>1, CreateAsksOrReplaces
  <2>3. QED
    BY <2>2 DEF Ledger!Next
<1>5. ASSUME NEW r \in Requests, SaveExpired(r)
      PROVE  [Ledger!Next]_(LedgerOf(table))
  <2>1. req[r].pc = "expire" /\ table' = [table EXCEPT ![req[r].id] = req[r].row]
    BY <1>5 DEF SaveExpired
  <2>2. req[r].row.status = "expired"
    BY <1>1, <2>1, Basics DEF RequestOK, HeldRowOK, HoldsRow
  <2>3. QED
    BY <1>3, <2>1, <2>2 DEF IndexAllows, Active
<1>6. ASSUME NEW r \in Requests, SaveConsent(r)
      PROVE  [Ledger!Next]_(LedgerOf(table))
  BY <1>2, <1>3, <1>6 DEF SaveConsent
<1>7. ASSUME NEW r \in Requests, InsertConsent(r) \/ CommitRevokeAndCreate(r)
      PROVE  [Ledger!Next]_(LedgerOf(table))
  BY <1>2, <1>4, <1>7 DEF InsertConsent, CommitRevokeAndCreate, Base
<1>8. ASSUME NEW r \in Requests,
             \/ Arrival(r) \/ Lookup(r) \/ BuildConsent(r) \/ RevokeRead(r)
             \/ Authorize(r) \/ Decide(r) \/ Return(r) \/ Fail(r)
      PROVE  table' = table
  BY <1>8 DEF Arrival, PostConsent, GetConsent, PutConsent, RevokeConsent, Arrive,
     Lookup, BuildConsent, RevokeRead, Authorize, Decide, Return, Fail
<1>9. Tick \/ UNCHANGED vars => table' = table
  BY DEF Tick, vars
<1>10. QED
  BY <1>2, <1>5, <1>6, <1>7, <1>8, <1>9 DEF Next, Step

\* The engine implements the ledger: for any number of requests, whatever they
\* read before they write and wherever they fail, the table only ever takes the
\* steps of ConsentLedger.
THEOREM Refinement == Spec => ImplementsLedger
<1>1. Init => Ledger!Init
  BY DEF Init, Ledger!Init
<1>2. IInv /\ [Next]_vars => [Ledger!Next]_(LedgerOf(table))
  BY StepImplements
<1>3. QED
  BY <1>1, <1>2, Invariance, PTL DEF Spec, ImplementsLedger, Ledger!Spec, LedgerOf

-----------------------------------------------------------------------------
(* What a step may never do *)

\* A row keeps its terms when a row of the same identity is written over it.
LEMMA TermsKept ==
    ASSUME NEW id \in Ids, SameIdentity(table'[id], table[id])
    PROVE  SameTermsKept(id)
BY DEF SameTermsKept, SameIdentity

LEMMA HistoryStep == IInv /\ [Next]_vars => RowsKept
<1> SUFFICES ASSUME IInv, [Next]_vars, NEW id \in Stored
             PROVE  /\ table'[id] # None
                    /\ table'[id].status = "pending" => table[id].status = "pending"
                    /\ SameTermsKept(id)
  BY DEF RowsKept
<1> DEFINE Fine == /\ table'[id] # None
                   /\ table'[id].status = "pending" => table[id].status = "pending"
                   /\ SameIdentity(table'[id], table[id])
<1>1. Grounds /\ id \in Ids /\ table[id] # None /\ table \in [Ids -> Consent \union {None}]
  BY Basics DEF IInv, Grounds, Stored
<1>2. table'[id] = table[id] => Fine
  BY <1>1 DEF SameIdentity
<1>3. ASSUME NEW r \in Requests, HoldsRow(req[r]), id = req[r].id, table'[id] = req[r].row
      PROVE  Fine
  BY <1>1, <1>3, Basics DEF RequestOK, HeldRowOK, HoldsRow
<1>4. ASSUME NEW r \in Requests, SaveExpired(r) \/ SaveConsent(r)
      PROVE  Fine
  BY <1>1, <1>2, <1>3, <1>4 DEF SaveExpired, SaveConsent, HoldsRow
<1>5. ASSUME NEW r \in Requests, InsertConsent(r) \/ CommitRevokeAndCreate(r)
      PROVE  Fine
  <2>1. req[r].pc = "create" /\ id # req[r].newId
    BY <1>1, <1>5, Basics DEF InsertConsent, CommitRevokeAndCreate
  <2>2. \/ table'[id] = table[id]
        \/ id = req[r].id /\ req[r].row # None /\ table'[id] = req[r].row
    BY <1>1, <1>5, <2>1 DEF InsertConsent, CommitRevokeAndCreate
  <2>3. QED
    BY <1>2, <1>3, <2>1, <2>2 DEF HoldsRow
<1>6. ASSUME NEW r \in Requests,
             \/ Arrival(r) \/ Lookup(r) \/ BuildConsent(r) \/ RevokeRead(r)
             \/ Authorize(r) \/ Decide(r) \/ Return(r) \/ Fail(r)
      PROVE  Fine
  BY <1>2, <1>6 DEF Arrival, PostConsent, GetConsent, PutConsent, RevokeConsent, Arrive,
     Lookup, BuildConsent, RevokeRead, Authorize, Decide, Return, Fail
<1>7. Tick \/ UNCHANGED vars => Fine
  BY <1>2 DEF Tick, vars
<1>8. Fine
  BY <1>4, <1>5, <1>6, <1>7 DEF Next, Step
<1>9. QED
  BY <1>1, <1>8, TermsKept

\* No row is lost, changes its terms or becomes pending again.
THEOREM HistoryIsKept == Spec => HistoryKept
<1>1. IInv /\ [Next]_vars => [RowsKept]_vars
  BY HistoryStep
<1>2. QED
  BY <1>1, Invariance, PTL DEF Spec, HistoryKept

LEMMA ServedStep == IInv /\ [Next]_vars => ServedInTime
<1> SUFFICES ASSUME IInv, [Next]_vars, NEW r \in Requests, ServesApproval(r)
             PROVE  now <= req'[r].row.grantExpiresAt
  BY DEF ServedInTime
<1> DEFINE q == req[r]
<1>1. /\ Grounds
      /\ q \in Request /\ RequestOK(q, table, lastId, now)
      /\ req \in [Requests -> Request]
  BY Basics DEF IInv, Grounds, TypeOK
<1>2. /\ q.pc # "replied" /\ req'[r].pc = "replied"
      /\ req'[r].row.status = "approved"
  BY DEF ServesApproval
<1>3. req' # req
  BY <1>2
<1>4. ASSUME NEW s \in Requests, Step(s)
      PROVE  s = r
  <2>1. \E x : Goto(s, x)
    BY <1>4 DEF Step, Lookup, SaveExpired, BuildConsent, InsertConsent, CommitRevokeAndCreate,
       RevokeRead, Authorize, Decide, SaveConsent, Return, Finish, Reply
  <2>2. QED
    BY <1>1, <1>2, <2>1 DEF Goto
<1>5. CASE Lookup(r)
  <2>1. PICK id \in Ids : /\ table[id] # None /\ ~Lapsed(table[id])
                          /\ Goto(r, Viewed(q, id, table[id]))
    <3>1. ASSUME NEW x, Goto(r, x)
          PROVE  x.pc = "replied"
      BY <1>1, <1>2, <3>1 DEF Goto
    <3>2. ~Finish(r) /\ ~Goto(r, At("build", q.op, q.arg, 0, None))
      BY <3>1 DEF Finish, Idle, At
    <3>3. \A id : ~Goto(r, At("expire", q.op, q.arg, id, [table[id] EXCEPT !.status = "expired"]))
      BY <3>1 DEF At
    <3>4. QED
      BY <1>5, <3>2, <3>3 DEF Lookup, Matching
  <2>2. req'[r].row = table[id]
    BY <1>1, <1>2, <2>1 DEF Goto, Viewed, At
  <2>3. RowOK(table[id], now) /\ table[id] \in Consent
    BY <1>1, <2>1, Basics DEF Stored
  <2>4. table[id].grantExpiresAt \in Nat /\ ~(now > table[id].grantExpiresAt)
    BY <1>2, <2>1, <2>2, <2>3 DEF RowOK, Consent, Time, Lapsed
  <2>5. QED
    BY <1>1, <2>2, <2>4, Basics
<1>6. CASE SaveExpired(r)
  <2>1. q.row.status = "expired"
    BY <1>1, <1>6 DEF SaveExpired, RequestOK, HeldRowOK, HoldsRow
  <2>2. req'[r].row = q.row
    BY <1>1, <1>2, <1>6 DEF SaveExpired, Goto, Viewed, At
  <2>3. QED
    BY <1>2, <2>1, <2>2
<1>7. CASE InsertConsent(r) \/ CommitRevokeAndCreate(r)
  <2>1. q.new.status = "pending"
    BY <1>1, <1>7 DEF InsertConsent, CommitRevokeAndCreate, RequestOK, NewRowOK
  <2>2. req'[r].row = q.new
    BY <1>1, <1>2, <1>7 DEF InsertConsent, CommitRevokeAndCreate, Reply, Finish, Goto, Idle, At
  <2>3. QED
    BY <1>2, <2>1, <2>2
<1>8. CASE \/ BuildConsent(r) \/ RevokeRead(r) \/ Authorize(r) \/ Decide(r)
           \/ SaveConsent(r) \/ Return(r)
  <2>1. ASSUME NEW x, Goto(r, x)
        PROVE  x.pc = "replied"
    BY <1>1, <1>2, <2>1 DEF Goto
  <2>2. ~Finish(r)
    BY <2>1 DEF Finish, Idle, At
  <2>3. ~BuildConsent(r)
    <3>1. ASSUME NEW n, NEW c
          PROVE  [q EXCEPT !.pc = "create", !.newId = n, !.new = c].pc = "create"
      BY <1>1 DEF Request
    <3>2. QED
      BY <2>1, <3>1 DEF BuildConsent
  <2>4. \A p \in {"build", "save", "decide"} : \A op, arg, id, row :
           ~Goto(r, At(p, op, arg, id, row))
    BY <2>1 DEF At
  <2>5. ~RevokeRead(r)
    BY <2>2, <2>4 DEF RevokeRead
  <2>6. ~Authorize(r) /\ ~Decide(r)
    BY <2>2, <2>4 DEF Authorize, Decide
  <2>7. ~SaveConsent(r) /\ ~Return(r)
    BY <2>2 DEF SaveConsent, Return
  <2>8. QED
    BY <1>8, <2>3, <2>5, <2>6, <2>7
<1>9. ASSUME NEW s \in Requests, Arrival(s) \/ Fail(s)
      PROVE  FALSE
  BY <1>1, <1>2, <1>9 DEF Arrival, PostConsent, GetConsent, PutConsent, RevokeConsent, Arrive,
     Fail, Finish, Goto, Idle, At
<1>10. ~Tick /\ ~UNCHANGED vars
  BY <1>3 DEF Tick, vars
<1>11. QED
  BY <1>4, <1>5, <1>6, <1>7, <1>8, <1>9, <1>10 DEF Next, Step

\* No approval is served after its expiry, whatever happens between two reads.
THEOREM ApprovalsServedInTime == Spec => NoStaleApprovalServed
<1>1. IInv /\ [Next]_vars => [ServedInTime]_vars
  BY ServedStep
<1>2. QED
  BY <1>1, Invariance, PTL DEF Spec, NoStaleApprovalServed
=============================================================================
