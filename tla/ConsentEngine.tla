--------------------------- MODULE ConsentEngine ---------------------------
(***************************************************************************)
(* The consent engine (src/exchange/consent-engine/v1): the consent_records *)
(* table, and the HTTP requests that read and write it.                    *)
(*                                                                         *)
(* A request is a sequence of database statements, and everything between  *)
(* two statements works on the row the request has read.  Each statement   *)
(* is an action here, so the steps of concurrent requests interleave as    *)
(* they do under READ COMMITTED.  gorm's Save writes the whole row back,   *)
(* stale columns included.  A transaction that writes appears as a read    *)
(* step and a commit step: its row lock makes a concurrent writer of the   *)
(* same row wait for the commit, and nobody reads its uncommitted rows.    *)
(***************************************************************************)
EXTENDS Naturals

CONSTANTS
    Requests,        \* slots for requests in flight
    Owners, Emails, Apps,
    FieldLists,      \* the ordered field lists a consent is asked for
    ConsentTypes, GrantDurations,
    PendingTimeout,  \* [ConsentTypes -> Nat], parsePendingTimeoutDuration
    GrantLength,     \* [GrantDurations -> Nat], parseGrantDuration
    CreateRequests,  \* the valid bodies of POST /consents
    Lookups,         \* the queries of GET /consents
    PortalRequests,  \* the actions of authenticated portal users
    None,            \* no row, no timestamp, no argument (SQL NULL, Go nil)
    MaxRecords,      \* bound: consent records built
    MaxTime          \* bound: ticks of the clock

Ids == 1 .. MaxRecords
Time == Nat \union {None}
Statuses == {"pending", "approved", "rejected", "expired", "revoked"}
PortalActions == {"approve", "reject"}

\* Values of updated_by other than the e-mail address of a portal user.
Nobody == "nobody"
Replaced == "revoked by a new consent with different fields"
Revoker == "revoker"

Consent == [owner: Owners, email: Emails, app: Apps, fields: FieldLists,
            duration: GrantDurations, status: Statuses,
            pendingExpiresAt: Time, grantExpiresAt: Time,
            updatedBy: Emails \union {Nobody, Replaced, Revoker}]

ASSUME ConstantsAssumption ==
    /\ MaxRecords \in Nat
    /\ MaxTime \in Nat
    /\ PendingTimeout \in [ConsentTypes -> Nat]
    /\ GrantLength \in [GrantDurations -> Nat]
    /\ CreateRequests \subseteq
         [owner: Owners, email: Emails, app: Apps, fields: FieldLists,
          type: ConsentTypes, duration: GrantDurations]
    /\ Lookups \subseteq [by: {"owner"}, key: Owners, app: Apps]
                  \union [by: {"email"}, key: Emails, app: Apps]
    /\ PortalRequests \subseteq [user: Emails, action: PortalActions]
    /\ None \notin Consent /\ None \notin Nat
    /\ None \notin Lookups \union PortalRequests \union CreateRequests
    /\ Emails \intersect {Nobody, Replaced, Revoker} = {}

VARIABLES
    table,     \* consent_records; a key is also the order of created_at
    lastId,    \* the last key handed out by buildConsentRecord
    now,       \* the clock
    req        \* the local state of every request slot

vars == <<table, lastId, now, req>>

\* A request of operation op with argument arg, at step pc, with the row it
\* works on; newId and new hold the row a create request is about to insert.
At(pc, op, arg, id, row) == [pc |-> pc, op |-> op, arg |-> arg, id |-> id,
                             row |-> row, newId |-> 0, new |-> None]
Idle == At("idle", "none", None, 0, None)

Init == /\ table = [id \in Ids |-> None]
        /\ lastId = 0
        /\ now = 0
        /\ req = [r \in Requests |-> Idle]

-----------------------------------------------------------------------------
(* Reading the table *)

Active(row) == row.status \in {"pending", "approved"}

\* The rows selected by (owner_id, app_id) or (owner_email, app_id).
Matching(q) ==
    {id \in Ids : /\ table[id] # None
                  /\ table[id].app = q.app
                  /\ \/ q.by = "owner" /\ table[id].owner = q.key
                     \/ q.by = "email" /\ table[id].email = q.key}

\* ORDER BY created_at DESC LIMIT 1
Latest(id, ids) == id \in ids /\ \A other \in ids : other <= id

\* CreateConsentRecord passes both owner and e-mail: the owner has priority.
QueryOf(q) == IF q.op = "create"
              THEN [by |-> "owner", key |-> q.arg.owner, app |-> q.arg.app]
              ELSE q.arg

\* Mutant: only the pending deadline is looked at.
LapsedPendingOnly(row) == /\ row.status = "pending"
                          /\ row.pendingExpiresAt # None
                          /\ now > row.pendingExpiresAt

\* The two deadlines GetConsentInternalView enforces when it reads a row.
Lapsed(row) ==
    \/ /\ row.status = "pending"
       /\ row.pendingExpiresAt # None
       /\ now > row.pendingExpiresAt
    \/ /\ row.status = "approved"
       /\ row.grantExpiresAt # None
       /\ now > row.grantExpiresAt

\* The partial unique index idx_consent_active_unique: it covers the status.
SameIndexKey(a, b) == /\ a.owner = b.owner
                      /\ a.email = b.email
                      /\ a.app = b.app
                      /\ a.status = b.status

\* Mutant: the index is never created.
WithoutIndex(rows, id, row) == TRUE

IndexAllows(rows, id, row) ==
    Active(row) => \A other \in Ids \ {id} :
                      rows[other] # None => ~SameIndexKey(rows[other], row)

\* buildConsentRecord, at the current time.
NewConsent(c) ==
    [owner |-> c.owner, email |-> c.email, app |-> c.app, fields |-> c.fields,
     duration |-> c.duration, status |-> "pending",
     pendingExpiresAt |-> now + PendingTimeout[c.type], grantExpiresAt |-> None,
     updatedBy |-> Nobody]

\* Mutants: the action's name stored as the status; an approval without an
\* expiry; a rejection that forgets the status.
DecidedByActionName(row, a) ==
    [row EXCEPT !.status = a.action, !.updatedBy = a.user]
DecidedWithoutExpiry(row, a) ==
    [row EXCEPT !.status = IF a.action = "approve" THEN "approved" ELSE "rejected",
                !.updatedBy = a.user, !.pendingExpiresAt = None]
DecidedKeepingStatus(row, a) == [row EXCEPT !.updatedBy = a.user]

\* What a portal action makes of the row it has read, whatever its status.
Decided(row, a) ==
    IF a.action = "approve"
    THEN [row EXCEPT !.status = "approved", !.updatedBy = a.user,
                     !.grantExpiresAt = now + GrantLength[row.duration],
                     !.pendingExpiresAt = None]
    ELSE [row EXCEPT !.status = "rejected", !.updatedBy = a.user,
                     !.pendingExpiresAt = None]

-----------------------------------------------------------------------------
(* Requests arrive *)

Goto(r, q) == req' = [req EXCEPT ![r] = q]
Finish(r) == Goto(r, Idle)
Reply(r, id, row) == Goto(r, At("replied", req[r].op, req[r].arg, id, row))

Arrive(r, op, pc, arg, id) ==
    /\ req[r].pc = "idle"
    /\ Goto(r, At(pc, op, arg, id, None))
    /\ UNCHANGED <<table, lastId, now>>

\* POST /internal/api/v1/consents
PostConsent(r) == \E c \in CreateRequests : Arrive(r, "create", "lookup", c, 0)

\* GET /internal/api/v1/consents
GetConsent(r) == \E q \in Lookups : Arrive(r, "get", "lookup", q, 0)

\* PUT /api/v1/consents/{consentId}, for an authenticated user
PutConsent(r) == \E id \in 1 .. lastId, a \in PortalRequests :
                     Arrive(r, "portal", "authorize", a, id)

\* ConsentService.RevokeConsent
RevokeConsent(r) == \E id \in 1 .. lastId :
                        Arrive(r, "revoke", "revokeRead", None, id)

-----------------------------------------------------------------------------
(* GetConsentInternalView, and what CreateConsentRecord does with its result *)

\* Mutant: the field lists are not compared.
ViewedAnyFields(q, id, row) ==
    IF q.op = "get" \/ Active(row)
    THEN At("replied", q.op, q.arg, id, row)
    ELSE At("build", q.op, q.arg, 0, None)

\* The request after the view of row (with key id) is returned to it.
Viewed(q, id, row) ==
    IF q.op = "get" \/ (Active(row) /\ row.fields = q.arg.fields)
    THEN At("replied", q.op, q.arg, id, row)
    ELSE IF Active(row)
         THEN At("revokeRead", q.op, q.arg, id, None)
         ELSE At("build", q.op, q.arg, 0, None)

Lookup(r) ==
    /\ req[r].pc = "lookup"
    /\ LET q == req[r]
           found == Matching(QueryOf(q))
       IN \/ /\ found = {}
             /\ q.op = "create"
             /\ Goto(r, At("build", q.op, q.arg, 0, None))
          \/ /\ found = {}
             /\ q.op = "get"
             /\ Finish(r)
          \/ \E id \in found :
                /\ Latest(id, found)
                /\ IF Lapsed(table[id])
                   THEN Goto(r, At("expire", q.op, q.arg, id,
                                [table[id] EXCEPT !.status = "expired"]))
                   ELSE Goto(r, Viewed(q, id, table[id]))
    /\ UNCHANGED <<table, lastId, now>>

\* The Save of the lapsed row, a statement of its own.
SaveExpired(r) ==
    /\ req[r].pc = "expire"
    /\ table' = [table EXCEPT ![req[r].id] = req[r].row]
    /\ Goto(r, Viewed(req[r], req[r].id, req[r].row))
    /\ UNCHANGED <<lastId, now>>

BuildConsent(r) ==
    /\ req[r].pc = "build"
    /\ lastId < MaxRecords
    /\ lastId' = lastId + 1
    /\ Goto(r, [req[r] EXCEPT !.pc = "create", !.newId = lastId + 1,
                              !.new = NewConsent(req[r].arg)])
    /\ UNCHANGED <<table, now>>

\* db.Create outside any transaction; a duplicate index key is an error.
InsertConsent(r) ==
    LET q == req[r] IN
    /\ q.pc = "create"
    /\ q.row = None
    /\ IF IndexAllows(table, q.newId, q.new)
       THEN table' = [table EXCEPT ![q.newId] = q.new] /\ Reply(r, q.newId, q.new)
       ELSE table' = table /\ Finish(r)
    /\ UNCHANGED <<lastId, now>>

\* Mutant: no transaction, so the revocation stays when the insert fails.
CommitWithoutRollback(r) ==
    LET q == req[r]
        revoked == [table EXCEPT ![q.id] = q.row]
    IN
    /\ q.pc = "create"
    /\ q.row # None
    /\ \/ /\ IndexAllows(revoked, q.newId, q.new)
          /\ table' = [revoked EXCEPT ![q.newId] = q.new]
          /\ Reply(r, q.newId, q.new)
       \/ table' = revoked /\ Finish(r)
    /\ UNCHANGED <<lastId, now>>

\* The commit of revokeAndCreateConsent: both writes, or neither.
CommitRevokeAndCreate(r) ==
    LET q == req[r]
        revoked == [table EXCEPT ![q.id] = q.row]
    IN
    /\ q.pc = "create"
    /\ q.row # None
    /\ IF IndexAllows(revoked, q.newId, q.new)
       THEN table' = [revoked EXCEPT ![q.newId] = q.new] /\ Reply(r, q.newId, q.new)
       ELSE table' = table /\ Finish(r)
    /\ UNCHANGED <<lastId, now>>

\* The read of revokeAndCreateConsent and of RevokeConsent, in their transaction.
RevokeRead(r) ==
    LET q == req[r]
        row == table[q.id]
        by == IF q.op = "create" THEN Replaced ELSE Revoker
        next == IF q.op = "create" THEN "build" ELSE "save"
    IN
    /\ q.pc = "revokeRead"
    /\ IF row # None /\ Active(row)
       THEN Goto(r, At(next, q.op, q.arg, q.id,
                       [row EXCEPT !.status = "revoked", !.updatedBy = by]))
       ELSE Finish(r)
    /\ UNCHANGED <<table, lastId, now>>

-----------------------------------------------------------------------------
(* Portal actions: the handler reads the row twice, then saves it *)

\* Mutant: any authenticated user may decide.
AuthorizeAnyone(r) ==
    /\ req[r].pc = "authorize"
    /\ IF table[req[r].id] # None
       THEN Goto(r, At("decide", "portal", req[r].arg, req[r].id, None))
       ELSE Finish(r)
    /\ UNCHANGED <<table, lastId, now>>

\* UpdateConsent's first read: the owner check.
Authorize(r) ==
    LET q == req[r]
        row == table[q.id]
    IN
    /\ q.pc = "authorize"
    /\ IF row # None /\ row.email = q.arg.user
       THEN Goto(r, At("decide", q.op, q.arg, q.id, None))
       ELSE Finish(r)
    /\ UNCHANGED <<table, lastId, now>>

\* UpdateConsentStatusByPortalAction's own read, without a look at the status.
Decide(r) ==
    LET q == req[r]
        row == table[q.id]
    IN
    /\ q.pc = "decide"
    /\ IF row # None
       THEN Goto(r, At("save", q.op, q.arg, q.id, Decided(row, q.arg)))
       ELSE Finish(r)
    /\ UNCHANGED <<table, lastId, now>>

\* The Save of a portal action, or the commit of RevokeConsent.
SaveConsent(r) ==
    LET q == req[r] IN
    /\ q.pc = "save"
    /\ table' = IF IndexAllows(table, q.id, q.row)
                THEN [table EXCEPT ![q.id] = q.row]
                ELSE table
    /\ Finish(r)
    /\ UNCHANGED <<lastId, now>>

-----------------------------------------------------------------------------
(* Replies, failures and time *)

Return(r) == /\ req[r].pc = "replied"
             /\ Finish(r)
             /\ UNCHANGED <<table, lastId, now>>

\* A database error, a cancelled context or a crash ends a request between
\* two of its statements; an open transaction is rolled back.
Fail(r) == /\ req[r].pc \notin {"idle", "replied"}
           /\ Finish(r)
           /\ UNCHANGED <<table, lastId, now>>

Tick == /\ now < MaxTime
        /\ now' = now + 1
        /\ UNCHANGED <<table, lastId, req>>

Arrival(r) == PostConsent(r) \/ GetConsent(r) \/ PutConsent(r) \/ RevokeConsent(r)

Step(r) == \/ Lookup(r) \/ SaveExpired(r) \/ BuildConsent(r) \/ InsertConsent(r)
           \/ CommitRevokeAndCreate(r) \/ RevokeRead(r)
           \/ Authorize(r) \/ Decide(r) \/ SaveConsent(r) \/ Return(r)

Next == \/ \E r \in Requests : Arrival(r) \/ Step(r) \/ Fail(r)
        \/ Tick

Spec == Init /\ [][Next]_vars

-----------------------------------------------------------------------------
(* Properties *)

Request ==
    [pc: {"idle", "lookup", "expire", "revokeRead", "build", "create",
          "authorize", "decide", "save", "replied"},
     op: {"none", "create", "get", "portal", "revoke"},
     arg: CreateRequests \union Lookups \union PortalRequests \union {None},
     id: 0 .. MaxRecords, row: Consent \union {None},
     newId: 0 .. MaxRecords, new: Consent \union {None}]

\* The type invariant: a row of the table or of a request is well formed.
TypeOK == /\ table \in [Ids -> Consent \union {None}]
          /\ lastId \in 0 .. MaxRecords
          /\ now \in 0 .. MaxTime
          /\ req \in [Requests -> Request]

Stored == {id \in Ids : table[id] # None}

\* No interleaving of the stale Saves of concurrent requests puts two rows of
\* the same owner, e-mail, application and active status in the table: every
\* write of an active row, by Create or by Save, goes through the index.
ActiveRowsDistinct ==
    \A a, b \in Stored : a # b /\ Active(table[a]) => ~SameIndexKey(table[a], table[b])

\* A consent is approved only by its owner: whatever Save wrote the row last, an
\* approved row carries the e-mail its own portal session was checked against
\* (portal_handler.go UpdateConsent, which checks one read and saves another).
ApprovedByOwner ==
    \A id \in Stored : table[id].status = "approved" => table[id].updatedBy = table[id].email

\* An approved row always has a grant expiry, no further away than its grant
\* duration, and no pending deadline; a pending row has a deadline and no grant.
DeadlinesMatchStatus ==
    \A id \in Stored :
       LET row == table[id] IN
       /\ row.status = "approved" =>
             /\ row.grantExpiresAt # None
             /\ row.grantExpiresAt <= now + GrantLength[row.duration]
             /\ row.pendingExpiresAt = None
       /\ row.status = "pending" =>
             row.pendingExpiresAt # None /\ row.grantExpiresAt = None

\* A consent is revoked in favour of a new one only together with that new one:
\* a row revoked by revokeAndCreateConsent has a newer row of the same owner and
\* application, through failures, rollbacks and concurrent replacements.
ReplacedHasSuccessor ==
    \A id \in Stored :
       table[id].updatedBy = Replaced =>
          \E newer \in Stored : /\ newer > id
                                /\ table[newer].owner = table[id].owner
                                /\ table[newer].app = table[id].app

\* What CreateConsentRecord answers with is an active consent for exactly the
\* fields, the owner and the application it was asked for, on every path: an
\* existing row, a replacement, and a row created after an expiry.
AnswersTheRequest ==
    \A r \in Requests :
       req[r].pc = "replied" /\ req[r].op = "create" =>
          /\ Active(req[r].row)
          /\ req[r].row.fields = req[r].arg.fields
          /\ req[r].row.owner = req[r].arg.owner
          /\ req[r].row.app = req[r].arg.app

\* A step that answers a GET or a POST with an approved row.
ServesApproval(r) == /\ req[r].pc # "replied" /\ req'[r].pc = "replied"
                     /\ req[r].op \in {"create", "get"}
                     /\ req'[r].row.status = "approved"

ServedInTime ==
    \A r \in Requests : ServesApproval(r) => now <= req'[r].row.grantExpiresAt

\* The exchange is never told "approved" once the grant has run out: a step that
\* answers a GET or a POST with an approved row takes place before its expiry.
NoStaleApprovalServed == [][ServedInTime]_vars

SameTermsKept(id) == \A c \in {"owner", "email", "app", "fields", "duration"} :
                        table'[id][c] = table[id][c]

RowsKept == \A id \in Stored :
               /\ table'[id] # None
               /\ table'[id].status = "pending" => table[id].status = "pending"
               /\ SameTermsKept(id)

\* The history of a consent: a row is never removed, never changes hands, fields
\* or duration, and never becomes pending again, whichever stale row is saved.
HistoryKept == [][RowsKept]_vars

-----------------------------------------------------------------------------
(* The promise *)

\* A row of the table as the ledger knows it: without its deadlines.
EntryOf(row) ==
    [terms |-> [owner |-> row.owner, email |-> row.email, app |-> row.app,
                fields |-> row.fields, duration |-> row.duration],
     status |-> row.status,
     by |-> row.updatedBy]

Ledger == INSTANCE ConsentLedger WITH
              ledger <- [id \in Ids |-> IF table[id] = None THEN None
                                       ELSE EntryOf(table[id])]

ASSUME NoneIsNoEntry == None \notin Ledger!Entries

\* Stale reads, deferred saves, failures and rollbacks included, every statement
\* of every request does to the table what the ledger allows in one step: it asks
\* for a consent, settles one, or replaces one together with its successor.
ImplementsLedger == Ledger!Spec
=============================================================================
