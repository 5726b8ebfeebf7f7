------------------------ MODULE PolicyDecisionPoint ------------------------
(***************************************************************************)
(* The policy decision point (src/exchange/policy-decision-point/v1): the  *)
(* policy_metadata rows, each with the allow list of a field of a schema,  *)
(* and the three requests of its API.                                      *)
(*                                                                         *)
(* CreatePolicyMetadata reads the rows in its transaction and writes them  *)
(* at the end of it; UpdateAllowList reads them before its transaction     *)
(* starts and writes whole allow lists back.  Both are a read step and a   *)
(* commit step here.  GetPolicyDecision is one query.                      *)
(***************************************************************************)
EXTENDS Naturals

CONSTANTS
    Requests,        \* slots for requests in flight
    Fields, Schemas,
    SchemaOf,        \* the schema of a field: the two are the key of a row
    Apps, Owners,
    GrantLength,     \* [GrantDurations -> Nat], in ticks: 30d and 365d
    MetadataRequests,\* the record sets POST /metadata is called with
    FieldSets,       \* the field sets grants and decisions are asked for
    None,
    MaxRows,         \* bound: rows built
    MaxTime          \* bound: ticks of the clock

GrantDurations == DOMAIN GrantLength
AccessTypes == {"public", "restricted"}
Time == Nat \union {None}
AllowLists == [Apps -> Time]    \* the expiry of each application's entry

FieldRecords == [field: Fields, isOwner: BOOLEAN, owner: Owners \union {None},
                 access: AccessTypes]
Row == [id: 1 .. MaxRows, isOwner: BOOLEAN, owner: Owners \union {None},
        access: AccessTypes, allow: AllowLists]
Table == [Fields -> Row \union {None}]

ASSUME ConstantsAssumption ==
    /\ MaxRows \in Nat /\ MaxTime \in Nat
    /\ SchemaOf \in [Fields -> Schemas]
    /\ GrantLength \in [GrantDurations -> Nat]
    /\ MetadataRequests \subseteq SUBSET FieldRecords
    /\ FieldSets \subseteq (SUBSET Fields) \ {{}}
    /\ None \notin Nat /\ None \notin Row /\ None \notin Owners

VARIABLES
    rows,      \* policy_metadata; (schema_id, field_name) is a unique index
    lastId,    \* the last row id handed out
    now,
    req,       \* the local state of every request slot
    granted    \* history: the latest expiry a grant request was to write

vars == <<rows, lastId, now, req, granted>>

NoRows == [f \in Fields |-> None]

\* A request: its step, its arguments and the rows it has read.  A decision
\* that has been answered holds its response.
At(pc, arg, app, read) == [pc |-> pc, arg |-> arg, app |-> app, read |-> read]
Idle == At("idle", None, None, NoRows)

Init == /\ rows = NoRows
        /\ lastId = 0
        /\ now = 0
        /\ req = [r \in Requests |-> Idle]
        /\ granted = [x \in Apps \X Fields |-> None]

Goto(r, q) == req' = [req EXCEPT ![r] = q]
Finish(r) == Goto(r, Idle)

Later(a, b) == IF a = None \/ (b # None /\ b > a) THEN b ELSE a

-----------------------------------------------------------------------------
(* POST /api/v1/policy/metadata *)

RowsOf(schema) == [f \in Fields |-> IF SchemaOf[f] = schema THEN rows[f] ELSE None]

\* The transaction starts and reads the rows of the request's schema.
ReadMetadata(r) ==
    /\ req[r].pc = "idle"
    /\ \E schema \in Schemas, recs \in MetadataRequests :
          /\ \A rec \in recs : SchemaOf[rec.field] = schema
          /\ Goto(r, At("metadata", recs, None, RowsOf(schema)))
    /\ UNCHANGED <<rows, lastId, now, granted>>

RecordOf(recs, f) == CHOOSE rec \in recs : rec.field = f
Requested(recs) == {rec.field : rec \in recs}

\* Two records for one field break the unique index, or hit one row twice.
Duplicated(recs) == \E a, b \in recs : a # b /\ a.field = b.field

\* Mutant: the BeforeCreate hook is dropped.
OwnerUnchecked(recs) == TRUE

\* validateOwnerConstraint, the BeforeCreate hook of every record.
OwnerConstraint(recs) ==
    \A rec \in recs : rec.isOwner <=> rec.owner = None

\* Mutant: a new record is built without an allow list.
WrittenWithoutAllowList(rec, old, k) ==
    [id |-> IF old = None THEN k ELSE old.id,
     isOwner |-> rec.isOwner, owner |-> rec.owner, access |-> rec.access,
     allow |-> IF old = None THEN None ELSE old.allow]

\* The row of a requested field: a new one under the id k, or the one read,
\* whose allow list is kept.  Ids tell apart the rows a field has had, so the
\* new rows of one commit share one.
Written(rec, old, k) ==
    [id |-> IF old = None THEN k ELSE old.id,
     isOwner |-> rec.isOwner, owner |-> rec.owner, access |-> rec.access,
     allow |-> IF old = None THEN [a \in Apps |-> None] ELSE old.allow]

\* INSERT needs a free key; Save is INSERT ... ON CONFLICT (id) DO UPDATE, which
\* needs the row it has read, or a free key if that row was deleted meanwhile.
KeyFree(f, old) ==
    rows[f] # None => (old # None /\ rows[f].id = old.id)

\* Mutant: DO UPDATE takes the allow list that was read, not the current one.
StoredAsRead(f, new) == new

\* DO UPDATE leaves allow_list, a column with a database default, as it is now.
Stored(f, new) == IF rows[f] = None THEN new ELSE [new EXCEPT !.allow = rows[f].allow]

\* Obsolete rows are deleted by the ids that were read.
Deleted(f, old) == old # None /\ rows[f] # None /\ rows[f].id = old.id

CommitMetadata(r) ==
    LET q == req[r]
        recs == q.arg
        fresh == {f \in Requested(recs) : q.read[f] = None}
        new(f) == Written(RecordOf(recs, f), q.read[f], lastId + 1)
    IN
    /\ q.pc = "metadata"
    /\ \/ /\ ~Duplicated(recs)
          /\ OwnerConstraint(recs)
          /\ \A f \in Requested(recs) : KeyFree(f, q.read[f])
          /\ fresh # {} => lastId < MaxRows
          /\ rows' = [f \in Fields |->
                         IF f \in Requested(recs) THEN Stored(f, new(f))
                         ELSE IF Deleted(f, q.read[f]) THEN None ELSE rows[f]]
          /\ lastId' = IF fresh # {} THEN lastId + 1 ELSE lastId
       \/ /\ \/ Duplicated(recs)
             \/ ~OwnerConstraint(recs)
             \/ \E f \in Requested(recs) : ~KeyFree(f, q.read[f])
          /\ UNCHANGED <<rows, lastId>>
    /\ Finish(r)
    /\ UNCHANGED <<now, granted>>

-----------------------------------------------------------------------------
(* POST /api/v1/policy/update-allowlist *)

\* The rows are read, and all must exist, before the transaction starts.
ReadAllowLists(r) ==
    /\ req[r].pc = "idle"
    /\ \E a \in Apps, fs \in FieldSets, d \in GrantDurations :
          /\ \A f \in fs : rows[f] # None
          /\ Goto(r, At("grant", [fields |-> fs, until |-> now + GrantLength[d]], a, rows))
          /\ granted' = [x \in Apps \X Fields |->
                            IF x[1] = a /\ x[2] \in fs
                            THEN Later(granted[x], now + GrantLength[d])
                            ELSE granted[x]]
    /\ UNCHANGED <<rows, lastId, now>>

\* Mutant: the entry is written to every row that was read.
WritesEveryRow(q, f) == rows[f] # None /\ q.read[f] # None /\ rows[f].id = q.read[f].id

\* UPDATE ... WHERE id: a row deleted meanwhile is missed without an error.
Updates(q, f) == /\ f \in q.arg.fields
                 /\ rows[f] # None
                 /\ rows[f].id = q.read[f].id

\* Each row gets the whole allow list that was read, plus the entry.
CommitAllowLists(r) ==
    LET q == req[r] IN
    /\ q.pc = "grant"
    /\ rows' = [f \in Fields |->
                   IF Updates(q, f)
                   THEN [rows[f] EXCEPT !.allow =
                            [q.read[f].allow EXCEPT ![q.app] = q.arg.until]]
                   ELSE rows[f]]
    /\ Finish(r)
    /\ UNCHANGED <<lastId, now, granted>>

-----------------------------------------------------------------------------
(* POST /api/v1/policy/decide *)

\* Mutant: an entry whose time has come still counts.
NeverExpired(a, fs) == {}

\* Public fields are no exception: the code looks for every field in its allow
\* list, although the README of the service says that any application can access
\* a public one.
NotAllowed(a, fs) == {f \in fs : rows[f].allow[a] = None}
Expired(a, fs) == {f \in fs \ NotAllowed(a, fs) : now > rows[f].allow[a]}

NeedsConsent(a, fs) ==
    {f \in fs \ (NotAllowed(a, fs) \union Expired(a, fs)) :
        ~rows[f].isOwner /\ rows[f].access = "restricted"}

\* The response; a field without metadata makes the request fail instead.
Decision(a, fs) ==
    [appAuthorized |-> NotAllowed(a, fs) = {},
     appAccessExpired |-> Expired(a, fs) # {},
     consentRequired |-> NeedsConsent(a, fs)]

GetPolicyDecision(r) ==
    /\ req[r].pc = "idle"
    /\ \E a \in Apps, fs \in FieldSets :
          /\ \A f \in fs : rows[f] # None
          /\ Goto(r, At("decided", [fields |-> fs, decision |-> Decision(a, fs)], a, NoRows))
    /\ UNCHANGED <<rows, lastId, now, granted>>

Return(r) == /\ req[r].pc = "decided"
             /\ Finish(r)
             /\ UNCHANGED <<rows, lastId, now, granted>>

\* A database error or a crash between the read and the commit.
Fail(r) == /\ req[r].pc \in {"metadata", "grant"}
           /\ Finish(r)
           /\ UNCHANGED <<rows, lastId, now, granted>>

Tick == /\ now < MaxTime
        /\ now' = now + 1
        /\ UNCHANGED <<rows, lastId, req, granted>>

Next == \/ \E r \in Requests :
              \/ ReadMetadata(r) \/ CommitMetadata(r)
              \/ ReadAllowLists(r) \/ CommitAllowLists(r)
              \/ GetPolicyDecision(r) \/ Return(r) \/ Fail(r)
        \/ Tick

Spec == Init /\ [][Next]_vars

-----------------------------------------------------------------------------
(* Properties *)

\* The type invariant.
TypeOK == /\ rows \in Table
          /\ lastId \in 0 .. MaxRows
          /\ now \in 0 .. MaxTime
          /\ DOMAIN req = Requests
          /\ \A r \in Requests :
                /\ req[r].pc \in {"idle", "metadata", "grant", "decided"}
                /\ req[r].app \in Apps \union {None}
                /\ req[r].read \in Table
          /\ granted \in [Apps \X Fields -> Time]

\* An application is on the allow list of a field only because it was granted
\* that field, and no longer than granted: no stale allow list, written back or
\* inserted again with a deleted row, gives access that was never granted.
NoUngrantedAccess ==
    \A a \in Apps, f \in Fields :
       rows[f] # None /\ rows[f].allow[a] # None =>
          granted[<<a, f>>] # None /\ rows[f].allow[a] <= granted[<<a, f>>]

Decides(r) == req[r].pc # "decided" /\ req'[r].pc = "decided"
Clean(d) == d.appAuthorized /\ ~d.appAccessExpired

DecidesWithinGrant ==
    \A r \in Requests :
       Decides(r) /\ Clean(req'[r].arg.decision) =>
          \A f \in req'[r].arg.fields :
             /\ granted[<<req'[r].app, f>>] # None
             /\ now <= granted[<<req'[r].app, f>>]

\* A decision that lets the application through was taken within a grant of
\* every field it is about.
DecisionWithinGrant == [][DecidesWithinGrant]_vars

AsksOwners ==
    \A r \in Requests :
       Decides(r) /\ Clean(req'[r].arg.decision) =>
          \A f \in req'[r].arg.fields :
             rows[f].owner # None /\ rows[f].access = "restricted" =>
                f \in req'[r].arg.decision.consentRequired

\* A restricted field that belongs to an owner is never let through without the
\* owner being asked, whatever metadata requests have made of the field.
OwnerAlwaysAsked == [][AsksOwners]_vars

KeepsGrants ==
    \A r \in Requests :
       req[r].pc = "metadata" /\ req'[r].pc = "idle" =>
          /\ \A f \in Fields :
                rows[f] # None /\ rows'[f] # None /\ rows'[f].id = rows[f].id =>
                   rows'[f].allow = rows[f].allow
          /\ \E schema \in Schemas : \A f \in Fields :
                rows'[f] # rows[f] => SchemaOf[f] = schema

\* Replacing the metadata of a schema leaves the grants of the fields it keeps
\* as they are, those committed after the rows were read included, and touches no
\* field of another schema.
MetadataKeepsGrants == [][KeepsGrants]_vars

-----------------------------------------------------------------------------
(* What the repository says and the code does not guarantee *)

\* policy_metadata_service.go UpdateAllowList: an allow list "may already contain
\* entries for other applications", and a request only updates the entry of its
\* own application.
OtherGrantsKept ==
    [][\A r \in Requests :
         req[r].pc = "grant" /\ req'[r].pc = "idle" =>
            \A f \in Fields, b \in Apps \ {req[r].app} :
               rows[f] # None /\ rows'[f] # None =>
                  rows'[f].allow[b] = rows[f].allow[b]]_vars
=============================================================================
