---------------------- MODULE PolicyDecisionPointProofs ----------------------
(***************************************************************************)
(* Proofs about the policy decision point, for any number of requests,     *)
(* fields, applications, owners and grant lengths.                         *)
(*                                                                         *)
(* What a grant may give is bounded by the history variable granted.  The  *)
(* invariant bounds by it every allow list there is: those of the rows,    *)
(* those requests have read, and the entry a grant is about to write.      *)
(***************************************************************************)
EXTENDS PolicyDecisionPoint, TLAPS

\* An allow list of field f gives no application more than g, what was granted.
Bounded(allow, f, g) ==
    \A a \in Apps : allow[a] # None =>
       g[<<a, f>>] # None /\ allow[a] <= g[<<a, f>>]

\* A row is a row of the table, keeps the owner constraint and has a bounded list.
RowOK(row, f, g) ==
    row # None => /\ row \in Row
                  /\ row.isOwner <=> row.owner = None
                  /\ Bounded(row.allow, f, g)

\* A metadata request is about the fields of one schema, and has read their rows.
AboutSchema(q, schema) ==
    /\ \A rec \in q.arg : SchemaOf[rec.field] = schema
    /\ \A f \in Fields : q.read[f] # None => SchemaOf[f] = schema

\* What a request at work knows of its arguments.
ArgumentsOK(q, g) ==
    /\ q.pc = "metadata" => /\ q.arg \in MetadataRequests
                            /\ \E schema \in Schemas : AboutSchema(q, schema)
    /\ q.pc = "grant" =>
          /\ q.app \in Apps
          /\ q.arg.fields \subseteq Fields
          /\ q.arg.until \in Nat
          /\ \A f \in q.arg.fields :
                q.read[f] # None /\ g[<<q.app, f>>] # None /\ q.arg.until <= g[<<q.app, f>>]

ReadsOK(q, g) == \A f \in Fields : RowOK(q.read[f], f, g)

\* The inductive invariant.
PolicyInv ==
    /\ TypeOK
    /\ \A f \in Fields : RowOK(rows[f], f, granted)
    /\ \A r \in Requests : ArgumentsOK(req[r], granted) /\ ReadsOK(req[r], granted)

-----------------------------------------------------------------------------
(* Lemmas *)

\* RecordOf finds one of the records of a requested field.
LEMMA RecordFound ==
    ASSUME NEW recs \in MetadataRequests, NEW f \in Requested(recs)
    PROVE  RecordOf(recs, f) \in recs /\ RecordOf(recs, f) \in FieldRecords
  <1>1. \E rec \in recs : rec.field = f
    BY DEF Requested
  <1>2. RecordOf(recs, f) \in recs
    BY <1>1 DEF RecordOf
  <1> QED BY <1>2, ConstantsAssumption

\* A later expiry bounds both.
LEMMA LaterBounds ==
    ASSUME NEW a \in Time, NEW b \in Nat
    PROVE  /\ Later(a, b) \in Nat
           /\ b <= Later(a, b)
           /\ a # None => a <= Later(a, b)
  BY ConstantsAssumption DEF Later, Time

\* The row a metadata request builds keeps all that RowOK asks for.
LEMMA WrittenOK ==
    ASSUME TypeOK, NEW recs \in MetadataRequests, NEW f \in Fields, f \in Requested(recs),
           OwnerConstraint(recs), NEW old \in Row \union {None}, RowOK(old, f, granted),
           NEW k \in 1 .. MaxRows
    PROVE  RowOK(Written(RecordOf(recs, f), old, k), f, granted)
           /\ Written(RecordOf(recs, f), old, k) \in Row
  <1> DEFINE rec == RecordOf(recs, f)
             new == Written(rec, old, k)
  <1>1. rec \in recs /\ rec \in FieldRecords
    BY RecordFound
  <1>2. rec.isOwner <=> rec.owner = None
    BY <1>1 DEF OwnerConstraint
  <1> HIDE DEF rec
  <1>3. CASE old = None
    <2>1. new = [id |-> k, isOwner |-> rec.isOwner, owner |-> rec.owner,
                 access |-> rec.access, allow |-> [a \in Apps |-> None]]
      BY <1>3 DEF Written
    <2>2. new \in Row
      BY <2>1, <1>1 DEF Row, FieldRecords, AllowLists, Time
    <2>3. Bounded(new.allow, f, granted)
      BY <2>1 DEF Bounded
    <2> QED BY <2>1, <2>2, <2>3, <1>2 DEF RowOK, rec
  <1>4. CASE old # None
    <2>1. new = [id |-> old.id, isOwner |-> rec.isOwner, owner |-> rec.owner,
                 access |-> rec.access, allow |-> old.allow]
      BY <1>4 DEF Written
    <2>2. new \in Row
      BY <2>1, <1>1, <1>4 DEF Row, FieldRecords
    <2>3. Bounded(new.allow, f, granted)
      BY <2>1, <1>4 DEF RowOK
    <2> QED BY <2>1, <2>2, <2>3, <1>2 DEF RowOK, rec
  <1> QED BY <1>3, <1>4

\* A bound may grow.
Grows(g, h) ==
    \A x \in Apps \X Fields : g[x] # None => h[x] # None /\ g[x] <= h[x]

LEMMA RowOKGrows ==
    ASSUME NEW row, NEW f \in Fields,
           NEW g \in [Apps \X Fields -> Time], NEW h \in [Apps \X Fields -> Time],
           RowOK(row, f, g), Grows(g, h)
    PROVE  RowOK(row, f, h)
  <1> SUFFICES ASSUME row # None, NEW a \in Apps, row.allow[a] # None
               PROVE  h[<<a, f>>] # None /\ row.allow[a] <= h[<<a, f>>]
    BY DEF RowOK, Bounded
  <1>1. row.allow[a] \in Nat
    BY DEF RowOK, Row, AllowLists, Time
  <1>2. g[<<a, f>>] # None /\ row.allow[a] <= g[<<a, f>>]
    BY DEF RowOK, Bounded
  <1>3. <<a, f>> \in Apps \X Fields
    OBVIOUS
  <1>4. h[<<a, f>>] # None /\ g[<<a, f>>] <= h[<<a, f>>]
    BY <1>2, <1>3 DEF Grows
  <1>5. g[<<a, f>>] \in Nat /\ h[<<a, f>>] \in Nat
    BY <1>2, <1>3, <1>4 DEF Time
  <1> QED BY <1>1, <1>2, <1>4, <1>5

\* The same for what a request holds.
LEMMA RequestOKGrows ==
    ASSUME NEW q, q.read \in Table,
           NEW g \in [Apps \X Fields -> Time], NEW h \in [Apps \X Fields -> Time],
           ArgumentsOK(q, g), ReadsOK(q, g), Grows(g, h)
    PROVE  ArgumentsOK(q, h) /\ ReadsOK(q, h)
  <1>1. ReadsOK(q, h)
    BY RowOKGrows DEF ReadsOK
  <1>2. ASSUME q.pc = "grant", NEW f \in q.arg.fields
        PROVE  h[<<q.app, f>>] # None /\ q.arg.until <= h[<<q.app, f>>]
    <2>1. <<q.app, f>> \in Apps \X Fields
      BY <1>2 DEF ArgumentsOK
    <2>2. g[<<q.app, f>>] # None /\ q.arg.until <= g[<<q.app, f>>] /\ q.arg.until \in Nat
      BY <1>2 DEF ArgumentsOK
    <2>3. h[<<q.app, f>>] # None /\ g[<<q.app, f>>] <= h[<<q.app, f>>]
      BY <2>1, <2>2 DEF Grows
    <2>4. g[<<q.app, f>>] \in Nat /\ h[<<q.app, f>>] \in Nat
      BY <2>1, <2>2, <2>3 DEF Time
    <2> QED BY <2>2, <2>3, <2>4
  <1> QED BY <1>1, <1>2 DEF ArgumentsOK

-----------------------------------------------------------------------------
(* The inductive invariant *)

LEMMA PolicyInit == Init => PolicyInv
  <1> SUFFICES ASSUME Init PROVE PolicyInv
    OBVIOUS
  <1>1. TypeOK
    BY ConstantsAssumption DEF Init, TypeOK, NoRows, Idle, At, Table, Time
  <1> QED BY <1>1, ConstantsAssumption
          DEF PolicyInv, Init, RowOK, ArgumentsOK, ReadsOK, NoRows, Idle, At

\* A step that leaves the rows and the bounds alone and changes the request q of
\* one slot keeps the invariant if q is as it should be.
LEMMA OneRequest ==
    ASSUME PolicyInv, NEW r \in Requests, NEW q,
           req' = [req EXCEPT ![r] = q], UNCHANGED <<rows, lastId, now, granted>>,
           q.pc \in {"idle", "metadata", "grant", "decided"},
           q.app \in Apps \union {None}, q.read \in Table,
           ArgumentsOK(q, granted), ReadsOK(q, granted)
    PROVE  PolicyInv'
  <1>1. DOMAIN req' = Requests /\ \A s \in Requests : req'[s] = IF s = r THEN q ELSE req[s]
    BY DEF PolicyInv, TypeOK
  <1>2. TypeOK'
    BY <1>1 DEF PolicyInv, TypeOK
  <1>3. \A s \in Requests : ArgumentsOK(req'[s], granted') /\ ReadsOK(req'[s], granted')
    BY <1>1 DEF PolicyInv
  <1>4. \A f \in Fields : RowOK(rows'[f], f, granted')
    BY DEF PolicyInv
  <1> QED BY <1>2, <1>3, <1>4 DEF PolicyInv

LEMMA IdleOK ==
    ASSUME NEW g
    PROVE  /\ Idle.pc = "idle" /\ Idle.app = None /\ Idle.read \in Table
           /\ ArgumentsOK(Idle, g) /\ ReadsOK(Idle, g)
  BY DEF Idle, At, NoRows, Table, ArgumentsOK, ReadsOK, RowOK

\* The steps that end a request without writing.
LEMMA Finished ==
    ASSUME PolicyInv, NEW r \in Requests, Finish(r), UNCHANGED <<rows, lastId, now, granted>>
    PROVE  PolicyInv'
  BY IdleOK, OneRequest DEF Finish, Goto

LEMMA ReadMetadataOK ==
    ASSUME PolicyInv, NEW r \in Requests, ReadMetadata(r)
    PROVE  PolicyInv'
  <1> PICK schema \in Schemas, recs \in MetadataRequests :
         /\ \A rec \in recs : SchemaOf[rec.field] = schema
         /\ Goto(r, At("metadata", recs, None, RowsOf(schema)))
    BY DEF ReadMetadata
  <1> DEFINE q == At("metadata", recs, None, RowsOf(schema))
  <1>1. q.pc = "metadata" /\ q.arg = recs /\ q.app = None /\ q.read = RowsOf(schema)
    BY DEF At
  <1>2. req' = [req EXCEPT ![r] = q] /\ UNCHANGED <<rows, lastId, now, granted>>
    BY DEF ReadMetadata, Goto
  <1> HIDE DEF q
  <1>3. ArgumentsOK(q, granted) /\ ReadsOK(q, granted)
    <2>1. AboutSchema(q, schema)
      BY <1>1 DEF AboutSchema, RowsOf
    <2>2. ReadsOK(q, granted)
      BY <1>1 DEF ReadsOK, RowOK, RowsOf, PolicyInv
    <2> QED BY <1>1, <2>1, <2>2 DEF ArgumentsOK
  <1>4. q.read \in Table
    BY <1>1 DEF RowsOf, Table, PolicyInv, TypeOK
  <1> QED BY <1>1, <1>2, <1>3, <1>4, OneRequest

LEMMA GetPolicyDecisionOK ==
    ASSUME PolicyInv, NEW r \in Requests, GetPolicyDecision(r)
    PROVE  PolicyInv'
  <1> PICK a \in Apps, fs \in FieldSets :
         Goto(r, At("decided", [fields |-> fs, decision |-> Decision(a, fs)], a, NoRows))
    BY DEF GetPolicyDecision
  <1> DEFINE q == At("decided", [fields |-> fs, decision |-> Decision(a, fs)], a, NoRows)
  <1>1. q.pc = "decided" /\ q.app = a /\ q.read = NoRows
    BY DEF At
  <1>2. req' = [req EXCEPT ![r] = q] /\ UNCHANGED <<rows, lastId, now, granted>>
    BY DEF GetPolicyDecision, Goto
  <1> HIDE DEF q
  <1>3. ArgumentsOK(q, granted) /\ ReadsOK(q, granted) /\ q.read \in Table
    BY <1>1 DEF ArgumentsOK, ReadsOK, RowOK, NoRows, Table
  <1> QED BY <1>1, <1>2, <1>3, OneRequest
LEMMA CommitMetadataOK ==
    ASSUME PolicyInv, NEW r \in Requests, CommitMetadata(r)
    PROVE  PolicyInv'
  <1> DEFINE q == req[r]
             recs == q.arg
             fresh == {f \in Requested(recs) : q.read[f] = None}
             new(f) == Written(RecordOf(recs, f), q.read[f], lastId + 1)
  <1>1. recs \in MetadataRequests /\ q.read \in Table /\ ReadsOK(q, granted)
    BY DEF CommitMetadata, PolicyInv, ArgumentsOK, TypeOK
  <1>2. Requested(recs) \subseteq Fields
    BY <1>1, ConstantsAssumption DEF Requested, FieldRecords
  <1>3. UNCHANGED <<now, granted>> /\ Finish(r)
    BY DEF CommitMetadata
  <1>4. CASE UNCHANGED <<rows, lastId>>
    BY <1>3, <1>4, Finished
  <1>5. CASE /\ OwnerConstraint(recs)
             /\ fresh # {} => lastId < MaxRows
             /\ rows' = [f \in Fields |->
                            IF f \in Requested(recs) THEN Stored(f, new(f))
                            ELSE IF Deleted(f, q.read[f]) THEN None ELSE rows[f]]
             /\ lastId' = IF fresh # {} THEN lastId + 1 ELSE lastId
    <2>1. lastId' \in 0 .. MaxRows
      BY <1>5, ConstantsAssumption DEF PolicyInv, TypeOK
    <2>2. ASSUME NEW f \in Fields, f \in Requested(recs)
          PROVE  RowOK(Stored(f, new(f)), f, granted) /\ Stored(f, new(f)) \in Row
      <3>1. q.read[f] \in Row \union {None} /\ RowOK(q.read[f], f, granted)
        BY <1>1 DEF ReadsOK, Table
      <3>2. RowOK(new(f), f, granted) /\ new(f) \in Row
        <4>1. CASE q.read[f] = None
          <5>1. fresh # {}
            BY <2>2, <4>1
          <5>2. lastId + 1 \in 1 .. MaxRows
            BY <5>1, <1>5, ConstantsAssumption DEF PolicyInv, TypeOK
          <5> QED BY <5>2, <3>1, <1>1, <1>5, <2>2, WrittenOK DEF PolicyInv
        <4>2. CASE q.read[f] # None
          <5>1. q.read[f].id \in 1 .. MaxRows
            BY <3>1, <4>2 DEF Row
          <5>2. new(f) = Written(RecordOf(recs, f), q.read[f], q.read[f].id)
            BY <4>2 DEF Written
          <5> HIDE DEF new
          <5> QED BY <5>1, <5>2, <3>1, <1>1, <1>5, <2>2, WrittenOK DEF PolicyInv
        <4> QED BY <4>1, <4>2
      <3>3. new(f) # None
        BY <3>2, ConstantsAssumption
      <3> HIDE DEF new
      <3>4. CASE rows[f] = None
        BY <3>2, <3>4 DEF Stored
      <3>5. CASE rows[f] # None
        <4>1. rows[f] \in Row /\ Bounded(rows[f].allow, f, granted)
          BY <3>5 DEF PolicyInv, RowOK
        <4>2. Stored(f, new(f)) = [new(f) EXCEPT !.allow = rows[f].allow]
          BY <3>5 DEF Stored
        <4>3. /\ Stored(f, new(f)) \in Row
              /\ Stored(f, new(f)).allow = rows[f].allow
              /\ Stored(f, new(f)).isOwner = new(f).isOwner
              /\ Stored(f, new(f)).owner = new(f).owner
          BY <4>1, <4>2, <3>2 DEF Row
        <4> QED BY <4>1, <4>3, <3>2, <3>3 DEF RowOK
      <3> QED BY <3>4, <3>5
    <2> HIDE DEF new
    <2>3. \A f \in Fields : RowOK(rows'[f], f, granted) /\ rows'[f] \in Row \union {None}
      <3> TAKE f \in Fields
      <3>1. CASE f \in Requested(recs)
        BY <3>1, <2>2, <1>5
      <3>2. CASE f \notin Requested(recs)
        BY <3>2, <1>5 DEF PolicyInv, TypeOK, Table, RowOK
      <3> QED BY <3>1, <3>2
    <2>4. rows' \in Table
      BY <2>3, <1>5 DEF Table
    <2>5. DOMAIN req' = Requests /\ \A s \in Requests : req'[s] = IF s = r THEN Idle ELSE req[s]
      BY <1>3 DEF Finish, Goto, PolicyInv, TypeOK
    <2>6. TypeOK'
      BY <2>1, <2>4, <2>5, <1>3, IdleOK DEF PolicyInv, TypeOK
    <2>7. \A s \in Requests : ArgumentsOK(req'[s], granted') /\ ReadsOK(req'[s], granted')
      BY <2>5, <1>3, IdleOK DEF PolicyInv
    <2> QED BY <2>3, <2>6, <2>7, <1>3 DEF PolicyInv
  <1> QED BY <1>4, <1>5 DEF CommitMetadata

LEMMA ReadAllowListsOK ==
    ASSUME PolicyInv, NEW r \in Requests, ReadAllowLists(r)
    PROVE  PolicyInv'
  <1> PICK a \in Apps, fs \in FieldSets, d \in GrantDurations :
         /\ \A f \in fs : rows[f] # None
         /\ Goto(r, At("grant", [fields |-> fs, until |-> now + GrantLength[d]], a, rows))
         /\ granted' = [x \in Apps \X Fields |->
                           IF x[1] = a /\ x[2] \in fs
                           THEN Later(granted[x], now + GrantLength[d]) ELSE granted[x]]
    BY DEF ReadAllowLists
  <1> DEFINE until == now + GrantLength[d]
             q == At("grant", [fields |-> fs, until |-> until], a, rows)
  <1>1. until \in Nat
    BY ConstantsAssumption DEF PolicyInv, TypeOK
  <1> HIDE DEF until
  <1>2. /\ q.pc = "grant" /\ q.app = a /\ q.read = rows
        /\ q.arg.fields = fs /\ q.arg.until = until
    BY DEF At
  <1>3. /\ req' = [req EXCEPT ![r] = q]
        /\ granted' = [x \in Apps \X Fields |->
                          IF x[1] = a /\ x[2] \in fs THEN Later(granted[x], until) ELSE granted[x]]
        /\ UNCHANGED <<rows, lastId, now>>
    BY DEF ReadAllowLists, Goto, until
  <1> HIDE DEF q
  <1>4. granted' \in [Apps \X Fields -> Time] /\ granted \in [Apps \X Fields -> Time]
        /\ Grows(granted, granted')
    <2>1. \A x \in Apps \X Fields : granted[x] \in Time
      BY DEF PolicyInv, TypeOK
    <2>2. \A x \in Apps \X Fields :
             /\ Later(granted[x], until) \in Time
             /\ granted[x] # None => Later(granted[x], until) # None
                                     /\ granted[x] <= Later(granted[x], until)
      BY <2>1, <1>1, LaterBounds, ConstantsAssumption DEF Time
    <2>3. \A x \in Apps \X Fields : granted[x] # None => granted[x] <= granted[x]
      BY <2>1 DEF Time
    <2> QED BY <1>3, <2>1, <2>2, <2>3 DEF Grows, PolicyInv, TypeOK
  <1>5. fs \subseteq Fields
    BY ConstantsAssumption
  <1>6. ArgumentsOK(q, granted')
    <2> SUFFICES ASSUME NEW f \in fs
                 PROVE  granted'[<<a, f>>] # None /\ until <= granted'[<<a, f>>]
      BY <1>1, <1>2, <1>5 DEF ArgumentsOK, ReadAllowLists
    <2>1. <<a, f>> \in Apps \X Fields
      BY <1>5
    <2>2. granted'[<<a, f>>] = Later(granted[<<a, f>>], until)
      BY <2>1, <1>3
    <2>3. granted[<<a, f>>] \in Time
      BY <2>1, <1>4
    <2> QED BY <2>2, <2>3, <1>1, LaterBounds, ConstantsAssumption
  <1>7. \A f \in Fields : RowOK(rows[f], f, granted')
    BY <1>4, RowOKGrows DEF PolicyInv
  <1>8. ReadsOK(q, granted')
    BY <1>2, <1>7 DEF ReadsOK
  <1>9. \A s \in Requests : ArgumentsOK(req[s], granted') /\ ReadsOK(req[s], granted')
    BY <1>4, RequestOKGrows DEF PolicyInv, TypeOK
  <1>10. DOMAIN req' = Requests /\ \A s \in Requests : req'[s] = IF s = r THEN q ELSE req[s]
    BY <1>3 DEF PolicyInv, TypeOK
  <1>11. TypeOK'
    BY <1>2, <1>3, <1>4, <1>10 DEF PolicyInv, TypeOK
  <1> QED BY <1>3, <1>6, <1>7, <1>8, <1>9, <1>10, <1>11 DEF PolicyInv

LEMMA CommitAllowListsOK ==
    ASSUME PolicyInv, NEW r \in Requests, CommitAllowLists(r)
    PROVE  PolicyInv'
  <1> DEFINE q == req[r]
             row(f) == [rows[f] EXCEPT !.allow = [q.read[f].allow EXCEPT ![q.app] = q.arg.until]]
  <1>1. /\ rows' = [f \in Fields |-> IF Updates(q, f) THEN row(f) ELSE rows[f]]
        /\ UNCHANGED <<lastId, now, granted>> /\ Finish(r) /\ q.pc = "grant"
    BY DEF CommitAllowLists
  <1>2. ReadsOK(q, granted) /\ ArgumentsOK(q, granted) /\ q.read \in Table
    BY DEF PolicyInv, TypeOK
  <1>3. ASSUME NEW f \in Fields, Updates(q, f), q.read[f] # None
        PROVE  RowOK(row(f), f, granted) /\ row(f) \in Row
    <2>1. rows[f] # None /\ rows[f] \in Row /\ (rows[f].isOwner <=> rows[f].owner = None)
      BY <1>3 DEF Updates, PolicyInv, RowOK
    <2>2. q.read[f].allow \in AllowLists /\ Bounded(q.read[f].allow, f, granted)
      BY <1>2, <1>3 DEF ReadsOK, RowOK, Row
    <2>3. /\ q.app \in Apps /\ q.arg.until \in Nat
          /\ granted[<<q.app, f>>] # None /\ q.arg.until <= granted[<<q.app, f>>]
      BY <1>1, <1>2, <1>3 DEF ArgumentsOK, Updates
    <2> DEFINE allow == [q.read[f].allow EXCEPT ![q.app] = q.arg.until]
    <2>4. allow \in AllowLists /\ \A a \in Apps :
             allow[a] = IF a = q.app THEN q.arg.until ELSE q.read[f].allow[a]
      BY <2>2, <2>3 DEF AllowLists, Time
    <2>5. Bounded(allow, f, granted)
      BY <2>2, <2>3, <2>4 DEF Bounded
    <2> HIDE DEF allow
    <2>6. /\ row(f) \in Row /\ row(f).allow = allow
          /\ row(f).isOwner = rows[f].isOwner /\ row(f).owner = rows[f].owner
      BY <2>1, <2>4 DEF Row, allow
    <2> QED BY <2>1, <2>5, <2>6 DEF RowOK
  <1>4. \A f \in Fields : Updates(q, f) => q.read[f] # None
    BY <1>1, <1>2 DEF Updates, ArgumentsOK
  <1> HIDE DEF row
  <1>5. \A f \in Fields : RowOK(rows'[f], f, granted') /\ rows'[f] \in Row \union {None}
    <2> TAKE f \in Fields
    <2>1. CASE Updates(q, f)
      BY <2>1, <1>1, <1>3, <1>4
    <2>2. CASE ~Updates(q, f)
      BY <2>2, <1>1 DEF PolicyInv, TypeOK, Table
    <2> QED BY <2>1, <2>2
  <1>6. rows' \in Table
    BY <1>1, <1>5 DEF Table
  <1>7. DOMAIN req' = Requests /\ \A s \in Requests : req'[s] = IF s = r THEN Idle ELSE req[s]
    BY <1>1 DEF Finish, Goto, PolicyInv, TypeOK
  <1>8. TypeOK'
    BY <1>1, <1>6, <1>7, IdleOK DEF PolicyInv, TypeOK
  <1>9. \A s \in Requests : ArgumentsOK(req'[s], granted') /\ ReadsOK(req'[s], granted')
    BY <1>1, <1>7, IdleOK DEF PolicyInv
  <1> QED BY <1>5, <1>8, <1>9 DEF PolicyInv

LEMMA TickOK ==
    ASSUME PolicyInv, Tick
    PROVE  PolicyInv'
  <1>1. now' \in 0 .. MaxTime /\ UNCHANGED <<rows, lastId, req, granted>>
    BY ConstantsAssumption DEF Tick, PolicyInv, TypeOK
  <1>2. TypeOK'
    BY <1>1 DEF PolicyInv, TypeOK
  <1> QED BY <1>1, <1>2 DEF PolicyInv

LEMMA PolicyNext == PolicyInv /\ [Next]_vars => PolicyInv'
  <1> SUFFICES ASSUME PolicyInv, [Next]_vars
               PROVE  PolicyInv'
    OBVIOUS
  <1>1. ASSUME NEW r \in Requests, Return(r) \/ Fail(r)
        PROVE  PolicyInv'
    BY <1>1, Finished DEF Return, Fail
  <1>2. CASE UNCHANGED vars
    BY <1>2 DEF PolicyInv, TypeOK, vars
  <1> QED BY <1>1, <1>2, ReadMetadataOK, CommitMetadataOK, ReadAllowListsOK,
             CommitAllowListsOK, GetPolicyDecisionOK, TickOK DEF Next

\* What was granted is never taken back, and the clock never goes back.
GrantsGrow == Grows(granted, granted') /\ now \in Nat /\ now' \in Nat /\ now <= now'

LEMMA GrowingGrants == PolicyInv /\ [Next]_vars => GrantsGrow
  <1> SUFFICES ASSUME PolicyInv, [Next]_vars PROVE GrantsGrow
    OBVIOUS
  <1>1. PolicyInv'
    BY PolicyNext
  <1>2. /\ granted \in [Apps \X Fields -> Time] /\ granted' \in [Apps \X Fields -> Time]
        /\ now \in Nat /\ now' \in Nat
    BY <1>1 DEF PolicyInv, TypeOK
  <1>3. Grows(granted, granted) /\ now <= now
    BY <1>2 DEF Grows, Time
  <1>4. ASSUME NEW r \in Requests, ReadAllowLists(r) PROVE Grows(granted, granted') /\ now' = now
    <2> PICK a \in Apps, fs \in FieldSets, d \in GrantDurations :
           granted' = [x \in Apps \X Fields |->
                           IF x[1] = a /\ x[2] \in fs
                           THEN Later(granted[x], now + GrantLength[d]) ELSE granted[x]]
      BY <1>4 DEF ReadAllowLists
    <2>1. now + GrantLength[d] \in Nat
      BY <1>2, ConstantsAssumption
    <2>2. ASSUME NEW x \in Apps \X Fields, granted[x] # None
          PROVE  granted'[x] # None /\ granted[x] <= granted'[x]
      <3>1. granted[x] \in Nat
        BY <1>2, <2>2 DEF Time
      <3>2. granted'[x] \in {granted[x], Later(granted[x], now + GrantLength[d])}
        OBVIOUS
      <3> QED BY <2>1, <2>2, <3>1, <3>2, LaterBounds, ConstantsAssumption DEF Time
    <2> QED BY <1>4, <2>2 DEF Grows, ReadAllowLists
  <1>5. CASE Tick
    BY <1>2, <1>3, <1>5 DEF Tick, GrantsGrow
  <1>6. CASE UNCHANGED <<granted, now>>
    BY <1>2, <1>3, <1>6 DEF GrantsGrow
  <1> QED
    BY <1>2, <1>3, <1>4, <1>5, <1>6
       DEF GrantsGrow, Next, ReadMetadata, CommitMetadata, CommitAllowLists,
           GetPolicyDecision, Return, Fail, vars

\* What a decision on one field would let through now.
WithinGrants ==
    \A a \in Apps, f \in Fields :
       rows[f] # None /\ NotAllowed(a, {f}) = {} /\ Expired(a, {f}) = {} =>
          /\ granted[<<a, f>>] \in Nat /\ granted[<<a, f>>] # None
          /\ now \in Nat /\ now <= granted[<<a, f>>]

LEMMA AllowedIsGranted == PolicyInv => WithinGrants
  <1> SUFFICES ASSUME PolicyInv, NEW a \in Apps, NEW f \in Fields,
                      rows[f] # None, NotAllowed(a, {f}) = {}, Expired(a, {f}) = {}
               PROVE  /\ granted[<<a, f>>] \in Nat /\ granted[<<a, f>>] # None
                      /\ now \in Nat /\ now <= granted[<<a, f>>]
    BY DEF WithinGrants
  <1>1. rows[f].allow[a] # None /\ ~(now > rows[f].allow[a])
    BY DEF NotAllowed, Expired
  <1>2. /\ rows[f].allow[a] \in Nat /\ granted[<<a, f>>] # None
        /\ rows[f].allow[a] <= granted[<<a, f>>]
    BY <1>1 DEF PolicyInv, RowOK, Bounded, Row, AllowLists, Time
  <1>3. granted[<<a, f>>] \in Nat /\ now \in Nat
    BY <1>2 DEF PolicyInv, TypeOK, Time
  <1> QED BY <1>1, <1>2, <1>3

-----------------------------------------------------------------------------
(* Theorems *)

\* Every allow list there is, in the table or read by a request, is bounded by the
\* grants that were asked for; every row keeps the owner constraint.
THEOREM PolicyInvariance == Spec => []PolicyInv
  BY PolicyInit, PolicyNext, PTL DEF Spec

\* Type correctness (the tables and requests of policy_metadata_service.go).
THEOREM PolicyTypeCorrect == Spec => []TypeOK
  <1>1. PolicyInv => TypeOK
    BY DEF PolicyInv
  <1> QED BY <1>1, PolicyInvariance, PTL

\* No allow list gives access that was never granted, whatever stale rows
\* UpdateAllowList writes back and CreatePolicyMetadata inserts again.
THEOREM AccessIsGranted == Spec => []NoUngrantedAccess
  <1>1. PolicyInv => NoUngrantedAccess
    BY DEF PolicyInv, NoUngrantedAccess, RowOK, Bounded
  <1> QED BY <1>1, PolicyInvariance, PTL

\* The step of a request that decides is GetPolicyDecision.
LEMMA OnlyDecisionsDecide ==
    ASSUME PolicyInv, [Next]_vars, NEW r \in Requests, Decides(r)
    PROVE  \E a \in Apps, fs \in FieldSets :
              /\ \A f \in fs : rows[f] # None
              /\ req'[r] = At("decided", [fields |-> fs, decision |-> Decision(a, fs)], a, NoRows)
              /\ UNCHANGED <<rows, now, granted>>
  <1>1. DOMAIN req = Requests
    BY DEF PolicyInv, TypeOK
  <1>2. ASSUME NEW s \in Requests, NEW q, q.pc # "decided", req' = [req EXCEPT ![s] = q]
        PROVE  FALSE
    BY <1>1, <1>2 DEF Decides
  <1>3. Idle.pc # "decided"
    BY DEF Idle, At
  <1>4. ASSUME NEW s \in Requests, ReadMetadata(s) PROVE FALSE
    <2> PICK schema, recs : Goto(s, At("metadata", recs, None, RowsOf(schema)))
      BY <1>4 DEF ReadMetadata
    <2> QED BY <1>2 DEF Goto, At
  <1>5. ASSUME NEW s \in Requests, ReadAllowLists(s) PROVE FALSE
    <2> PICK arg, a : Goto(s, At("grant", arg, a, rows))
      BY <1>5 DEF ReadAllowLists
    <2> QED BY <1>2 DEF Goto, At
  <1>6. ASSUME NEW s \in Requests, Finish(s) PROVE FALSE
    BY <1>2, <1>3, <1>6 DEF Finish, Goto
  <1>7. ASSUME UNCHANGED req PROVE FALSE
    BY <1>7 DEF Decides
  <1>8. PICK s \in Requests : GetPolicyDecision(s)
    BY <1>4, <1>5, <1>6, <1>7
       DEF Next, CommitMetadata, CommitAllowLists, Return, Fail, Tick, vars
  <1>9. PICK a \in Apps, fs \in FieldSets :
          /\ \A f \in fs : rows[f] # None
          /\ req' = [req EXCEPT ![s] =
                At("decided", [fields |-> fs, decision |-> Decision(a, fs)], a, NoRows)]
    BY <1>8 DEF GetPolicyDecision, Goto
  <1>10. s = r
    BY <1>1, <1>9 DEF Decides
  <1> QED BY <1>1, <1>8, <1>9, <1>10 DEF GetPolicyDecision
\* What lets an application through: no field that is not allowed or has expired.
LEMMA CleanDecision ==
    ASSUME NEW a, NEW fs, Clean(Decision(a, fs))
    PROVE  NotAllowed(a, fs) = {} /\ Expired(a, fs) = {}
  <1>1. Decision(a, fs).appAuthorized = (NotAllowed(a, fs) = {})
    BY Zenon DEF Decision
  <1>2. Decision(a, fs).appAccessExpired = (Expired(a, fs) # {})
    BY Zenon DEF Decision
  <1> QED BY <1>1, <1>2, Zenon DEF Clean

LEMMA DecidesWithinGrantStep == PolicyInv /\ [Next]_vars => DecidesWithinGrant
  <1> SUFFICES ASSUME PolicyInv, [Next]_vars, NEW r \in Requests, Decides(r),
                      Clean(req'[r].arg.decision), NEW f \in req'[r].arg.fields
               PROVE  granted[<<req'[r].app, f>>] # None /\ now <= granted[<<req'[r].app, f>>]
    BY DEF DecidesWithinGrant
  <1>1. PICK a \in Apps, fs \in FieldSets :
          /\ \A g \in fs : rows[g] # None
          /\ req'[r] = At("decided", [fields |-> fs, decision |-> Decision(a, fs)], a, NoRows)
    BY OnlyDecisionsDecide
  <1>2. req'[r].app = a /\ req'[r].arg.fields = fs /\ req'[r].arg.decision = Decision(a, fs)
    BY <1>1 DEF At
  <1>3. NotAllowed(a, fs) = {} /\ Expired(a, fs) = {}
    BY <1>2, CleanDecision
  <1>4. f \in fs /\ f \in Fields /\ rows[f] # None
    BY <1>1, <1>2, ConstantsAssumption
  <1>5. NotAllowed(a, {f}) = {} /\ Expired(a, {f}) = {}
    BY <1>3, <1>4 DEF NotAllowed, Expired
  <1> QED BY <1>2, <1>4, <1>5, AllowedIsGranted DEF WithinGrants

\* A decision that lets an application through is within a grant of every field.
THEOREM DecisionsWithinGrants == Spec => DecisionWithinGrant
  <1>1. PolicyInv /\ [Next]_vars => DecidesWithinGrant
    BY DecidesWithinGrantStep
  <1> QED BY <1>1, PolicyInvariance, PTL DEF Spec, DecisionWithinGrant

LEMMA AsksOwnersStep == PolicyInv /\ [Next]_vars => AsksOwners
  <1> SUFFICES ASSUME PolicyInv, [Next]_vars, NEW r \in Requests, Decides(r),
                      Clean(req'[r].arg.decision), NEW f \in req'[r].arg.fields,
                      rows[f].owner # None, rows[f].access = "restricted"
               PROVE  f \in req'[r].arg.decision.consentRequired
    BY DEF AsksOwners
  <1>1. PICK a \in Apps, fs \in FieldSets :
          /\ \A g \in fs : rows[g] # None
          /\ req'[r] = At("decided", [fields |-> fs, decision |-> Decision(a, fs)], a, NoRows)
    BY OnlyDecisionsDecide
  <1>2. req'[r].arg.fields = fs /\ req'[r].arg.decision = Decision(a, fs)
    BY <1>1 DEF At
  <1>3. NotAllowed(a, fs) = {} /\ Expired(a, fs) = {}
    BY <1>2, CleanDecision
  <1>4. f \in fs /\ f \in Fields /\ rows[f] # None
    BY <1>1, <1>2, ConstantsAssumption
  <1>5. ~rows[f].isOwner
    BY <1>4 DEF PolicyInv, RowOK
  <1>6. f \in NeedsConsent(a, fs)
    BY <1>3, <1>4, <1>5 DEF NeedsConsent
  <1> QED BY <1>2, <1>6 DEF Decision

\* A restricted field of an owner is never let through without asking the owner,
\* because no metadata request can store a row that breaks the owner constraint.
THEOREM OwnersAreAsked == Spec => OwnerAlwaysAsked
  <1>1. PolicyInv /\ [Next]_vars => AsksOwners
    BY AsksOwnersStep
  <1> QED BY <1>1, PolicyInvariance, PTL DEF Spec, OwnerAlwaysAsked

LEMMA KeepsGrantsStep == PolicyInv /\ [Next]_vars => KeepsGrants
  <1> SUFFICES ASSUME PolicyInv, [Next]_vars, NEW r \in Requests,
                      req[r].pc = "metadata", req'[r].pc = "idle"
               PROVE  /\ \A f \in Fields :
                            rows[f] # None /\ rows'[f] # None /\ rows'[f].id = rows[f].id =>
                               rows'[f].allow = rows[f].allow
                      /\ \E schema \in Schemas : \A f \in Fields :
                            rows'[f] # rows[f] => SchemaOf[f] = schema
    BY DEF KeepsGrants
  <1>1. PICK schema \in Schemas : AboutSchema(req[r], schema)
    BY DEF PolicyInv, ArgumentsOK
  <1>2. CASE UNCHANGED rows
    BY <1>1, <1>2
  <1>3. ASSUME NEW s \in Requests, CommitAllowLists(s) PROVE FALSE
    <2>1. s # r /\ DOMAIN req = Requests
      BY <1>3 DEF CommitAllowLists, PolicyInv, TypeOK
    <2> QED BY <2>1, <1>3 DEF CommitAllowLists, Finish, Goto
  <1>4. ASSUME NEW s \in Requests, CommitMetadata(s), ~UNCHANGED rows, NEW f \in Fields
        PROVE  /\ rows[f] # None /\ rows'[f] # None => rows'[f].allow = rows[f].allow
               /\ rows'[f] # rows[f] => SchemaOf[f] = schema
    <2> DEFINE q == req[s]
               new == Written(RecordOf(q.arg, f), q.read[f], lastId + 1)
    <2>1. s = r
      <3>1. DOMAIN req = Requests
        BY DEF PolicyInv, TypeOK
      <3> QED BY <3>1, <1>4 DEF CommitMetadata, Finish, Goto
    <2>2. rows'[f] = IF f \in Requested(q.arg) THEN Stored(f, new)
                     ELSE IF Deleted(f, q.read[f]) THEN None ELSE rows[f]
      BY <1>4 DEF CommitMetadata
    <2> HIDE DEF new
    <2>3. CASE f \in Requested(q.arg)
      <3>1. SchemaOf[f] = schema
        BY <1>1, <2>1, <2>3 DEF AboutSchema, Requested
      <3>2. rows[f] # None => rows'[f] = [new EXCEPT !.allow = rows[f].allow]
        BY <2>2, <2>3 DEF Stored
      <3>3. "allow" \in DOMAIN new
        BY DEF Written, new
      <3> QED BY <3>1, <3>2, <3>3
    <2>4. CASE f \notin Requested(q.arg) /\ Deleted(f, q.read[f])
      BY <1>1, <2>1, <2>2, <2>4 DEF AboutSchema, Deleted
    <2>5. CASE f \notin Requested(q.arg) /\ ~Deleted(f, q.read[f])
      BY <2>2, <2>5
    <2> QED BY <2>3, <2>4, <2>5
  <1> QED BY <1>2, <1>3, <1>4
          DEF Next, ReadMetadata, ReadAllowLists, GetPolicyDecision, Return, Fail, Tick, vars

\* Replacing the metadata of a schema keeps the grants of the fields it keeps, and
\* every row of the other schemas.
THEOREM GrantsSurvive == Spec => MetadataKeepsGrants
  <1>1. PolicyInv /\ [Next]_vars => KeepsGrants
    BY KeepsGrantsStep
  <1> QED BY <1>1, PolicyInvariance, PTL DEF Spec, MetadataKeepsGrants
=============================================================================
