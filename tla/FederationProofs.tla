-------------------------- MODULE FederationProofs --------------------------
(***************************************************************************)
(* Proofs about Federation, for any number of queries, schemas, providers, *)
(* applications and owners, about ProviderQueries, for any providers,      *)
(* sources and argument mappings, and about Exchange, for any number of    *)
(* requests at the policy decision point and of consents besides.          *)
(***************************************************************************)
EXTENDS Exchange, ProviderQueries, SequenceTheorems, TLAPS

\* What a query t knows at its step.
KnowsOK(t) ==
    /\ t.pc # "idle" => t.ask # None
    /\ t.pc \notin {"idle", "load", "failed"} => t.schema # None
    /\ t.pc \in {"ce", "build", "fanout"} => Owner(t) # None

\* Its calls begin with the fan-out, to sources of its columns of which none is
\* forgotten, and its result is what had been appended when none was under way.
CallsOK(t) ==
    /\ t.pc \notin {"fanout", "answered"} => t.calls = NoCalls
    /\ t.pc \in {"fanout", "answered"} => Asked(t) \subseteq SourcesOf(t) /\ Forgotten(t) = {}
    /\ t.pc = "answered" => /\ Waited(t)
                            /\ t.result = Accumulated(t, InState(t, "appended"))

\* Its history h contains at least what holds now.
SawOK(t, h) ==
    t.pc \in Early =>
        /\ Granted(t.ask.app, policy) \subseteq h.granted
        /\ Open(t.ask.app, policy) \subseteq h.open
        /\ {c \in approved : c.app = t.ask.app} \subseteq h.approved

\* Past the decision, its columns were granted, and those that were never open
\* are the ones to ask consent for; past the consent, there was one.
ClearedOK(t, h) ==
    config.pdp =>
        /\ t.pc \in {"ce", "build"} =>
              \A c \in ColumnsOf(t) : c \in h.granted /\ (c \in h.open \/ c \in t.need)
        /\ t.pc = "build" /\ t.need # {} =>
              \E k \in h.approved : k.columns = t.need /\ k.owner = Owner(t)

QueryOK(t, h) ==
    /\ t \in QueryRecords /\ h \in Histories
    /\ KnowsOK(t) /\ CallsOK(t) /\ SawOK(t, h) /\ ClearedOK(t, h)

WorldOK ==
    /\ config \in Config
    /\ active \subseteq Schemas
    /\ policy \in [Apps \X Columns -> Rules]
    /\ approved \subseteq Consents

IInv ==
    /\ WorldOK
    /\ query \in [Queries -> QueryRecords]
    /\ seen \in [Queries -> Histories]
    /\ \A q \in Queries : QueryOK(query[q], seen[q])

-----------------------------------------------------------------------------
(* Facts about the operators *)

\* Columns, sources and owner depend on the question and the schema alone.
LEMMA SameQuestion ==
    ASSUME NEW r, NEW t, t.ask = r.ask, t.schema = r.schema
    PROVE  /\ ColumnsOf(t) = ColumnsOf(r)
           /\ SourcesOf(t) = SourcesOf(r)
           /\ Owner(t) = Owner(r)
           /\ \A S : Accumulated(t, S) = Accumulated(r, S)
  BY DEF ColumnsOf, SourcesOf, Owner, Accumulated

\* The columns of a query that has loaded a schema.
LEMMA ColumnsTyped ==
    ASSUME NEW r \in QueryRecords, r.ask # None, r.schema # None
    PROVE  ColumnsOf(r) \subseteq Columns /\ SourcesOf(r) \subseteq Sources
<1>1. r.ask.fields \subseteq Fields /\ r.schema \in Schemas
  BY ConstantsAssumption DEF QueryRecords
<1>2. ColumnsOf(r) \subseteq Columns
  BY <1>1, ConstantsAssumption DEF ColumnsOf
<1>3. QED
  BY <1>2, ConstantsAssumption DEF SourcesOf

LEMMA ObserveTyped ==
    ASSUME WorldOK, NEW app \in Apps
    PROVE  Observe(app, policy, approved) \in Histories
  BY DEF WorldOK, Observe, Histories, Granted, Open

\* Nothing is asked of a query without calls.
LEMMA NoCallsTyped == NoCalls \in [Sources -> CallStates]
  BY DEF NoCalls, CallStates

-----------------------------------------------------------------------------
(* Initial states and steps *)

LEMMA InitIInv == Init => IInv
<1> SUFFICES ASSUME Init PROVE IInv
  OBVIOUS
<1>1. WorldOK
  BY DEF Init, WorldOK, Rules
<1>2. Idle \in QueryRecords /\ Nothing \in Histories
  BY NoCallsTyped DEF Idle, Nothing, QueryRecords, Histories, PCs
<1>3. QueryOK(Idle, Nothing)
  BY <1>2 DEF QueryOK, KnowsOK, CallsOK, SawOK, ClearedOK, Idle, Early
<1>4. QED
  BY <1>1, <1>2, <1>3 DEF Init, IInv

\* A step of one query, in an unchanged world.
LEMMA QueryStep ==
    ASSUME IInv, NEW q \in Queries, NEW t, NEW h, QueryOK(t, h),
           Becomes(q, t), seen' = [seen EXCEPT ![q] = h],
           UNCHANGED <<config, world>>
    PROVE  IInv'
<1>1. t \in QueryRecords /\ h \in Histories
  BY DEF QueryOK
<1>2. /\ query' \in [Queries -> QueryRecords] /\ seen' \in [Queries -> Histories]
      /\ query'[q] = t /\ seen'[q] = h
      /\ \A p \in Queries \ {q} : query'[p] = query[p] /\ seen'[p] = seen[p]
  BY <1>1 DEF IInv, Becomes
<1>3. WorldOK'
  BY DEF IInv, WorldOK, world
<1>4. \A p \in Queries : QueryOK(query'[p], seen'[p])
  BY <1>2 DEF IInv
<1>5. ASSUME NEW p \in Queries, QueryOK(query'[p], seen'[p])
      PROVE  QueryOK(query[p], seen[p])'
  BY <1>5 DEF QueryOK, KnowsOK, CallsOK, SawOK, ClearedOK, world
<1>6. QED
  BY <1>2, <1>3, <1>4, <1>5 DEF IInv

\* The same, when the history follows the step as it does in the engine.
LEMMA MovesStep ==
    ASSUME IInv, NEW q \in Queries, NEW t \in QueryRecords, Moves(q, t),
           KnowsOK(t), CallsOK(t),
           t.pc \in Early => /\ query[q].pc \in Early /\ t.ask = query[q].ask
                             /\ ClearedOK(t, seen[q])
    PROVE  IInv'
<1>1. CASE t.pc \in Early
  <2>1. SawOK(t, seen[q])
    BY <1>1 DEF IInv, QueryOK, SawOK
  <2>2. QueryOK(t, seen[q])
    BY <1>1, <2>1 DEF QueryOK, IInv
  <2>3. seen' = [seen EXCEPT ![q] = seen[q]]
    BY <1>1 DEF Moves, IInv
  <2>4. QED
    BY <2>2, <2>3, QueryStep DEF Moves
<1>2. CASE t.pc \notin Early
  <2>1. Nothing \in Histories
    BY DEF Nothing, Histories
  <2>2. QueryOK(t, Nothing)
    BY <1>2, <2>1 DEF QueryOK, SawOK, ClearedOK, Early
  <2>3. QED
    BY <1>2, <2>2, QueryStep DEF Moves
<1>3. QED
  BY <1>1, <1>2

LEMMA ReceiveStep ==
    ASSUME IInv, NEW q \in Queries, Receive(q)
    PROVE  IInv'
<1>1. PICK k \in Questions :
         /\ Becomes(q, [Idle EXCEPT !.pc = "load", !.ask = k])
         /\ seen' = [seen EXCEPT ![q] = Observe(k.app, policy, approved)]
  BY DEF Receive
<1> DEFINE t == [Idle EXCEPT !.pc = "load", !.ask = k]
           h == Observe(k.app, policy, approved)
<1>2. /\ t \in QueryRecords /\ t.pc = "load" /\ t.ask = k /\ t.calls = NoCalls
      /\ k # None /\ k.app \in Apps
  BY NoCallsTyped, ConstantsAssumption DEF Idle, QueryRecords, PCs
<1>3. h \in Histories
  BY <1>2, ObserveTyped DEF IInv
<1>4. SawOK(t, h)
  BY <1>2 DEF SawOK, Observe
<1> HIDE DEF t, h
<1>5. QueryOK(t, h)
  BY <1>2, <1>3, <1>4 DEF QueryOK, KnowsOK, CallsOK, ClearedOK
<1>6. Becomes(q, t) /\ seen' = [seen EXCEPT ![q] = h] /\ UNCHANGED <<config, world>>
  BY <1>1 DEF Receive, t, h
<1>7. QED
  BY <1>5, <1>6, QueryStep

\* Failing is always possible for a query without calls.
LEMMA FailedStep ==
    ASSUME IInv, NEW q \in Queries, NEW r \in QueryRecords,
           r.ask # None, r.calls = NoCalls, Moves(q, Failed(r))
    PROVE  IInv'
<1> DEFINE t == Failed(r)
<1>1. t \in QueryRecords /\ t.pc = "failed" /\ t.ask # None /\ t.calls = NoCalls
  BY DEF Failed, QueryRecords, PCs
<1> HIDE DEF t
<1>2. KnowsOK(t) /\ CallsOK(t)
  BY <1>1 DEF KnowsOK, CallsOK
<1>3. Moves(q, t)
  BY DEF t
<1>4. QED
  BY <1>1, <1>2, <1>3, MovesStep DEF Early

\* After the decision a query goes on with what must be asked of the owner.
LEMMA DecidedStep ==
    ASSUME IInv, NEW q \in Queries, NEW r \in QueryRecords, NEW need \in SUBSET Columns,
           query[q].pc \in Early, r.ask = query[q].ask, r.ask # None, r.schema # None,
           r.calls = NoCalls, Moves(q, Decided(r, need)),
           config.pdp => \A c \in ColumnsOf(r) :
               c \in seen[q].granted /\ (c \in seen[q].open \/ c \in need)
    PROVE  IInv'
<1> DEFINE t == Decided(r, need)
<1>1. /\ t \in QueryRecords /\ t.pc \in {"failed", "ce", "build"} /\ t.need = need
      /\ t.ask = r.ask /\ t.schema = r.schema /\ t.calls = NoCalls
      /\ t.pc # "failed" => Owner(r) # None
      /\ t.pc = "build" => need = {}
  BY DEF Decided, QueryRecords, PCs
<1> HIDE DEF t
<1>2. Owner(t) = Owner(r) /\ ColumnsOf(t) = ColumnsOf(r)
  BY <1>1, SameQuestion
<1>3. KnowsOK(t) /\ CallsOK(t)
  BY <1>1, <1>2 DEF KnowsOK, CallsOK
<1>4. ClearedOK(t, seen[q])
  BY <1>1, <1>2 DEF ClearedOK
<1>5. Moves(q, t)
  BY DEF t
<1>6. QED
  BY <1>1, <1>3, <1>4, <1>5, MovesStep

LEMMA LoadSchemaStep ==
    ASSUME IInv, NEW q \in Queries, LoadSchema(q)
    PROVE  IInv'
<1>1. /\ query[q] \in QueryRecords /\ query[q].pc = "load" /\ query[q].ask # None
      /\ query[q].calls = NoCalls
  BY DEF IInv, QueryOK, KnowsOK, CallsOK, LoadSchema
<1>2. PICK s \in active \union {FallbackSchema} :
         LET r == [query[q] EXCEPT !.schema = s] IN
         Moves(q, IF s = None THEN Failed(r)
                  ELSE IF config.pdp THEN [r EXCEPT !.pc = "pdp"] ELSE Decided(r, {}))
  BY DEF LoadSchema
<1> DEFINE r == [query[q] EXCEPT !.schema = s]
<1>3. s \in Schemas \union {None}
  BY ConstantsAssumption DEF IInv, WorldOK
<1>4. /\ r \in QueryRecords /\ r.ask = query[q].ask /\ r.calls = NoCalls
      /\ r.schema = s /\ r.pc = "load"
  BY <1>1, <1>3 DEF QueryRecords
<1>5. Moves(q, IF s = None THEN Failed(r)
               ELSE IF config.pdp THEN [r EXCEPT !.pc = "pdp"] ELSE Decided(r, {}))
  BY <1>2
<1> HIDE DEF r
<1>6. CASE s = None
  BY <1>1, <1>4, <1>5, <1>6, FailedStep
<1>7. CASE s # None /\ config.pdp
  <2> DEFINE t == [r EXCEPT !.pc = "pdp"]
  <2>1. /\ t \in QueryRecords /\ t.pc = "pdp" /\ t.ask = query[q].ask
        /\ t.schema = s /\ t.calls = NoCalls
    BY <1>4 DEF QueryRecords, PCs
  <2>2. Moves(q, t)
    BY <1>5, <1>7
  <2> HIDE DEF t
  <2>3. KnowsOK(t) /\ CallsOK(t) /\ ClearedOK(t, seen[q])
    BY <1>1, <1>7, <2>1 DEF KnowsOK, CallsOK, ClearedOK
  <2>4. QED
    BY <1>1, <2>1, <2>2, <2>3, MovesStep DEF Early
<1>8. CASE s # None /\ ~config.pdp
  BY <1>1, <1>4, <1>5, <1>8, DecidedStep DEF Early
<1>9. QED
  BY <1>6, <1>7, <1>8

\* A clean decision: what needs no consent is open, and all of it is granted.
LEMMA PdpDecidesStep ==
    ASSUME IInv, NEW q \in Queries, PdpDecides(q)
    PROVE  IInv'
<1> DEFINE r == query[q]
           need == {c \in ColumnsOf(r) : policy[<<r.ask.app, c>>] = "consent"}
<1>1. /\ r \in QueryRecords /\ r.pc = "pdp" /\ r.ask # None /\ r.schema # None
      /\ r.calls = NoCalls /\ SawOK(r, seen[q])
  BY DEF IInv, QueryOK, KnowsOK, CallsOK, PdpDecides
<1>2. ColumnsOf(r) \subseteq Columns /\ r.ask.app \in Apps
  BY <1>1, ColumnsTyped, ConstantsAssumption DEF QueryRecords
<1>3. CASE ~Clean(r)
  BY <1>1, <1>3, FailedStep DEF PdpDecides
<1>4. CASE Clean(r)
  <2>1. ASSUME NEW c \in ColumnsOf(r)
        PROVE  c \in seen[q].granted /\ (c \in seen[q].open \/ c \in need)
    <3>1. policy[<<r.ask.app, c>>] \in {"open", "consent"}
      BY <1>2, <1>4 DEF Clean, IInv, WorldOK, Rules
    <3>2. c \in Granted(r.ask.app, policy)
      BY <1>2, <3>1 DEF Granted
    <3>3. policy[<<r.ask.app, c>>] = "open" => c \in Open(r.ask.app, policy)
      BY <1>2 DEF Open
    <3>4. QED
      BY <1>1, <3>1, <3>2, <3>3 DEF SawOK, Early
  <2>2. Moves(q, Decided(r, need))
    BY <1>4 DEF PdpDecides
  <2>3. need \in SUBSET Columns
    BY <1>2
  <2> HIDE DEF need
  <2>4. QED
    BY <1>1, <2>1, <2>2, <2>3, DecidedStep DEF Early
<1>5. QED
  BY <1>3, <1>4

LEMMA CeAnswersStep ==
    ASSUME IInv, NEW q \in Queries, CeAnswers(q)
    PROVE  IInv'
<1> DEFINE r == query[q]
           k == [app |-> r.ask.app, owner |-> Owner(r), columns |-> r.need]
           t == [r EXCEPT !.pc = "build"]
<1>1. /\ r \in QueryRecords /\ r.pc = "ce" /\ r.ask # None /\ r.schema # None
      /\ Owner(r) # None /\ r.calls = NoCalls
      /\ SawOK(r, seen[q]) /\ ClearedOK(r, seen[q])
  BY DEF IInv, QueryOK, KnowsOK, CallsOK, CeAnswers
<1>2. CASE ~ConsentApproved(r)
  BY <1>1, <1>2, FailedStep DEF CeAnswers
<1>3. CASE ConsentApproved(r)
  <2>1. /\ t \in QueryRecords /\ t.pc = "build" /\ t.ask = r.ask /\ t.schema = r.schema
        /\ t.need = r.need /\ t.calls = NoCalls
    BY <1>1 DEF QueryRecords, PCs
  <2>2. Owner(t) = Owner(r) /\ ColumnsOf(t) = ColumnsOf(r)
    BY <2>1, SameQuestion
  <2>3. k \in seen[q].approved /\ k.columns = r.need /\ k.owner = Owner(r)
    BY <1>1, <1>3 DEF ConsentApproved, SawOK, Early
  <2>4. Moves(q, t)
    BY <1>3 DEF CeAnswers
  <2> HIDE DEF t, k
  <2>5. KnowsOK(t) /\ CallsOK(t)
    BY <1>1, <2>1, <2>2 DEF KnowsOK, CallsOK
  <2>6. ClearedOK(t, seen[q])
    BY <1>1, <2>1, <2>2, <2>3 DEF ClearedOK
  <2>7. QED
    BY <1>1, <2>1, <2>4, <2>5, <2>6, MovesStep DEF Early
<1>4. QED
  BY <1>2, <1>3

LEMMA CallFailsStep ==
    ASSUME IInv, NEW q \in Queries, CallFails(q)
    PROVE  IInv'
<1>1. /\ query[q] \in QueryRecords /\ query[q].ask # None /\ query[q].calls = NoCalls
  BY DEF IInv, QueryOK, KnowsOK, CallsOK, CallFails
<1>2. QED
  BY <1>1, FailedStep DEF CallFails

LEMMA FanOutStep ==
    ASSUME IInv, NEW q \in Queries, FanOut(q)
    PROVE  IInv'
<1> DEFINE r == query[q]
<1>1. /\ r \in QueryRecords /\ r.pc = "build" /\ r.ask # None /\ r.schema # None
      /\ Owner(r) # None
  BY DEF IInv, QueryOK, KnowsOK, FanOut
<1>2. PICK S \in SUBSET SourcesOf(r) :
         Requested(r, S) /\ Moves(q, [r EXCEPT !.pc = "fanout",
            !.calls = [s \in Sources |->
                         IF s \in S \intersect Registered THEN "sent" ELSE "none"]])
  BY DEF FanOut
<1> DEFINE calls == [s \in Sources |->
                       IF s \in S \intersect Registered THEN "sent" ELSE "none"]
           t == [r EXCEPT !.pc = "fanout", !.calls = calls]
<1>3. /\ calls \in [Sources -> CallStates]
      /\ {s \in Sources : calls[s] # "none"} = S \intersect Registered
  <2>1. SourcesOf(r) \subseteq Sources
    BY <1>1, ColumnsTyped
  <2>2. QED
    BY <2>1 DEF CallStates
<1>4. Moves(q, t)
  BY <1>2
<1> HIDE DEF calls
<1>5. /\ t \in QueryRecords /\ t.pc = "fanout" /\ t.ask = r.ask /\ t.schema = r.schema
      /\ t.calls = calls
  BY <1>1, <1>3 DEF QueryRecords, PCs
<1> HIDE DEF t
<1>6. Owner(t) = Owner(r) /\ SourcesOf(t) = SourcesOf(r)
  BY <1>5, SameQuestion
<1>7. KnowsOK(t)
  BY <1>1, <1>5, <1>6 DEF KnowsOK
<1>8. Asked(t) = S \intersect Registered
  BY <1>3, <1>5 DEF Asked
<1>9. Forgotten(t) = {}
  BY <1>2, <1>6, <1>8 DEF Forgotten, SharesItsKey, Requested
<1>10. CallsOK(t)
  BY <1>5, <1>6, <1>8, <1>9 DEF CallsOK
<1>11. QED
  BY <1>4, <1>5, <1>7, <1>10, MovesStep DEF Early

\* A call that has begun goes on; the query must not have counted it already.
LEMMA CallStep ==
    ASSUME IInv, NEW q \in Queries, NEW s \in Sources,
           NEW from \in {"sent", "received"},
           NEW to \in CallStates \ {"none"}, Call(q, s, from, to)
    PROVE  IInv'
<1> DEFINE r == query[q]
           t == [r EXCEPT !.calls = [@ EXCEPT ![s] = to]]
<1>1. /\ r \in QueryRecords /\ KnowsOK(r) /\ CallsOK(r) /\ r.calls[s] = from
      /\ seen[q] \in Histories /\ r.calls \in [Sources -> CallStates]
  BY DEF IInv, QueryOK, Call, QueryRecords
<1>2. r.pc = "fanout"
  <2>1. r.calls # NoCalls
    BY <1>1 DEF NoCalls
  <2>2. ~Waited(r)
    BY <1>1 DEF Waited, InState
  <2>3. QED
    BY <1>1, <2>1, <2>2 DEF CallsOK
<1>3. /\ t \in QueryRecords /\ t.pc = "fanout" /\ t.ask = r.ask /\ t.schema = r.schema
      /\ t.calls = [r.calls EXCEPT ![s] = to]
  BY <1>1, <1>2 DEF QueryRecords
<1>4. Becomes(q, t) /\ seen' = [seen EXCEPT ![q] = seen[q]] /\ UNCHANGED <<config, world>>
  BY DEF Call, IInv
<1> HIDE DEF t
<1>5. Owner(t) = Owner(r) /\ SourcesOf(t) = SourcesOf(r)
  BY <1>3, SameQuestion
<1>6. Asked(t) = Asked(r) /\ Forgotten(t) = Forgotten(r)
  BY <1>1, <1>3, <1>5 DEF Asked, Forgotten, SharesItsKey
<1>7. KnowsOK(t) /\ CallsOK(t)
  BY <1>1, <1>2, <1>3, <1>5, <1>6 DEF KnowsOK, CallsOK
<1>8. QueryOK(t, seen[q])
  BY <1>1, <1>3, <1>7 DEF QueryOK, SawOK, ClearedOK, Early
<1>9. QED
  BY <1>4, <1>8, QueryStep

LEMMA AccumulateStep ==
    ASSUME IInv, NEW q \in Queries, Accumulate(q)
    PROVE  IInv'
<1> DEFINE r == query[q]
           t == [r EXCEPT !.pc = "answered", !.result = Accumulated(r, InState(r, "appended"))]
<1>1. /\ r \in QueryRecords /\ r.pc = "fanout" /\ r.ask # None /\ r.schema # None
      /\ Waited(r) /\ Asked(r) \subseteq SourcesOf(r) /\ Forgotten(r) = {}
  BY DEF IInv, QueryOK, KnowsOK, CallsOK, Accumulate
<1>2. Accumulated(r, InState(r, "appended")) \subseteq Fields
  BY <1>1, ConstantsAssumption DEF QueryRecords, Accumulated
<1>3. /\ t \in QueryRecords /\ t.pc = "answered" /\ t.ask = r.ask /\ t.schema = r.schema
      /\ t.calls = r.calls /\ t.result = Accumulated(r, InState(r, "appended"))
  BY <1>1, <1>2 DEF QueryRecords, PCs
<1>4. Moves(q, t)
  BY DEF Accumulate
<1> HIDE DEF t
<1>5. /\ SourcesOf(t) = SourcesOf(r) /\ Asked(t) = Asked(r) /\ Waited(t)
      /\ Forgotten(t) = Forgotten(r)
      /\ InState(t, "appended") = InState(r, "appended")
      /\ Accumulated(t, InState(t, "appended")) = Accumulated(r, InState(r, "appended"))
  BY <1>1, <1>3, SameQuestion DEF Asked, Waited, InState, Forgotten, SharesItsKey
<1>6. KnowsOK(t) /\ CallsOK(t)
  BY <1>1, <1>3, <1>5 DEF KnowsOK, CallsOK
<1>7. QED
  BY <1>3, <1>4, <1>6, MovesStep DEF Early

-----------------------------------------------------------------------------
(* The world *)

\* Whatever changes, every query that must see it does.
LEMMA WitnessStep ==
    ASSUME IInv, WorldOK', Witness(policy', approved'), UNCHANGED <<config, query>>
    PROVE  IInv'
<1>1. ASSUME NEW q \in Queries PROVE seen'[q] \in Histories /\ QueryOK(query[q], seen[q])'
  <2> DEFINE r == query[q]
  <2>1. QueryOK(r, seen[q]) /\ query' = query /\ config' = config
    BY DEF IInv
  <2>2. CASE r.pc \notin Early
    <3>1. seen'[q] = seen[q]
      BY <2>2 DEF Witness
    <3>2. QED
      BY <2>1, <2>2, <3>1 DEF QueryOK, KnowsOK, CallsOK, SawOK, ClearedOK, Early
  <2>3. CASE r.pc \in Early
    <3> DEFINE o == Observe(r.ask.app, policy', approved')
    <3>1. r.ask.app \in Apps
      BY <2>1, <2>3, ConstantsAssumption DEF QueryOK, KnowsOK, QueryRecords, Early
    <3>2. /\ seen'[q] = [granted |-> seen[q].granted \union o.granted,
                         open |-> seen[q].open \union o.open,
                         approved |-> seen[q].approved \union o.approved]
      BY <2>3 DEF Witness
    <3>3. o \in Histories
      BY <3>1 DEF WorldOK, Observe, Histories, Granted, Open
    <3>4. /\ o.granted = Granted(r.ask.app, policy') /\ o.open = Open(r.ask.app, policy')
          /\ o.approved = {c \in approved' : c.app = r.ask.app}
      BY DEF Observe
    <3> HIDE DEF o
    <3>5. seen'[q] \in Histories
      BY <2>1, <3>2, <3>3 DEF QueryOK, Histories
    <3>6. SawOK(query[q], seen[q])'
      BY <2>1, <3>2, <3>4 DEF SawOK
    <3>7. ClearedOK(query[q], seen[q])'
      BY <2>1, <3>2 DEF QueryOK, ClearedOK
    <3>8. QED
      BY <2>1, <3>5, <3>6, <3>7 DEF QueryOK, KnowsOK, CallsOK
  <2>4. QED
    BY <2>2, <2>3
<1>2. seen' \in [Queries -> Histories]
  <2>1. seen' = [q \in Queries |-> seen'[q]]
    BY DEF Witness
  <2>2. QED
    BY <1>1, <2>1
<1>3. QED
  BY <1>1, <1>2 DEF IInv

LEMMA WorldStep ==
    ASSUME IInv, World
    PROVE  IInv'
<1>1. CASE PolicyChanges
  <2>1. WorldOK'
    BY <1>1 DEF IInv, WorldOK, PolicyChanges
  <2>2. Witness(policy', approved') /\ UNCHANGED <<config, query>>
    BY <1>1 DEF PolicyChanges, Witness
  <2>3. QED
    BY <2>1, <2>2, WitnessStep
<1>2. ASSUME NEW c \in Consents, ConsentChanges(c)
      PROVE  IInv'
  <2>1. WorldOK'
    BY <1>2 DEF IInv, WorldOK, ConsentChanges
  <2>2. Witness(policy', approved') /\ UNCHANGED <<config, query>>
    BY <1>2 DEF ConsentChanges, Witness
  <2>3. QED
    BY <2>1, <2>2, WitnessStep
<1>3. CASE SchemasActivated
  <2>1. WorldOK'
    BY <1>3 DEF IInv, WorldOK, SchemasActivated
  <2>2. UNCHANGED <<config, policy, approved, query, seen>>
    BY <1>3 DEF SchemasActivated
  <2>3. QED
    BY <2>1, <2>2 DEF IInv, QueryOK, KnowsOK, CallsOK, SawOK, ClearedOK
<1>4. QED
  BY <1>1, <1>2, <1>3 DEF World

LEMMA NextStep ==
    ASSUME IInv, [Next]_vars
    PROVE  IInv'
<1>1. CASE UNCHANGED vars
  BY <1>1 DEF IInv, WorldOK, QueryOK, KnowsOK, CallsOK, SawOK, ClearedOK, vars
<1>2. CASE World
  BY <1>2, WorldStep
<1>3. ASSUME NEW q \in Queries, Receive(q) PROVE IInv'
  BY <1>3, ReceiveStep
<1>4. ASSUME NEW q \in Queries, LoadSchema(q) PROVE IInv'
  BY <1>4, LoadSchemaStep
<1>5. ASSUME NEW q \in Queries, CallFails(q) PROVE IInv'
  BY <1>5, CallFailsStep
<1>6. ASSUME NEW q \in Queries, FanOut(q) PROVE IInv'
  BY <1>6, FanOutStep
<1>7. ASSUME NEW q \in Queries, Accumulate(q) PROVE IInv'
  BY <1>7, AccumulateStep
<1>8. ASSUME NEW q \in Queries, PdpDecides(q) PROVE IInv'
  BY <1>8, PdpDecidesStep
<1>9. ASSUME NEW q \in Queries, CeAnswers(q) PROVE IInv'
  BY <1>9, CeAnswersStep
<1>10. ASSUME NEW q \in Queries, NEW s \in Sources, ProviderAnswers(q, s) PROVE IInv'
  BY <1>10, CallStep DEF ProviderAnswers, CallStates
<1>11. ASSUME NEW q \in Queries, NEW s \in Sources, AppendResponse(q, s) PROVE IInv'
  BY <1>11, CallStep DEF AppendResponse, CallStates
<1>12. ASSUME NEW q \in Queries, NEW s \in Sources, ProviderFails(q, s) PROVE IInv'
  BY <1>12, CallStep DEF ProviderFails, CallStates
<1>13. QED
  BY <1>1, <1>2, <1>3, <1>4, <1>5, <1>6, <1>7, <1>8, <1>9, <1>10, <1>11, <1>12
  DEF Next, EngineNext, Step

-----------------------------------------------------------------------------
(* The theorems *)

\* Fairness is not needed: it holds of the engine whatever its schedule.
LEMMA SafetyInvariance == Safety => []IInv
<1>1. IInv /\ [Next]_vars => IInv'
  BY NextStep
<1>2. QED
  BY <1>1, InitIInv, PTL DEF Safety

\* What a query has been cleared for, and whom its calls go to, in every state.
THEOREM FederationInvariance == Spec => []IInv
BY SafetyInvariance, PTL DEF Spec

\* Types; and the data owner is known before anybody is asked about it.
THEOREM FederationTypeCorrect == Spec => []TypeOK
<1>1. IInv => TypeOK
  BY DEF IInv, WorldOK, QueryOK, KnowsOK, TypeOK
<1>2. QED
  BY <1>1, FederationInvariance, PTL

\* An answer is complete but for the providers that failed, and no source has been
\* forgotten.
THEOREM AnswersComplete == Spec => []AnswerComplete
<1>1. IInv => AnswerComplete
  <2> SUFFICES ASSUME IInv, NEW q \in Queries, query[q].pc = "answered"
               PROVE  Asked(query[q]) \ InState(query[q], "failed")
                         = InState(query[q], "appended")
                      /\ query[q].result = Accumulated(query[q], InState(query[q], "appended"))
                      /\ Forgotten(query[q]) = {}
    BY DEF AnswerComplete
  <2> DEFINE r == query[q]
  <2>1. r \in QueryRecords /\ CallsOK(r)
    BY DEF IInv, QueryOK
  <2>2. r.calls \in [Sources -> CallStates]
    BY <2>1 DEF QueryRecords
  <2>3. QED
    BY <2>1, <2>2 DEF CallsOK, Waited, Asked, InState, CallStates
<1>2. QED
  BY <1>1, FederationInvariance, PTL

\* One argument for all sources means one owner for all providers.
THEOREM SubjectsAgree == Spec => []OneSubject
<1>1. IInv => OneSubject
  <2> SUFFICES ASSUME IInv, \A s, t \in Sources : ArgOf[s] = ArgOf[t],
                      NEW q \in Queries, NEW s \in Asked(query[q])
               PROVE  Subject(query[q], s) = Owner(query[q])
    BY DEF OneSubject
  <2> DEFINE r == query[q]
  <2>1. r \in QueryRecords /\ KnowsOK(r) /\ CallsOK(r)
    BY DEF IInv, QueryOK
  <2>2. r.pc \in {"fanout", "answered"}
    BY <2>1 DEF CallsOK, Asked, NoCalls
  <2>3. s \in SourcesOf(r)
    BY <2>1, <2>2 DEF CallsOK
  <2>4. SourcesOf(r) \subseteq Sources
    BY <2>1, <2>2, ColumnsTyped DEF KnowsOK
  <2> DEFINE I(S) == {i \in DOMAIN r.ask.args : \E t \in S : r.ask.args[i].name = ArgOf[t]}
  <2>5. I(SourcesOf(r)) = I({s})
    BY <2>3, <2>4
  <2>6. /\ Owner(r) = IF I(SourcesOf(r)) = {} THEN None
                     ELSE r.ask.args[CHOOSE i \in I(SourcesOf(r)) :
                                       \A j \in I(SourcesOf(r)) : i <= j].value
        /\ Subject(r, s) = IF I({s}) = {} THEN None
                           ELSE r.ask.args[CHOOSE i \in I({s}) : \A j \in I({s}) : i <= j].value
    BY Zenon DEF Subject, Owner, FirstArgument
  <2> HIDE DEF I
  <2>7. QED
    BY <2>5, <2>6
<1>2. QED
  BY <1>1, FederationInvariance, PTL

\* No other action asks the providers.
LEMMA OnlyFanOut ==
    ASSUME IInv, Next, NEW q \in Queries, query[q].pc = "build", query'[q].pc = "fanout"
    PROVE  FanOut(q)
<1>1. ASSUME NEW p \in Queries \ {q}, NEW t, Becomes(p, t) PROVE FALSE
  BY <1>1 DEF Becomes, IInv
<1>2. ~ World
  BY DEF World, PolicyChanges, ConsentChanges, SchemasActivated
<1>3. PICK p \in Queries :
         \/ Receive(p) \/ Step(p) \/ PdpDecides(p) \/ CeAnswers(p)
         \/ \E s \in Sources :
               ProviderAnswers(p, s) \/ AppendResponse(p, s) \/ ProviderFails(p, s)
  BY <1>2 DEF Next, EngineNext
<1>4. p = q
  <2>1. \E t : Becomes(p, t)
    BY <1>3 DEF Receive, Step, LoadSchema, CallFails, FanOut, Accumulate, PdpDecides,
                CeAnswers, ProviderAnswers, AppendResponse, ProviderFails, Call, Moves
  <2>2. QED
    BY <1>1, <2>1
<1>5. ASSUME NEW s \in Sources, NEW from, NEW to, Call(q, s, from, to) PROVE FALSE
  BY <1>5 DEF Call, Becomes, IInv, QueryRecords
<1>6. QED
  BY <1>3, <1>4, <1>5 DEF Receive, Step, LoadSchema, CallFails, Accumulate, PdpDecides,
     CeAnswers, ProviderAnswers, AppendResponse, ProviderFails

\* What a query asks for, it may: it passed the decision and the consent.
LEMMA AsksWhatItMay ==
    ASSUME IInv, Next, NEW q \in Queries, NEW c \in ColumnsOf(query'[q]),
           query[q].pc = "build", query'[q].pc = "fanout", config.pdp
    PROVE  MayAsk(q, c) /\ query'[q].ask = query[q].ask
<1>1. query'[q].ask = query[q].ask /\ query'[q].schema = query[q].schema
  <2>1. FanOut(q)
    BY OnlyFanOut
  <2>2. query[q] \in QueryRecords
    BY DEF IInv
  <2>3. QED
    BY <2>1, <2>2 DEF FanOut, Moves, Becomes, IInv, QueryRecords
<1>2. Owner(query'[q]) = Owner(query[q]) /\ ColumnsOf(query'[q]) = ColumnsOf(query[q])
  BY <1>1, SameQuestion
<1>3. ClearedOK(query[q], seen[q])
  BY DEF IInv, QueryOK
<1>4. CASE query[q].need = {}
  BY <1>1, <1>2, <1>3, <1>4 DEF ClearedOK, MayAsk
<1>5. CASE query[q].need # {}
  BY <1>1, <1>2, <1>3, <1>5 DEF ClearedOK, MayAsk
<1>6. QED
  BY <1>4, <1>5

\* No provider is asked for what was not granted, or lacked consent throughout.
THEOREM GateHolds == Spec => Gate
<1>1. IInv /\ [Next]_vars => [AsksWithinGrants]_vars
  <2>1. ASSUME IInv, Next PROVE AsksWithinGrants
    BY <2>1, AsksWhatItMay DEF AskedOf, AsksWithinGrants
  <2>2. QED
    BY <2>1
<1>2. QED
  BY <1>1, FederationInvariance, PTL DEF Spec, Safety, Gate

-----------------------------------------------------------------------------
(* ProviderQueries: the requests of one query *)

\* The sources that are in the provider query of p.
Built(p) == {s \in collected \ records : s.provider = p /\ s.schema = requests[p].schema}

\* A provider query has the fields of its sources so far, and no other.
RequestOK(p) ==
    /\ requests[p] \in [schema : STRING, first : STRING, tree : SUBSET Paths]
    /\ requests[p].tree = UNION {Prefixes(s.path) : s \in Built(p)}

\* The arguments of all provider queries.
AllPlaced == UNION {UNION {Placed(p, m) : m \in RequiredBy(p)} : p \in DOMAIN requests}

QueriesInv ==
    /\ pc \in {"collect", "build", "arguments", "ask", "accumulate"}
    /\ collected \subseteq Records /\ records \subseteq collected
    /\ pc = "collect" => collected = {}
    /\ pc \notin {"collect", "build"} => records = {}
    /\ DOMAIN requests = {s.provider : s \in collected \ records}
    /\ \A p \in DOMAIN requests : RequestOK(p)
    /\ pc \in {"ask", "accumulate"} => args = AllPlaced

\* The prefixes of a path are paths.
LEMMA PrefixesArePaths ==
    ASSUME NEW path \in Paths
    PROVE  Prefixes(path) \subseteq Paths /\ path[1] \in STRING
<1> SUFFICES ASSUME NEW n \in 1..Len(path) PROVE SubSeq(path, 1, n) \in Paths /\ path[1] \in STRING
  <2>1. Len(path) \in Nat /\ path # <<>> /\ path \in Seq(STRING)
    BY DEF Paths
  <2>2. 1 \in 1..Len(path)
    BY <2>1, EmptySeq
  <2>3. QED
    BY <2>2 DEF Prefixes
<1>1. path \in Seq(STRING) /\ Len(path) \in Nat
  BY DEF Paths
<1>2. \A i \in 1..n : path[i] \in STRING
  BY <1>1, ElementOfSeq
<1>3. SubSeq(path, 1, n) \in Seq(STRING) /\ Len(SubSeq(path, 1, n)) = n
  BY <1>1, <1>2, SubSeqProperties
<1>4. QED
  BY <1>1, <1>2, <1>3 DEF Paths

\* A path that is a prefix of another is among its prefixes, and of itself.
LEMMA PrefixAmongPrefixes ==
    ASSUME NEW path \in Paths, NEW target \in Paths
    PROVE  /\ Prefix(target, path) => target \in Prefixes(path)
           /\ Prefix(target, target)
<1>1. /\ target \in Seq(STRING) /\ Len(target) \in Nat \ {0} /\ Len(path) \in Nat
      /\ SubSeq(target, 1, Len(target)) = target
  BY SubSeqFull, EmptySeq DEF Paths
<1>2. Len(target) <= Len(target)
  BY <1>1
<1>3. ASSUME Prefix(target, path) PROVE target \in Prefixes(path)
  <2>1. Len(target) <= Len(path) /\ SubSeq(path, 1, Len(target)) = target
    BY <1>3, Zenon DEF Prefix
  <2>2. Len(target) \in 1..Len(path)
    BY <1>1, <2>1
  <2>3. QED
    BY <2>1, <2>2, Zenon DEF Prefixes
<1>4. QED
  BY <1>1, <1>2, <1>3, Zenon DEF Prefix

\* The arguments, and so the provider queries, are only looked at afterwards.
LEMMA QueriesStutter == QueriesInv /\ UNCHANGED queryVars => QueriesInv'
BY DEF QueriesInv, queryVars, RequestOK, Built, AllPlaced, Placed, RequiredBy, Required

\* One source more: its provider's query gets its fields, the others stay.
LEMMA BuildStep ==
    ASSUME QueriesInv, pc = "build", NEW rec \in records, records' = records \ {rec},
           requests' = With(requests, rec.provider, Pushed(rec, QueryOf(rec))),
           UNCHANGED <<pc, collected, args>>
    PROVE  QueriesInv'
<1> DEFINE p == rec.provider
           added == QueryOf(rec)
           done == collected \ records
<1>1. /\ rec \in Records /\ rec \in collected /\ rec.schema \in STRING /\ rec.path \in Paths
      /\ collected \ records' = done \union {rec}
  BY RecordsAssumption DEF QueriesInv
<1>2. /\ DOMAIN requests' = DOMAIN requests \union {p}
      /\ requests'[p] = Pushed(rec, added)
      /\ \A o \in DOMAIN requests : o # p => requests'[o] = requests[o]
  BY DEF With
<1>3. DOMAIN requests = {s.provider : s \in done}
  BY DEF QueriesInv
<1>4. DOMAIN requests' = {s.provider : s \in collected' \ records'}
  BY <1>1, <1>2, <1>3
<1>5. ASSUME NEW o \in DOMAIN requests, o # p PROVE RequestOK(o)'
  <2>1. requests'[o] = requests[o] /\ RequestOK(o)
    BY <1>2, <1>5 DEF QueriesInv
  <2>2. Built(o)' = Built(o)
    BY <1>1, <1>5, <2>1 DEF Built
  <2>3. QED
    BY <2>1, <2>2 DEF RequestOK
<1>6. /\ added \in [schema : STRING, first : STRING, tree : SUBSET Paths]
      /\ added.tree =
            UNION {Prefixes(s.path) : s \in {t \in done : t.provider = p /\ t.schema = added.schema}}
  <2>1. CASE p \in DOMAIN requests
    BY <2>1 DEF QueryOf, QueriesInv, RequestOK, Built
  <2>2. CASE p \notin DOMAIN requests
    <3>1. added = [schema |-> rec.schema, first |-> rec.path[1], tree |-> {}]
      BY <2>2 DEF QueryOf
    <3>2. \A t \in done : t.provider # p
      BY <1>3, <2>2
    <3>3. QED
      BY <1>1, <3>1, <3>2, PrefixesArePaths
  <2>3. QED
    BY <2>1, <2>2
<1> HIDE DEF added
<1>7. RequestOK(p)'
  <2>1. CASE added.schema = rec.schema
    <3>1. /\ requests'[p] \in [schema : STRING, first : STRING, tree : SUBSET Paths]
          /\ requests'[p].schema = rec.schema
          /\ requests'[p].tree = added.tree \union Prefixes(rec.path)
      <4>1. requests'[p] = [added EXCEPT !.tree = added.tree \union Prefixes(rec.path)]
        BY <1>2, <2>1 DEF Pushed, PushField
      <4>2. Prefixes(rec.path) \subseteq Paths /\ added.tree \subseteq Paths
        BY <1>1, <1>6, PrefixesArePaths
      <4>3. QED
        BY <1>6, <2>1, <4>1, <4>2
    <3>2. Built(p)' = {t \in done : t.provider = p /\ t.schema = rec.schema} \union {rec}
      BY <1>1, <3>1 DEF Built
    <3>3. QED
      BY <1>6, <2>1, <3>1, <3>2 DEF RequestOK
  <2>2. CASE added.schema # rec.schema
    <3>1. requests'[p] = added
      BY <1>2, <2>2 DEF Pushed
    <3>2. Built(p)' = {t \in done : t.provider = p /\ t.schema = added.schema}
      BY <1>1, <2>2, <3>1 DEF Built
    <3>3. QED
      BY <1>6, <3>1, <3>2 DEF RequestOK
  <2>3. QED
    BY <2>1, <2>2
<1>8. \A o \in DOMAIN requests' : RequestOK(o)'
  BY <1>2, <1>5, <1>7
<1>9. QED
  BY <1>1, <1>4, <1>8 DEF QueriesInv

\* The provider queries and arguments at every step, for any sources and mappings.
THEOREM QueriesInvariance == QuerySpec => []QueriesInv
<1>1. QueryInit => QueriesInv
  BY DEF QueryInit, QueriesInv, NoRequests
<1>2. QueriesInv /\ [QueryNext]_queryVars => QueriesInv'
  <2> SUFFICES ASSUME QueriesInv, QueryNext PROVE QueriesInv'
    BY QueriesStutter
  <2>1. ASSUME NEW sources \in SUBSET Records, CollectSources(sources) PROVE QueriesInv'
    BY <2>1 DEF CollectSources, QueriesInv, RequestOK, Built
  <2>2. CASE Build
    <3>1. CASE records = {}
      BY <2>2, <3>1 DEF Build, QueriesInv, RequestOK, Built
    <3>2. CASE records # {}
      BY <2>2, <3>2, BuildStep DEF Build
    <3>3. QED
      BY <3>1, <3>2
  <2>3. CASE Arguments
    BY <2>3 DEF Arguments, QueriesInv, RequestOK, Built, AllPlaced, Placed, RequiredBy, Required
  <2>4. CASE Send
    BY <2>4 DEF Send, QueriesInv, RequestOK, Built, AllPlaced, Placed, RequiredBy, Required
  <2>5. QED
    BY <2>1, <2>2, <2>3, <2>4 DEF QueryNext
<1>3. QED
  BY <1>1, <1>2, PTL DEF QuerySpec

\* The requests are complete: one for every provider of a source, with exactly
\* the fields of its sources, and below its first field the arguments that are
\* mapped to them, each in its place.
THEOREM RequestsSound == QuerySpec => []RequestsComplete
<1>1. QueriesInv => RequestsComplete
  <2> SUFFICES ASSUME QueriesInv, pc = "ask" PROVE RequestsComplete
    BY DEF RequestsComplete
  <2>1. /\ records = {} /\ collected \subseteq Records
        /\ DOMAIN requests = {s.provider : s \in collected}
        /\ args = AllPlaced
    BY DEF QueriesInv
  <2>2. ASSUME NEW p \in DOMAIN requests
        PROVE  /\ Built(p) = {t \in collected : t.provider = p /\ t.schema = requests[p].schema}
               /\ requests[p].tree = UNION {Prefixes(s.path) : s \in Built(p)}
    BY <2>1 DEF Built, QueriesInv, RequestOK
  <2>3. ASSUME NEW p \in DOMAIN requests, NEW m \in RequiredBy(p),
               m.target[1] = requests[p].first
        PROVE  <<p, m.target, m.name>> \in args
    <3>1. PICK s \in collected : m.provider = s.provider /\ m.schema = s.schema
                                 /\ Prefix(m.target, s.path)
      BY DEF RequiredBy, Required
    <3>2. m.target \in Paths /\ s.path \in Paths /\ m.provider = p /\ m.schema = requests[p].schema
      BY <2>1, <3>1, RecordsAssumption DEF RequiredBy, Required
    <3>3. m.target \in Prefixes(s.path) /\ Prefix(m.target, m.target)
      BY <3>1, <3>2, PrefixAmongPrefixes
    <3>4. m.target \in requests[p].tree
      <4>1. s \in Built(p)
        BY <2>2, <3>1, <3>2
      <4>2. requests[p].tree = UNION {Prefixes(t.path) : t \in Built(p)}
        BY <2>2
      <4>3. QED
        BY <3>3, <4>1, <4>2, Zenon
    <3>5. Visited(requests[p], m.target) = m.target
      BY <2>3 DEF Visited
    <3>6. <<p, m.target, m.name>> \in Placed(p, m)
      BY <3>3, <3>4, <3>5 DEF Placed
    <3>7. QED
      BY <2>1, <3>6 DEF AllPlaced
  <2>4. ASSUME NEW a \in args, a[2][1] = requests[a[1]].first
        PROVE  \E m \in RequiredBy(a[1]) : m.name = a[3] /\ Prefix(a[2], m.target)
    <3> PICK p \in DOMAIN requests : a \in UNION {Placed(p, m) : m \in RequiredBy(p)}
      BY <2>1 DEF AllPlaced
    <3>1. PICK m \in RequiredBy(p) : a \in Placed(p, m)
      OBVIOUS
    <3>2. PICK path \in requests[p].tree :
              a = <<p, path, m.name>> /\ Prefix(Visited(requests[p], path), m.target)
      BY <3>1 DEF Placed
    <3>3. Visited(requests[p], path) = path
      BY <2>4, <3>2 DEF Visited
    <3>4. QED
      BY <3>1, <3>2, <3>3
  <2>5. QED
    BY <2>1, <2>2, <2>3, <2>4 DEF RequestsComplete
<1>2. QED
  BY <1>1, QueriesInvariance, PTL

-----------------------------------------------------------------------------
(* Exchange: the engine and the two services it asks *)

\* The theorems about the policy decision point, of the one in the exchange.
PP == INSTANCE PolicyDecisionPointProofs WITH
          Requests <- PolicyRequests, Fields <- Columns, Owners <- FieldOwners,
          Schemas <- Sources, SchemaOf <- SourceOf

LEMMA PolicyAssumption ==
    /\ MaxRows \in Nat /\ MaxTime \in Nat
    /\ SourceOf \in [Columns -> Sources]
    /\ GrantLength \in [PP!GrantDurations -> Nat]
    /\ MetadataRequests \subseteq SUBSET PP!FieldRecords
    /\ FieldSets \subseteq (SUBSET Columns) \ {{}}
    /\ None \notin Nat /\ None \notin PP!Row /\ None \notin FieldOwners
BY ConstantsAssumption, ExchangeAssumption
   DEF PP!GrantDurations, PP!FieldRecords, Pdp!FieldRecords, PP!Row, Pdp!Row,
       PP!AccessTypes, Pdp!AccessTypes, PP!AllowLists, Pdp!AllowLists, PP!Time, Pdp!Time

\* The policy decision point of the exchange is the one they are about.
LEMMA SamePolicies ==
    /\ Pdp!Init => PP!Init
    /\ [Pdp!Next]_Pdp!vars => [PP!Next]_PP!vars
<1>1. Pdp!Init => PP!Init
  BY DEF Pdp!Init, PP!Init, Pdp!NoRows, PP!NoRows, Pdp!Idle, PP!Idle, Pdp!At, PP!At,
         Pdp!NoRows, PP!NoRows
<1>2. ASSUME NEW r
      PROVE  /\ Pdp!ReadMetadata(r) = PP!ReadMetadata(r)
             /\ Pdp!ReadAllowLists(r) = PP!ReadAllowLists(r)
  BY DEF Pdp!ReadMetadata, PP!ReadMetadata, Pdp!ReadAllowLists, PP!ReadAllowLists,
         Pdp!Goto, PP!Goto, Pdp!At, PP!At, Pdp!RowsOf, PP!RowsOf, Pdp!Later, PP!Later,
         Pdp!GrantDurations, PP!GrantDurations
<1>3. ASSUME NEW r
      PROVE  Pdp!CommitMetadata(r) = PP!CommitMetadata(r)
  BY DEF Pdp!CommitMetadata, PP!CommitMetadata, Pdp!Requested, PP!Requested,
         Pdp!Written, PP!Written, Pdp!RecordOf, PP!RecordOf, Pdp!Duplicated, PP!Duplicated,
         Pdp!OwnerConstraint, PP!OwnerConstraint, Pdp!KeyFree, PP!KeyFree,
         Pdp!Stored, PP!Stored, Pdp!Deleted, PP!Deleted,
         Pdp!Finish, PP!Finish, Pdp!Goto, PP!Goto, Pdp!Idle, PP!Idle, Pdp!At, PP!At,
         Pdp!NoRows, PP!NoRows
<1>4. ASSUME NEW r
      PROVE  /\ Pdp!CommitAllowLists(r) = PP!CommitAllowLists(r)
             /\ Pdp!Return(r) = PP!Return(r)
             /\ Pdp!Fail(r) = PP!Fail(r)
             /\ Pdp!Tick = PP!Tick
  BY DEF Pdp!CommitAllowLists, PP!CommitAllowLists, Pdp!Updates, PP!Updates,
         Pdp!Return, PP!Return, Pdp!Fail, PP!Fail, Pdp!Tick, PP!Tick,
         Pdp!Finish, PP!Finish, Pdp!Goto, PP!Goto, Pdp!Idle, PP!Idle, Pdp!At, PP!At,
         Pdp!NoRows, PP!NoRows
<1>5. ASSUME NEW r
      PROVE  Pdp!GetPolicyDecision(r) = PP!GetPolicyDecision(r)
  BY DEF Pdp!GetPolicyDecision, PP!GetPolicyDecision, Pdp!Decision, PP!Decision,
         Pdp!NotAllowed, PP!NotAllowed, Pdp!Expired, PP!Expired,
         Pdp!NeedsConsent, PP!NeedsConsent, Pdp!Goto, PP!Goto, Pdp!At, PP!At,
         Pdp!NoRows, PP!NoRows
<1>6. Pdp!Next => PP!Next
  BY <1>2, <1>3, <1>4, <1>5 DEF Pdp!Next, PP!Next
<1>7. QED
  BY <1>1, <1>6 DEF Pdp!vars, PP!vars

LEMMA PoliciesInvariant == Pdp!Spec => []PP!PolicyInv
<1>1. Pdp!Init => PP!PolicyInv
  BY SamePolicies, PolicyAssumption, PP!PolicyInit
<1>2. PP!PolicyInv /\ [Pdp!Next]_Pdp!vars => PP!PolicyInv'
  BY SamePolicies, PolicyAssumption, PP!PolicyNext
<1>3. QED
  BY <1>1, <1>2, PTL DEF Pdp!Spec

LEMMA GrantsFacts ==
  /\ PP!PolicyInv => PP!WithinGrants
  /\ PP!PolicyInv /\ [Pdp!Next]_Pdp!vars => PP!GrantsGrow
BY SamePolicies, PolicyAssumption, PP!AllowedIsGranted, PP!GrowingGrants

-----------------------------------------------------------------------------
(* What the services answer *)

\* The application may have column c, with the owner's consent or without.
Allows(app, c) ==
    rows[c] # None /\ Pdp!NotAllowed(app, {c}) = {} /\ Pdp!Expired(app, {c}) = {}

LEMMA RuleMeaning ==
    ASSUME NEW app, NEW c
    PROVE  /\ Rule(app, c) \in Rules
           /\ Rule(app, c) # "refused" <=> Allows(app, c)
           /\ Rule(app, c) = "consent" <=>
                 Allows(app, c) /\ Pdp!NeedsConsent(app, {c}) # {}
<1> DEFINE d == Pdp!Decision(app, {c})
<1>1. Pdp!Clean(d) <=> Pdp!NotAllowed(app, {c}) = {} /\ Pdp!Expired(app, {c}) = {}
  <2>1. d.appAuthorized = (Pdp!NotAllowed(app, {c}) = {})
    BY Zenon DEF Pdp!Decision
  <2>2. d.appAccessExpired = (Pdp!Expired(app, {c}) # {})
    BY Zenon DEF Pdp!Decision
  <2>3. QED
    BY <2>1, <2>2, Zenon DEF Pdp!Clean
<1>2. d.consentRequired = Pdp!NeedsConsent(app, {c})
  BY DEF Pdp!Decision
<1>3. Rule(app, c) = IF rows[c] = None \/ ~Pdp!Clean(d) THEN "refused"
                     ELSE IF d.consentRequired # {} THEN "consent" ELSE "open"
  BY DEF Rule
<1> HIDE DEF d
<1>4. QED
  BY <1>1, <1>2, <1>3 DEF Allows, Rules

\* The rules of single columns, which Federation has, say what the PDP decides on
\* the columns of a query together: it is clean if and only if no column is
\* refused, and then asks for consent to the columns that need it.
THEOREM RulesAreDecisions ==
    ASSUME NEW app, NEW cols
    PROVE  LET d == Pdp!Decision(app, cols) IN
           /\ (\A c \in cols : Rule(app, c) # "refused")
                 <=> (\A c \in cols : rows[c] # None) /\ Pdp!Clean(d)
           /\ (\A c \in cols : Rule(app, c) # "refused") =>
                 {c \in cols : Rule(app, c) = "consent"} = d.consentRequired
<1> DEFINE d == Pdp!Decision(app, cols)
<1>1. Pdp!Clean(d) <=> Pdp!NotAllowed(app, cols) = {} /\ Pdp!Expired(app, cols) = {}
  <2>1. d.appAuthorized = (Pdp!NotAllowed(app, cols) = {})
    BY Zenon DEF Pdp!Decision
  <2>2. d.appAccessExpired = (Pdp!Expired(app, cols) # {})
    BY Zenon DEF Pdp!Decision
  <2>3. QED
    BY <2>1, <2>2, Zenon DEF Pdp!Clean
<1>2. d.consentRequired = Pdp!NeedsConsent(app, cols)
  BY DEF Pdp!Decision
<1>3. (\A c \in cols : Allows(app, c))
         <=> (\A c \in cols : rows[c] # None) /\ Pdp!Clean(d)
  BY <1>1 DEF Allows, Pdp!NotAllowed, Pdp!Expired
<1>4. ASSUME \A c \in cols : Allows(app, c)
      PROVE  {c \in cols : Pdp!NeedsConsent(app, {c}) # {}} = Pdp!NeedsConsent(app, cols)
  BY <1>4 DEF Allows, Pdp!NotAllowed, Pdp!Expired, Pdp!NeedsConsent
<1> HIDE DEF d
<1>5. QED
  BY <1>2, <1>3, <1>4, RuleMeaning DEF d

-----------------------------------------------------------------------------
(* The inductive invariant *)

\* The consents to application p that the people they are about have given.
Ratified(p) == {ConsentOf(x.terms) : x \in {y \in signed : y.terms.app = p}}

\* Application p had a grant of column c that ended after time t.
Covered(p, c, t) ==
    granted[<<p, c>>] \in Nat /\ granted[<<p, c>>] # None /\ t <= granted[<<p, c>>]

\* Every consent was asked for by a query, of the owner under the owner's own
\* address; one that is approved was, by that owner, at some time.
LedgerOK ==
    /\ ledger \in [ConsentIds -> Ce!Entries \union {None}]
    /\ \A t \in posted : t.email = t.owner
    /\ \A id \in ConsentIds : ledger[id] # None => ledger[id].terms \in posted
    /\ \A id \in Approvals : [by |-> ledger[id].by, terms |-> ledger[id].terms] \in signed
    /\ \A x \in signed : x.by = x.terms.owner

\* A query that has not asked the providers saw grants that ended after it came,
\* and approvals its data owners gave.
HistoryOK(q) ==
    query[q].pc \in Early =>
        /\ arrived[q] <= now
        /\ seen[q].approved \subseteq Ratified(query[q].ask.app)
        /\ \A c \in seen[q].granted : Covered(query[q].ask.app, c, arrived[q])

ExchangeInv ==
    /\ IInv
    /\ policy = PolicyOf /\ approved = ApprovedOf
    /\ LedgerOK
    /\ arrived \in [Queries -> Nat]
    /\ \A q \in Queries : HistoryOK(q)

LEMMA InitExchangeInv == ExchangeInit => ExchangeInv
<1> SUFFICES ASSUME ExchangeInit PROVE ExchangeInv
  OBVIOUS
<1>1. IInv
  BY InitIInv DEF ExchangeInit
<1>2. policy = PolicyOf
  <2>1. \A c \in Columns : rows[c] = None
    BY DEF ExchangeInit, Pdp!Init, Pdp!NoRows
  <2>2. \A p \in Apps \X Columns : Rule(p[1], p[2]) = "refused"
    BY <2>1 DEF Rule
  <2>3. QED
    BY <2>2 DEF ExchangeInit, Init, PolicyOf
<1>3. Approvals = {}
  BY DEF ExchangeInit, Ce!Init, Approvals
<1>4. approved = ApprovedOf
  BY <1>3 DEF ApprovedOf, ExchangeInit, Init
<1>5. LedgerOK
  BY <1>3 DEF LedgerOK, ExchangeInit, Ce!Init
<1>6. \A q \in Queries : HistoryOK(q)
  BY DEF HistoryOK, ExchangeInit, Init, Idle, Early
<1>7. QED
  BY <1>1, <1>2, <1>4, <1>5, <1>6 DEF ExchangeInv, ExchangeInit

-----------------------------------------------------------------------------
(* The consent engine *)

\* What one entry of the ledger is after a step, t the terms it is asked under.
LEMMA EntryMade ==
    ASSUME NEW t \in Ce!Terms,
           NEW s \in {"pending", "approved", "rejected", "expired", "revoked"},
           NEW by \in Owners \union {"nobody", "replaced", "revoker"}
    PROVE  LET e == Ce!Entry(t, s, by) IN
           /\ e \in Ce!Entries /\ e # None
           /\ e.terms = t /\ e.status = s /\ e.by = by
BY ExchangeAssumption DEF Ce!Entry, Ce!Entries

\* A consent engine step changes one entry that matters to approvals, k.
OneConsent(k) ==
    /\ ledger' \in [ConsentIds -> Ce!Entries \union {None}]
    /\ ledger'[k] # None /\ ledger'[k].terms \in posted
    /\ k \in Approvals => ledger'[k].terms = ledger[k].terms
    /\ k \in Approvals' => ledger'[k].by = ledger'[k].terms.email
    /\ \A j \in ConsentIds \ {k} :
          \/ ledger'[j] = ledger[j]
          \/ /\ j \notin Approvals /\ j \notin Approvals'
             /\ ledger'[j] # None => ledger'[j].terms \in posted

LEMMA AskChanges ==
    ASSUME LedgerOK, NEW id \in ConsentIds, NEW terms \in posted,
           ledger' = Ce!Asked(id, terms), Ce!Ask(id)
    PROVE  OneConsent(id)
<1>1. PICK t \in Ce!Terms : ledger' = Ce!Asked(id, t)
  BY DEF Ce!Ask
<1> DEFINE e == Ce!Entry(t, "pending", "nobody")
           d == Ce!Entry(terms, "pending", "nobody")
<1>2. e \in Ce!Entries /\ e # None /\ e.terms = t /\ e.status = "pending"
  BY EntryMade
<1>3. d.terms = terms
  BY DEF Ce!Entry
<1>4. /\ ledger' = [ledger EXCEPT ![id] = e] /\ ledger' = [ledger EXCEPT ![id] = d]
      /\ ledger[id] = None /\ ledger \in [ConsentIds -> Ce!Entries \union {None}]
  BY <1>1 DEF Ce!Asked, Ce!Ask, LedgerOK
<1> HIDE DEF e, d
<1>5. ledger'[id] = e /\ ledger'[id] = d
  BY <1>4
<1>6. /\ ledger' \in [ConsentIds -> Ce!Entries \union {None}]
      /\ \A j \in ConsentIds \ {id} : ledger'[j] = ledger[j]
  BY <1>2, <1>4
<1>7. id \notin Approvals /\ id \notin Approvals'
  BY <1>2, <1>4, <1>5 DEF Approvals
<1>8. QED
  BY <1>2, <1>3, <1>5, <1>6, <1>7 DEF OneConsent

LEMMA ReplaceChanges ==
    ASSUME LedgerOK, NEW id \in ConsentIds, NEW old \in ConsentIds, NEW terms \in posted,
           ledger[old] # None, ledger' = Ce!Succeeded(old, id, terms), Ce!Replace(old, id)
    PROVE  OneConsent(old)
<1>1. PICK t \in Ce!Terms : ledger' = Ce!Succeeded(old, id, t)
  BY DEF Ce!Replace
<1> DEFINE e == Ce!Entry(t, "pending", "nobody")
           d == Ce!Entry(terms, "pending", "nobody")
           r == Ce!Entry(ledger[old].terms, "revoked", "replaced")
<1>2. e \in Ce!Entries /\ e # None /\ e.terms = t /\ e.status = "pending"
  BY EntryMade
<1>3. d.terms = terms
  BY DEF Ce!Entry
<1>4. /\ ledger' = [ledger EXCEPT ![old] = r, ![id] = e]
      /\ ledger' = [ledger EXCEPT ![old] = r, ![id] = d]
      /\ ledger[id] = None /\ ledger \in [ConsentIds -> Ce!Entries \union {None}]
      /\ ledger[old].terms \in posted
  BY <1>1 DEF Ce!Succeeded, Ce!Replace, LedgerOK
<1>5. ledger[old].terms \in Ce!Terms
  BY <1>4 DEF Ce!Entries
<1>6. r \in Ce!Entries /\ r # None /\ r.terms = ledger[old].terms /\ r.status = "revoked"
  BY <1>5, EntryMade
<1> HIDE DEF e, d, r
<1>7. ledger'[id] = e /\ ledger'[id] = d /\ id # old /\ ledger'[old] = r
  BY <1>4
<1>8. /\ ledger' \in [ConsentIds -> Ce!Entries \union {None}]
      /\ \A j \in ConsentIds \ {id, old} : ledger'[j] = ledger[j]
  BY <1>2, <1>4, <1>6
<1>9. id \notin Approvals /\ id \notin Approvals' /\ old \notin Approvals'
  BY <1>2, <1>4, <1>6, <1>7 DEF Approvals
<1>10. QED
  BY <1>3, <1>4, <1>6, <1>7, <1>8, <1>9 DEF OneConsent

LEMMA SettleChanges ==
    ASSUME LedgerOK, NEW id \in ConsentIds, Ce!Settle(id)
    PROVE  OneConsent(id)
<1>1. PICK s \in {"approved", "rejected", "expired", "revoked"},
           by \in Owners \union {"nobody", "revoker"} :
         Ce!Settles(ledger[id], s, by) /\ ledger' = Ce!Settled(id, s, by)
  BY DEF Ce!Settle
<1> DEFINE e == Ce!Entry(ledger[id].terms, s, by)
<1>2. /\ ledger' = [ledger EXCEPT ![id] = e]
      /\ ledger[id] # None /\ ledger \in [ConsentIds -> Ce!Entries \union {None}]
      /\ ledger[id].terms \in posted
  BY <1>1 DEF Ce!Settled, Ce!Settle, LedgerOK
<1>3. ledger[id].terms \in Ce!Terms
  BY <1>2 DEF Ce!Entries
<1>4. /\ e \in Ce!Entries /\ e # None /\ e.terms = ledger[id].terms
      /\ e.status = s /\ e.by = by
  BY <1>3, EntryMade
<1>5. s = "approved" => by = ledger[id].terms.email
  BY <1>1 DEF Ce!Settles
<1> HIDE DEF e
<1>6. /\ ledger'[id] = e /\ ledger' \in [ConsentIds -> Ce!Entries \union {None}]
      /\ \A j \in ConsentIds \ {id} : ledger'[j] = ledger[j]
  BY <1>2, <1>4
<1>7. id \in Approvals' => ledger'[id].by = ledger'[id].terms.email
  BY <1>4, <1>5, <1>6 DEF Approvals
<1>8. QED
  BY <1>2, <1>4, <1>6, <1>7 DEF OneConsent

LEMMA OneConsentChanges ==
    ASSUME LedgerOK, ConsentStep
    PROVE  \E k \in ConsentIds : OneConsent(k)
<1>1. ASSUME NEW id \in ConsentIds, NEW terms \in posted,
             \/ ledger' = Ce!Asked(id, terms) /\ Ce!Ask(id)
             \/ \E old \in ConsentIds :
                   /\ ledger[old] # None
                   /\ ledger' = Ce!Succeeded(old, id, terms)
                   /\ Ce!Replace(old, id)
      PROVE  \E k \in ConsentIds : OneConsent(k)
  BY <1>1, AskChanges, ReplaceChanges
<1>2. CASE AskedByQuery
  BY <1>1, <1>2 DEF AskedByQuery
<1>3. CASE ConsentSettled
  BY <1>3, SettleChanges DEF ConsentSettled
<1>4. QED
  BY <1>2, <1>3 DEF ConsentStep

LEMMA LedgerStep ==
    ASSUME LedgerOK, ConsentStep
    PROVE  LedgerOK'
<1>1. PICK k \in ConsentIds : OneConsent(k)
  BY OneConsentChanges
<1>2. /\ posted' = posted
      /\ signed' = signed \union
          {[by |-> ledger'[id].by, terms |-> ledger'[id].terms] : id \in Approvals'}
  BY DEF ConsentStep
<1>3. \A id \in ConsentIds : ledger'[id] # None => ledger'[id].terms \in posted
  BY <1>1 DEF OneConsent, LedgerOK
<1>4. \A id \in Approvals' :
         /\ id \in ConsentIds /\ ledger'[id] # None
         /\ ledger'[id].by = ledger'[id].terms.email
  <2>1. ASSUME NEW id \in Approvals', id # k PROVE ledger'[id].by = ledger'[id].terms.email
    <3>1. id \in ConsentIds /\ id \in Approvals /\ ledger'[id] = ledger[id]
      BY <1>1, <2>1 DEF OneConsent, Approvals
    <3>2. [by |-> ledger[id].by, terms |-> ledger[id].terms] \in signed
      BY <3>1 DEF LedgerOK
    <3>3. ledger[id].by = ledger[id].terms.owner /\ ledger[id].terms \in posted
      BY <3>1, <3>2 DEF LedgerOK, Approvals
    <3>4. QED
      BY <3>1, <3>3 DEF LedgerOK
  <2>2. QED
    BY <1>1, <2>1 DEF OneConsent, Approvals
<1>5. \A x \in signed' : x.by = x.terms.owner
  BY <1>2, <1>3, <1>4 DEF LedgerOK
<1>6. QED
  BY <1>1, <1>2, <1>3, <1>5 DEF LedgerOK, OneConsent

\* In the terms of Federation, one consent is approved or no longer approved.
LEMMA ConsentStepRefines ==
    ASSUME LedgerOK, approved = ApprovedOf, ConsentStep
    PROVE  \E c \in Consents : ConsentChanges(c)
<1>1. PICK k \in ConsentIds : OneConsent(k)
  BY OneConsentChanges
<1> DEFINE x == ConsentOf(ledger'[k].terms)
           A == {ConsentOf(ledger[j].terms) : j \in Approvals \ {k}}
<1>2. x \in Consents
  <2>1. ledger'[k] \in Ce!Entries
    BY <1>1 DEF OneConsent
  <2>2. ledger'[k].terms \in Ce!Terms
    BY <2>1 DEF Ce!Entries
  <2>3. QED
    BY <2>2, ExchangeAssumption DEF ConsentOf, Ce!Terms
<1>3. \A j \in ConsentIds \ {k} :
         /\ j \in Approvals' <=> j \in Approvals
         /\ j \in Approvals => ledger'[j].terms = ledger[j].terms
  BY <1>1 DEF OneConsent, Approvals
<1>4. Approvals \subseteq ConsentIds /\ Approvals' \subseteq ConsentIds
  BY DEF Approvals
<1>5. ApprovedOf = IF k \in Approvals THEN A \union {x} ELSE A
  <2>1. k \in Approvals => ledger[k].terms = ledger'[k].terms
    BY <1>1 DEF OneConsent
  <2>2. QED
    BY <1>4, <2>1 DEF ApprovedOf
<1>6. ApprovedOf' = IF k \in Approvals' THEN A \union {x} ELSE A
  <2>1. ApprovedOf' = {ConsentOf(ledger'[j].terms) : j \in Approvals'}
    BY DEF ApprovedOf, ConsentOf
  <2>2. A = {ConsentOf(ledger'[j].terms) : j \in Approvals' \ {k}}
    BY <1>3, <1>4
  <2>3. QED
    BY <1>4, <2>1, <2>2
<1>7. approved' = ApprovedOf'
  BY DEF ConsentStep
<1> HIDE DEF x, A
<1>8. approved' \in {approved \union {x}, approved \ {x}}
  <2>1. CASE x \in A
    BY <1>5, <1>6, <1>7, <2>1
  <2>2. CASE x \notin A
    BY <1>5, <1>6, <1>7, <2>2
  <2>3. QED
    BY <2>1, <2>2
<1>9. Witness(policy, approved') /\ UNCHANGED <<config, active, policy, query>>
  BY DEF ConsentStep
<1>10. QED
  BY <1>2, <1>8, <1>9 DEF ConsentChanges

LEMMA PolicyStepRefines ==
    ASSUME PolicyStep
    PROVE  PolicyChanges
<1>1. PolicyOf' \in [Apps \X Columns -> Rules]
  <2>1. \A p \in Apps \X Columns : Rule(p[1], p[2])' \in Rules
    BY DEF Rule, Rules
  <2>2. QED
    BY <2>1 DEF PolicyOf
<1>2. QED
  BY <1>1 DEF PolicyStep, PolicyChanges

LEMMA StepRefines ==
    ASSUME ExchangeInv, [ExchangeNext]_exchangeVars
    PROVE  [Next]_vars
<1>1. CASE EngineStep
  BY <1>1 DEF EngineStep, Next, World
<1>2. CASE PolicyStep
  BY <1>2, PolicyStepRefines DEF Next, World
<1>3. CASE ConsentStep
  BY <1>3, ConsentStepRefines DEF ExchangeInv, Next, World
<1>4. CASE UNCHANGED exchangeVars
  BY <1>4 DEF exchangeVars
<1>5. QED
  BY <1>1, <1>2, <1>3, <1>4 DEF ExchangeNext

-----------------------------------------------------------------------------
(* The engine *)

\* A query before the providers are asked has just come, or is the one it was.
LEMMA EarlyQueries ==
    ASSUME IInv, EngineNext, NEW q \in Queries, query'[q].pc \in Early
    PROVE  \/ /\ query[q].pc = "idle"
              /\ seen'[q] = Observe(query'[q].ask.app, policy, approved)
           \/ /\ query[q].pc \in Early
              /\ query'[q].ask = query[q].ask /\ seen'[q] = seen[q]
<1>1. /\ query \in [Queries -> QueryRecords] /\ seen \in [Queries -> Histories]
  BY DEF IInv
<1>2. ASSUME NEW p \in Queries, NEW t, Moves(p, t),
             query[p].pc \in Early, t.pc \in Early => t.ask = query[p].ask
      PROVE  query[q].pc \in Early /\ query'[q].ask = query[q].ask /\ seen'[q] = seen[q]
  <2>1. query' = [query EXCEPT ![p] = t]
    BY <1>2 DEF Moves, Becomes
  <2>2. CASE p = q
    BY <1>1, <1>2, <2>1, <2>2 DEF Moves
  <2>3. CASE p # q
    BY <1>1, <1>2, <2>1, <2>3 DEF Moves
  <2>4. QED
    BY <2>2, <2>3
<1>3. ASSUME NEW p \in Queries, NEW r \in QueryRecords
      PROVE  /\ Failed(r).ask = r.ask
             /\ \A need \in SUBSET Columns : Decided(r, need).ask = r.ask
  BY DEF Failed, Decided, QueryRecords
<1>4. ASSUME NEW p \in Queries, LoadSchema(p) \/ PdpDecides(p) \/ CeAnswers(p) \/ CallFails(p)
      PROVE  \E t : Moves(p, t) /\ query[p].pc \in Early /\ t.ask = query[p].ask
  <2>1. query[p] \in QueryRecords
    BY <1>1
  <2>2. CASE LoadSchema(p)
    <3>1. PICK s \in active \union {FallbackSchema} :
             LET r == [query[p] EXCEPT !.schema = s] IN
             Moves(p, IF s = None THEN Failed(r)
                      ELSE IF config.pdp THEN [r EXCEPT !.pc = "pdp"] ELSE Decided(r, {}))
      BY <2>2 DEF LoadSchema
    <3> DEFINE r == [query[p] EXCEPT !.schema = s]
    <3>2. r \in QueryRecords /\ r.ask = query[p].ask
      <4>1. s \in Schemas \union {None}
        BY ConstantsAssumption DEF IInv, WorldOK
      <4>2. QED
        BY <2>1, <4>1 DEF QueryRecords
    <3> HIDE DEF r
    <3>3. [r EXCEPT !.pc = "pdp"].ask = r.ask
      BY <3>2 DEF QueryRecords
    <3>4. Moves(p, IF s = None THEN Failed(r)
                   ELSE IF config.pdp THEN [r EXCEPT !.pc = "pdp"] ELSE Decided(r, {}))
      BY <3>1 DEF r
    <3>5. Failed(r).ask = r.ask /\ Decided(r, {}).ask = r.ask
      BY <1>3, <3>2
    <3>6. \E t : Moves(p, t) /\ t.ask = r.ask
      BY <3>3, <3>4, <3>5, Zenon
    <3>7. QED
      BY <2>2, <3>2, <3>6 DEF LoadSchema, Early
  <2>3. CASE PdpDecides(p)
    <3> DEFINE need == {c \in ColumnsOf(query[p]) : policy[<<query[p].ask.app, c>>] = "consent"}
    <3>1. need \in SUBSET Columns
      <4>1. query[p].ask # None /\ query[p].schema # None
        BY <2>3 DEF PdpDecides, IInv, QueryOK, KnowsOK
      <4>2. QED
        BY <2>1, <4>1, ColumnsTyped
    <3>2. Moves(p, Decided(query[p], need)) \/ Moves(p, Failed(query[p]))
      BY <2>3 DEF PdpDecides
    <3> HIDE DEF need
    <3>3. QED
      BY <1>3, <2>1, <2>3, <3>1, <3>2 DEF PdpDecides, Early
  <2>4. CASE CeAnswers(p)
    <3>1. [query[p] EXCEPT !.pc = "build"].ask = query[p].ask
      BY <2>1 DEF QueryRecords
    <3>2. QED
      BY <1>3, <2>1, <2>4, <3>1 DEF CeAnswers, Early
  <2>5. CASE CallFails(p)
    BY <1>3, <2>1, <2>5 DEF CallFails, Early
  <2>6. QED
    BY <1>4, <2>2, <2>3, <2>4, <2>5
<1>5. ASSUME NEW p \in Queries, FanOut(p) \/ Accumulate(p)
      PROVE  p # q /\ query'[q] = query[q] /\ seen'[q] = seen[q]
  <2>1. query[p] \in QueryRecords
    BY <1>1
  <2>2. PICK t : Moves(p, t) /\ t.pc \notin Early
    <3>1. CASE FanOut(p)
      <4>1. PICK calls : Moves(p, [query[p] EXCEPT !.pc = "fanout", !.calls = calls])
        BY <3>1 DEF FanOut
      <4>2. [query[p] EXCEPT !.pc = "fanout", !.calls = calls].pc = "fanout"
        BY <2>1 DEF QueryRecords
      <4>3. QED
        BY <4>1, <4>2 DEF Early
    <3>2. CASE Accumulate(p)
      <4>1. PICK result : Moves(p, [query[p] EXCEPT !.pc = "answered", !.result = result])
        BY <3>2 DEF Accumulate
      <4>2. [query[p] EXCEPT !.pc = "answered", !.result = result].pc = "answered"
        BY <2>1 DEF QueryRecords
      <4>3. QED
        BY <4>1, <4>2 DEF Early
    <3>3. QED
      BY <1>5, <3>1, <3>2
  <2>3. query' = [query EXCEPT ![p] = t] /\ seen' = [seen EXCEPT ![p] = Nothing]
    BY <2>2 DEF Moves, Becomes
  <2>4. p # q
    BY <1>1, <2>2, <2>3
  <2>5. QED
    BY <1>1, <2>3, <2>4
<1>6. ASSUME NEW p \in Queries, NEW s \in Sources, NEW from, NEW to, Call(p, s, from, to)
      PROVE  query'[q].pc = query[q].pc /\ query'[q].ask = query[q].ask /\ seen'[q] = seen[q]
  <2>1. query' = [query EXCEPT ![p] = [query[p] EXCEPT !.calls = [@ EXCEPT ![s] = to]]]
        /\ seen' = seen
    BY <1>6 DEF Call, Becomes
  <2>2. CASE p = q
    BY <1>1, <2>1, <2>2 DEF QueryRecords
  <2>3. CASE p # q
    BY <1>1, <2>1, <2>3
  <2>4. QED
    BY <2>1, <2>2, <2>3
<1>7. ASSUME NEW p \in Queries, Receive(p), p = q
      PROVE  query[q].pc = "idle" /\ seen'[q] = Observe(query'[q].ask.app, policy, approved)
  <2>1. PICK k \in Questions :
           /\ Becomes(p, [Idle EXCEPT !.pc = "load", !.ask = k])
           /\ seen' = [seen EXCEPT ![p] = Observe(k.app, policy, approved)]
    BY <1>7 DEF Receive
  <2>2. [Idle EXCEPT !.pc = "load", !.ask = k].ask = k
    BY DEF Idle
  <2>3. query'[q].ask = k
    BY <1>1, <1>7, <2>1, <2>2 DEF Becomes
  <2>4. QED
    BY <1>1, <1>7, <2>1, <2>3 DEF Receive
<1>8. ASSUME NEW p \in Queries, Receive(p), p # q
      PROVE  query'[q] = query[q] /\ seen'[q] = seen[q]
  BY <1>1, <1>8 DEF Receive, Becomes
<1>9. PICK p \in Queries :
         \/ Receive(p) \/ Step(p) \/ PdpDecides(p) \/ CeAnswers(p)
         \/ \E s \in Sources :
               ProviderAnswers(p, s) \/ AppendResponse(p, s) \/ ProviderFails(p, s)
  BY DEF EngineNext
<1>10. CASE Receive(p)
  BY <1>7, <1>8, <1>10
<1>11. CASE LoadSchema(p) \/ PdpDecides(p) \/ CeAnswers(p) \/ CallFails(p)
  BY <1>2, <1>4, <1>11
<1>12. CASE FanOut(p) \/ Accumulate(p)
  BY <1>5, <1>12
<1>13. ASSUME NEW s \in Sources,
              ProviderAnswers(p, s) \/ AppendResponse(p, s) \/ ProviderFails(p, s)
       PROVE  query'[q].pc = query[q].pc /\ query'[q].ask = query[q].ask /\ seen'[q] = seen[q]
  BY <1>6, <1>13 DEF ProviderAnswers, AppendResponse, ProviderFails
<1>14. QED
  BY <1>9, <1>10, <1>11, <1>12, <1>13 DEF Step

-----------------------------------------------------------------------------
(* The histories *)

\* What the rules grant now is granted beyond now.
GrantsCovered == \A app \in Apps : \A c \in Granted(app, PolicyOf) : Covered(app, c, now)

LEMMA RulesCovered == PP!PolicyInv => GrantsCovered
<1> SUFFICES ASSUME PP!PolicyInv, NEW app \in Apps, NEW c \in Granted(app, PolicyOf)
             PROVE  Covered(app, c, now)
  BY DEF GrantsCovered
<1>1. c \in Columns /\ PolicyOf[<<app, c>>] \in {"open", "consent"}
  BY DEF Granted
<1>2. PolicyOf[<<app, c>>] = Rule(app, c)
  BY <1>1 DEF PolicyOf
<1>3. Allows(app, c)
  BY <1>1, <1>2, RuleMeaning
<1>4. rows[c] # None /\ PP!NotAllowed(app, {c}) = {} /\ PP!Expired(app, {c}) = {}
  BY <1>3 DEF Allows, Pdp!NotAllowed, PP!NotAllowed, Pdp!Expired, PP!Expired
<1>5. PP!WithinGrants
  BY GrantsFacts
<1>6. QED
  BY <1>1, <1>4, <1>5 DEF PP!WithinGrants, Covered

\* What is approved now was approved by its owner.
ApprovalsRatified == \A app : {c \in ApprovedOf : c.app = app} \subseteq Ratified(app)

LEMMA LedgerRatified == LedgerOK => ApprovalsRatified
<1> SUFFICES ASSUME LedgerOK, NEW app, NEW id \in Approvals,
                    ConsentOf(ledger[id].terms).app = app
             PROVE  ConsentOf(ledger[id].terms) \in Ratified(app)
  BY DEF ApprovalsRatified, ApprovedOf
<1> DEFINE x == [by |-> ledger[id].by, terms |-> ledger[id].terms]
<1>1. x \in signed /\ x.terms = ledger[id].terms
  BY DEF LedgerOK
<1>2. x.terms.app = app
  BY <1>1 DEF ConsentOf
<1>3. QED
  BY <1>1, <1>2 DEF Ratified

PolicyTypes == granted \in [Apps \X Columns -> Nat \union {None}] /\ now \in Nat

LEMMA PolicyTyped == PP!PolicyInv => PolicyTypes
<1> SUFFICES ASSUME PP!PolicyInv PROVE PolicyTypes
  OBVIOUS
<1>1. granted \in [Apps \X Columns -> PP!Time] /\ now \in 0 .. MaxTime
  BY DEF PP!PolicyInv, PP!TypeOK
<1>2. QED
  BY <1>1 DEF PP!Time, PolicyTypes

\* A query that goes on has an application and has seen columns.
LEMMA EarlyTyped ==
    ASSUME IInv, NEW q \in Queries, query[q].pc \in Early
    PROVE  query[q].ask.app \in Apps /\ seen[q].granted \subseteq Columns
<1>1. query[q] \in QueryRecords /\ seen[q] \in Histories /\ query[q].ask # None
  BY DEF IInv, QueryOK, KnowsOK, Early
<1>2. QED
  BY <1>1, ConstantsAssumption DEF QueryRecords, Histories

LEMMA EngineHistories ==
    ASSUME ExchangeInv, PP!PolicyInv, EngineStep, NEW q \in Queries
    PROVE  HistoryOK(q)'
<1> SUFFICES ASSUME query'[q].pc \in Early
             PROVE  /\ arrived'[q] <= now
                    /\ seen'[q].approved \subseteq Ratified(query'[q].ask.app)
                    /\ \A c \in seen'[q].granted : Covered(query'[q].ask.app, c, arrived'[q])
  BY DEF HistoryOK, EngineStep, policyVars, consentVars, Ratified, Covered
<1>1. arrived'[q] = IF query[q].pc = "idle" THEN now ELSE arrived[q]
  BY DEF EngineStep
<1>2. now \in Nat /\ GrantsCovered /\ ApprovalsRatified
  BY PolicyTyped, RulesCovered, LedgerRatified DEF ExchangeInv, PolicyTypes
<1>3. CASE /\ query[q].pc = "idle"
           /\ seen'[q] = Observe(query'[q].ask.app, policy, approved)
  <2>1. query'[q].ask.app \in Apps
    <3>1. IInv'
      BY StepRefines, NextStep DEF ExchangeInv, ExchangeNext
    <3>2. query'[q] \in QueryRecords /\ KnowsOK(query'[q])
      BY <3>1 DEF IInv, QueryOK, KnowsOK
    <3>3. QED
      BY <3>2, ConstantsAssumption DEF QueryRecords, KnowsOK, Early
  <2>2. /\ seen'[q].granted = Granted(query'[q].ask.app, policy)
        /\ seen'[q].approved = {c \in approved : c.app = query'[q].ask.app}
    BY <1>3 DEF Observe
  <2>3. QED
    BY <1>1, <1>2, <1>3, <2>1, <2>2 DEF ExchangeInv, GrantsCovered, ApprovalsRatified
<1>4. CASE /\ query[q].pc \in Early
           /\ query'[q].ask = query[q].ask /\ seen'[q] = seen[q]
  BY <1>1, <1>4 DEF ExchangeInv, HistoryOK, Early
<1>5. CASE SchemasActivated
  BY <1>4, <1>5 DEF SchemasActivated
<1>6. CASE EngineNext
  BY <1>3, <1>4, <1>6, EarlyQueries DEF ExchangeInv
<1>7. QED
  BY <1>5, <1>6 DEF EngineStep

LEMMA PolicyHistories ==
    ASSUME ExchangeInv, PP!PolicyInv, PP!PolicyInv', PolicyStep, NEW q \in Queries
    PROVE  HistoryOK(q)'
<1> SUFFICES ASSUME query[q].pc \in Early
             PROVE  /\ arrived[q] <= now'
                    /\ seen'[q].approved \subseteq Ratified(query[q].ask.app)
                    /\ \A c \in seen'[q].granted : Covered(query[q].ask.app, c, arrived[q])'
  BY DEF HistoryOK, PolicyStep, consentVars, Ratified
<1> DEFINE app == query[q].ask.app
<1>1. /\ app \in Apps /\ seen[q].granted \subseteq Columns /\ arrived[q] \in Nat
      /\ arrived[q] <= now /\ HistoryOK(q)
  BY EarlyTyped DEF ExchangeInv, HistoryOK
<1>2. PP!GrantsGrow
  BY GrantsFacts DEF PolicyStep
<1>3. now \in Nat /\ now' \in Nat /\ now <= now'
  BY <1>2 DEF PP!GrantsGrow
<1>4. PolicyTypes' /\ GrantsCovered'
  BY PolicyTyped, RulesCovered, PTL
<1>5. granted' \in [Apps \X Columns -> Nat \union {None}] /\ GrantsCovered'
  BY <1>4 DEF PolicyTypes
<1>6. \A x \in Apps \X Columns :
         granted[x] # None => granted'[x] # None /\ granted[x] <= granted'[x]
  BY <1>2 DEF PP!GrantsGrow, PP!Grows
<1>7. ASSUME NEW c \in seen[q].granted PROVE Covered(app, c, arrived[q])'
  <2>1. <<app, c>> \in Apps \X Columns
    BY <1>1
  <2>2. Covered(app, c, arrived[q])
    BY <1>1 DEF HistoryOK
  <2>3. granted'[<<app, c>>] # None /\ granted[<<app, c>>] <= granted'[<<app, c>>]
    BY <1>6, <2>1, <2>2 DEF Covered
  <2>4. granted'[<<app, c>>] \in Nat
    BY <1>5, <2>1, <2>3
  <2>5. /\ arrived'[q] = arrived[q] /\ query'[q] = query[q] /\ granted[<<app, c>>] \in Nat
        /\ arrived[q] <= granted[<<app, c>>]
    BY <2>2 DEF PolicyStep, Covered
  <2>6. QED
    BY <1>1, <2>3, <2>4, <2>5 DEF Covered
<1>8. ASSUME NEW c \in Granted(app, policy') PROVE Covered(app, c, arrived[q])'
  <2>1. policy' = PolicyOf' /\ arrived'[q] = arrived[q] /\ query'[q] = query[q]
    BY DEF PolicyStep
  <2>2. Granted(app, PolicyOf)' = Granted(app, policy')
    BY <2>1 DEF Granted
  <2>3. Covered(app, c, now)'
    BY <1>1, <1>5, <2>1, <2>2 DEF GrantsCovered, Granted
  <2>4. QED
    BY <1>1, <1>3, <2>1, <2>3 DEF Covered
<1>9. /\ seen'[q].granted = seen[q].granted \union Granted(app, policy')
      /\ seen'[q].approved = seen[q].approved \union {c \in approved : c.app = app}
  BY <1>1 DEF PolicyStep, Witness, Observe
<1>10. {c \in approved : c.app = app} \subseteq Ratified(app)
  BY LedgerRatified DEF ExchangeInv, ApprovalsRatified
<1>11. QED
  BY <1>1, <1>3, <1>7, <1>8, <1>9, <1>10 DEF HistoryOK

LEMMA ConsentHistories ==
    ASSUME ExchangeInv, PP!PolicyInv, ConsentStep, NEW q \in Queries
    PROVE  HistoryOK(q)'
<1> SUFFICES ASSUME query[q].pc \in Early
             PROVE  /\ arrived[q] <= now
                    /\ seen'[q].approved \subseteq Ratified(query[q].ask.app)'
                    /\ \A c \in seen'[q].granted : Covered(query[q].ask.app, c, arrived[q])
  BY DEF HistoryOK, ConsentStep, policyVars, Covered
<1> DEFINE app == query[q].ask.app
<1>1. /\ app \in Apps /\ seen[q].granted \subseteq Columns /\ arrived[q] \in Nat
      /\ arrived[q] <= now /\ HistoryOK(q)
  BY EarlyTyped DEF ExchangeInv, HistoryOK
<1>2. now \in Nat /\ GrantsCovered
  BY PolicyTyped, RulesCovered DEF PolicyTypes
<1>3. LedgerOK' /\ query' = query /\ signed \subseteq signed'
  BY LedgerStep DEF ExchangeInv, ConsentStep
<1>4. ApprovalsRatified'
  BY <1>3, LedgerRatified, PTL
<1>5. {c \in approved' : c.app = app} \subseteq Ratified(app)'
  BY <1>4 DEF ApprovalsRatified, ConsentStep
<1>6. Ratified(app) \subseteq Ratified(app)'
  BY <1>3 DEF Ratified, ConsentOf
<1>7. /\ seen'[q].granted = seen[q].granted \union Granted(app, policy)
      /\ seen'[q].approved = seen[q].approved \union {c \in approved' : c.app = app}
  BY <1>1 DEF ConsentStep, Witness, Observe
<1>8. \A c \in Granted(app, policy) : Covered(app, c, arrived[q])
  BY <1>1, <1>2 DEF GrantsCovered, Covered, ExchangeInv
<1>9. QED
  BY <1>1, <1>5, <1>6, <1>7, <1>8 DEF HistoryOK

-----------------------------------------------------------------------------
(* The exchange: theorems *)

LEMMA ExchangeStep ==
    ASSUME ExchangeInv, PP!PolicyInv, PP!PolicyInv', [ExchangeNext]_exchangeVars
    PROVE  ExchangeInv'
<1>1. IInv'
  BY StepRefines, NextStep DEF ExchangeInv
<1>2. CASE UNCHANGED exchangeVars
  <2>1. PolicyOf' = PolicyOf
    BY <1>2 DEF exchangeVars, policyVars, PolicyOf, Rule, Pdp!Decision, Pdp!NotAllowed,
       Pdp!Expired, Pdp!NeedsConsent, Pdp!Clean
  <2>2. ApprovedOf' = ApprovedOf /\ (LedgerOK => LedgerOK')
    BY <1>2 DEF exchangeVars, consentVars, ApprovedOf, Approvals, ConsentOf, LedgerOK
  <2>3. \A q \in Queries : HistoryOK(q) => HistoryOK(q)'
    BY <1>2 DEF exchangeVars, vars, policyVars, consentVars, HistoryOK, Ratified, Covered,
       ConsentOf
  <2>4. QED
    BY <1>1, <1>2, <2>1, <2>2, <2>3 DEF ExchangeInv, exchangeVars, vars
<1>3. CASE EngineStep
  <2>1. UNCHANGED <<policy, approved, policyVars, consentVars>>
    <3>1. ASSUME NEW q \in Queries, NEW t, Moves(q, t) PROVE UNCHANGED <<policy, approved>>
      BY <3>1 DEF Moves, world
    <3>2. ASSUME NEW q \in Queries, NEW s \in Sources, NEW from, NEW to, Call(q, s, from, to)
          PROVE  UNCHANGED <<policy, approved>>
      BY <3>2 DEF Call, world
    <3>3. CASE SchemasActivated
      BY <1>3, <3>3 DEF EngineStep, SchemasActivated
    <3>4. CASE EngineNext
      <4>1. UNCHANGED <<policy, approved>>
        BY <3>1, <3>2, <3>4 DEF EngineNext, Step, Receive, LoadSchema, PdpDecides, CeAnswers,
           CallFails, FanOut, Accumulate, ProviderAnswers, AppendResponse, ProviderFails, world
      <4>2. QED
        BY <1>3, <4>1 DEF EngineStep
    <3>5. QED
      BY <1>3, <3>3, <3>4 DEF EngineStep
  <2>2. PolicyOf' = PolicyOf
    BY <2>1 DEF policyVars, PolicyOf, Rule, Pdp!Decision, Pdp!NotAllowed,
       Pdp!Expired, Pdp!NeedsConsent, Pdp!Clean
  <2>3. ApprovedOf' = ApprovedOf
    BY <2>1 DEF consentVars, ApprovedOf, Approvals, ConsentOf
  <2>4. LedgerOK'
    <3>1. \A t \in posted' : t.email = t.owner
      BY <1>3 DEF EngineStep, TermsOf, ExchangeInv, LedgerOK
    <3>2. posted \subseteq posted'
      BY <1>3 DEF EngineStep
    <3>3. QED
      BY <2>1, <3>1, <3>2 DEF ExchangeInv, LedgerOK, Approvals, consentVars
  <2>5. arrived' \in [Queries -> Nat]
    BY <1>3, PolicyTyped DEF EngineStep, ExchangeInv, PolicyTypes
  <2>6. QED
    BY <1>1, <1>3, <2>1, <2>2, <2>3, <2>4, <2>5, EngineHistories DEF ExchangeInv
<1>4. CASE PolicyStep
  <2>1. /\ policy' = PolicyOf' /\ approved' = approved
        /\ UNCHANGED <<ledger, signed, posted, arrived>>
    BY <1>4 DEF PolicyStep, consentVars
  <2>2. LedgerOK' /\ ApprovedOf' = ApprovedOf
    BY <2>1 DEF ExchangeInv, LedgerOK, Approvals, ApprovedOf, ConsentOf
  <2>3. QED
    BY <1>1, <1>4, <2>1, <2>2, PolicyHistories DEF ExchangeInv
<1>5. CASE ConsentStep
  <2>1. /\ approved' = ApprovedOf' /\ policy' = policy
        /\ UNCHANGED <<policyVars, arrived>>
    BY <1>5 DEF ConsentStep
  <2>2. PolicyOf' = PolicyOf
    BY <2>1 DEF policyVars, PolicyOf, Rule, Pdp!Decision, Pdp!NotAllowed,
       Pdp!Expired, Pdp!NeedsConsent, Pdp!Clean
  <2>3. QED
    BY <1>1, <1>5, <2>1, <2>2, LedgerStep, ConsentHistories DEF ExchangeInv
<1>6. QED
  BY <1>2, <1>3, <1>4, <1>5 DEF ExchangeNext

\* The policy decision point of the exchange is the one of PolicyDecisionPoint, and
\* so are the theorems about it.
THEOREM ExchangeHasPolicies == ExchangeSpec => Pdp!Spec
<1>1. ExchangeInit => Pdp!Init
  BY DEF ExchangeInit
<1>2. [ExchangeNext]_exchangeVars => [Pdp!Next]_Pdp!vars
  BY DEF ExchangeNext, EngineStep, PolicyStep, ConsentStep, exchangeVars, policyVars, Pdp!vars
<1>3. QED
  BY <1>1, <1>2, PTL DEF ExchangeSpec, Pdp!Spec

\* The consent engine of the exchange keeps the ledger that ConsentEngine implements.
THEOREM ExchangeHasLedger == ExchangeSpec => Ce!Spec
<1>1. ExchangeInit => Ce!Init
  BY DEF ExchangeInit
<1>2. [ExchangeNext]_exchangeVars => [Ce!Next]_ledger
  <2>1. CASE ConsentStep
    BY <2>1 DEF ConsentStep, AskedByQuery, ConsentSettled, Ce!Next
  <2>2. CASE UNCHANGED ledger
    BY <2>2
  <2>3. QED
    BY <2>1, <2>2 DEF ExchangeNext, EngineStep, PolicyStep, exchangeVars, consentVars
<1>3. QED
  BY <1>1, <1>2, PTL DEF ExchangeSpec, Ce!Spec

\* What the services hold, and what each query has seen of them, hold in every state
\* of the exchange.
THEOREM ExchangeInvariance == ExchangeSpec => []ExchangeInv
<1>1. ExchangeInv /\ PP!PolicyInv /\ PP!PolicyInv' /\ [ExchangeNext]_exchangeVars => ExchangeInv'
  BY ExchangeStep
<1>2. QED
  BY <1>1, InitExchangeInv, ExchangeHasPolicies, PoliciesInvariant, PTL DEF ExchangeSpec

\* The engine of the exchange is the one of Federation, in the world that the two
\* services make for it.
THEOREM ExchangeImplementsFederation == ExchangeSpec => Safety
<1>1. ExchangeInit => Init
  BY DEF ExchangeInit
<1>2. ExchangeInv /\ [ExchangeNext]_exchangeVars => [Next]_vars
  BY StepRefines
<1>3. QED
  BY <1>1, <1>2, ExchangeInvariance, PTL DEF ExchangeSpec, Safety

\* What a query asks for is backed by a grant and by its data owner.
LEMMA AsksWhatIsBacked ==
    ASSUME ExchangeInv, Next, NEW q \in Queries, NEW c \in ColumnsOf(query'[q]),
           query[q].pc = "build", query'[q].pc = "fanout", config.pdp
    PROVE  Backed(q, c)
<1> DEFINE r == query'[q]
<1>1. MayAsk(q, c) /\ r.ask = query[q].ask
  BY AsksWhatItMay DEF ExchangeInv
<1>2. HistoryOK(q) /\ query[q].pc \in Early /\ LedgerOK
  BY DEF ExchangeInv, Early
<1>3. Covered(r.ask.app, c, arrived[q]) /\ seen[q].approved \subseteq Ratified(r.ask.app)
  BY <1>1, <1>2 DEF HistoryOK, MayAsk
<1>4. ASSUME c \notin seen[q].open
      PROVE  \E x \in signed : /\ x.by = Owner(r)
                               /\ x.terms.app = r.ask.app /\ c \in x.terms.fields
                               /\ ConsentOf(x.terms) \in seen[q].approved
  <2>1. PICK k \in seen[q].approved : c \in k.columns /\ k.owner = Owner(r)
    BY <1>1, <1>4 DEF MayAsk
  <2>2. PICK x \in signed : x.terms.app = r.ask.app /\ k = ConsentOf(x.terms)
    BY <1>3, <2>1 DEF Ratified
  <2>3. k.owner = x.terms.owner /\ k.columns = x.terms.fields
    BY <2>2 DEF ConsentOf
  <2>4. x.by = x.terms.owner
    BY <1>2 DEF LedgerOK
  <2>5. QED
    BY <2>1, <2>2, <2>3, <2>4
<1>5. QED
  BY <1>3, <1>4 DEF Backed, Covered

\* No provider is asked for data without a grant that had not run out when the query
\* came, nor without the consent its data owner gave, unless none was needed.
THEOREM ReleasesAreBacked == ExchangeSpec => ReleaseIsBacked
<1>1. ExchangeInv /\ [Next]_vars => BacksReleases
  <2> SUFFICES ASSUME ExchangeInv, [Next]_vars, NEW q \in Queries,
                      query[q].pc = "build", query'[q].pc = "fanout", config.pdp,
                      NEW s \in Asked(query'[q]), NEW c \in AskedOf(query'[q], s)
               PROVE  Backed(q, c)
    BY DEF BacksReleases
  <2>1. Next
    BY DEF vars
  <2>2. QED
    BY <2>1, AsksWhatIsBacked DEF AskedOf
<1>2. QED
  BY <1>1, ExchangeInvariance, ExchangeImplementsFederation, PTL
     DEF ExchangeSpec, Safety, ReleaseIsBacked
=============================================================================
