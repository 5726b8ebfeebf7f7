--------------------------- MODULE TokenKeysProofs ---------------------------
(***************************************************************************)
(* Proofs about the key sets of the token verifiers, for any number of     *)
(* verifications, keys and rotations, any hour and any timeout.            *)
(*                                                                         *)
(* The argument follows an answer of the provider from the request to the  *)
(* cache: a key in it was published when the request was sent or later, a  *)
(* published key that is missing was added later, and the store comes at   *)
(* most one timeout after the request.                                     *)
(***************************************************************************)
EXTENDS TokenKeys, TLAPS

\* The past is recorded, and a published key is published now.
Recorded ==
    /\ \A k \in Kids : /\ since[k] <= now
                       /\ until[k] # None => until[k] <= now
                       /\ k \in published => until[k] = now
    /\ lastFetch # None => lastFetch <= now

\* A cached key was published at most one timeout before it was stored, and a
\* key that is missing has been added at most one timeout before.
CacheOK ==
    /\ \A k \in keys : until[k] # None /\ lastFetch <= until[k] + Timeout
    /\ lastFetch # None =>
          \A k \in (published \intersect Usable[kind]) \ keys : lastFetch <= since[k] + Timeout

\* How old the cache may be at the last look for a key.
Slack == IF kind = "consent" THEN Hour - 1 ELSE 0

\* A request that fetches.
FetchOK(q) ==
    q.pc \in {"fetch", "store"} =>
       /\ q.began <= q.sent /\ q.sent <= now /\ now <= q.sent + Timeout
       /\ q.next \in {"look", "lookAgain"}
       /\ q.next = "look" => kind = "portal"

\* An answer that is not stored yet.
AnswerOK(q) ==
    q.pc = "store" =>
       /\ \A k \in q.body : until[k] # None /\ q.sent <= until[k]
       /\ \A k \in published \ q.body : q.sent <= since[k]

\* A request that looks into the cache.
LookOK(q) ==
    /\ q.began <= now
    /\ q.pc \in {"checkAgain", "refresh"} => kind = "consent"
    /\ q.pc = "look" => kind = "portal" /\ lastFetch # None /\ q.began <= lastFetch + Hour
    /\ q.pc = "lookAgain" => lastFetch # None /\ q.began <= lastFetch + Slack

\* AcceptedWasPublished and RejectedOnlyWhenNew, of one request.
AcceptedOK(q) ==
    q.pc = "accepted" =>
       /\ q.kid \in Kids /\ until[q.kid] # None
       /\ kind = "portal" => q.began <= until[q.kid] + Hour + Timeout

RejectedOK(q) ==
    q.pc = "rejected" /\ ~q.failed /\ q.kid \in published \intersect Usable[kind]
    => q.began <= since[q.kid] + (IF kind = "consent" THEN Hour - 1 + Timeout ELSE Timeout)

RequestOK(q) ==
    FetchOK(q) /\ AnswerOK(q) /\ LookOK(q) /\ AcceptedOK(q) /\ RejectedOK(q)

\* The inductive invariant.
KeysInv ==
    /\ TypeOK
    /\ Recorded
    /\ CacheOK
    /\ \A r \in Requests : RequestOK(req[r])

-----------------------------------------------------------------------------
(* Lemmas *)

LEMMA TypeFacts ==
    ASSUME KeysInv
    PROVE  /\ kind \in {"consent", "portal"} /\ now \in Nat /\ now <= MaxTime
           /\ since \in [Kids -> Nat] /\ Usable[kind] \subseteq Kids
           /\ \A k \in Kids : until[k] \in Nat \union {None}
           /\ lastFetch \in Nat \union {None}
           /\ published \subseteq Kids /\ keys \subseteq Usable[kind]
           /\ keys # {} => lastFetch # None
           /\ \A r \in Requests : req[r] \in Request
           /\ None \notin Nat /\ None \notin Kids /\ None \notin Requests
           /\ Hour \in Nat /\ Hour >= 1 /\ Timeout \in Nat /\ MaxTime \in Nat
  BY ConstantsAssumption DEF KeysInv, TypeOK

LEMMA RecordFacts ==
    ASSUME NEW q \in Request
    PROVE  /\ q.began \in 0..MaxTime /\ q.sent \in 0..MaxTime /\ q.kid \in Kids \union {None}
           /\ q.body \in SUBSET Kids
  BY DEF Request

\* A step of one request that changes nothing but its slot and the lock.
LEMMA OneRequest ==
    ASSUME KeysInv, NEW r \in Requests, NEW q \in Request, req' = [req EXCEPT ![r] = q],
           UNCHANGED <<kind, now, provider, keys, lastFetch>>, RequestOK(q),
           lock' \in Requests \union {None},
           \A s \in Requests :
              lock' = s <=> kind = "consent" /\ req'[s].pc \in {"fetch", "store"}
    PROVE  KeysInv'
  <1>1. TypeOK'
    BY DEF KeysInv, TypeOK, provider
  <1>2. Recorded' /\ CacheOK'
    BY DEF KeysInv, Recorded, CacheOK, provider
  <1>3. ASSUME NEW s \in Requests PROVE RequestOK(req'[s])
    BY DEF KeysInv, TypeOK
  <1>4. ASSUME NEW p, RequestOK(p)
        PROVE  RequestOK(p)'
    BY <1>4 DEF RequestOK, FetchOK, AnswerOK, LookOK, AcceptedOK, RejectedOK, Slack, provider
  <1>5. ASSUME NEW s \in Requests PROVE RequestOK(req[s])'
    <2>1. PICK p : p = req'[s]
      OBVIOUS
    <2>2. RequestOK(p)'
      BY <1>3, <1>4, <2>1
    <2>3. p' = p
      OBVIOUS
    <2> QED BY <2>1, <2>2
            DEF RequestOK, FetchOK, AnswerOK, LookOK, AcceptedOK, RejectedOK, Slack
  <1> QED BY <1>1, <1>2, <1>5 DEF KeysInv

LEMMA IdleFacts == Idle \in Request /\ Idle.pc = "idle" /\ Idle.began = 0
  BY ConstantsAssumption DEF Idle, Request

LEMMA KeysInit == Init => KeysInv
  <1> SUFFICES ASSUME Init PROVE KeysInv
    OBVIOUS
  <1>1. PICK boot \in Requests :
          req = [r \in Requests |-> IF r = boot /\ kind = "consent"
                                    THEN [Idle EXCEPT !.pc = "refresh"] ELSE Idle]
    BY DEF Init
  <1>2. ASSUME NEW r \in Requests
        PROVE  /\ req[r] \in Request /\ req[r].pc \in {"idle", "refresh"} /\ req[r].began = 0
               /\ req[r].pc = "refresh" => kind = "consent"
    <2> DEFINE b == [Idle EXCEPT !.pc = "refresh"]
    <2>1. b \in Request /\ b.pc = "refresh" /\ b.began = 0
      BY IdleFacts DEF Request
    <2>2. req[r] = IF r = boot /\ kind = "consent" THEN b ELSE Idle
      BY <1>1
    <2> HIDE DEF b
    <2> QED BY <2>1, <2>2, IdleFacts
  <1>3. TypeOK
    <2>1. req \in [Requests -> Request]
      BY <1>1, <1>2
    <2>2. \A r \in Requests : lock = r <=> kind = "consent" /\ req[r].pc \in {"fetch", "store"}
      BY <1>2, ConstantsAssumption DEF Init
    <2> QED BY <2>1, <2>2, ConstantsAssumption DEF Init, TypeOK
  <1>4. Recorded /\ CacheOK
    BY ConstantsAssumption DEF Init, Recorded, CacheOK
  <1>5. ASSUME NEW r \in Requests PROVE RequestOK(req[r])
    BY <1>2 DEF Init, RequestOK, FetchOK, AnswerOK, LookOK, AcceptedOK, RejectedOK
  <1> QED BY <1>3, <1>4, <1>5 DEF KeysInv

\* The ways in which a request goes on.
LEMMA Finished ==
    ASSUME KeysInv, NEW r \in Requests, NEW pc, Finish(r, pc),
           pc \in {"idle", "checkAgain", "refresh", "look", "lookAgain", "accepted", "rejected"}
    PROVE  \E q \in Request :
              /\ req' = [req EXCEPT ![r] = q] /\ req'[r] = q /\ q.pc = pc
              /\ q.kid = req[r].kid /\ q.began = req[r].began
  <1> DEFINE q == [req[r] EXCEPT !.pc = pc, !.next = "none", !.sent = 0, !.body = {}]
  <1>1. req[r] \in Request /\ req \in [Requests -> Request] /\ 0 \in 0..MaxTime
    BY ConstantsAssumption DEF KeysInv, TypeOK
  <1>2. q \in Request /\ q.pc = pc /\ q.kid = req[r].kid /\ q.began = req[r].began
    BY <1>1, {} \in SUBSET Kids DEF Request
  <1>3. req' = [req EXCEPT ![r] = q] /\ req'[r] = q
    BY <1>1 DEF Finish, Goto
  <1> HIDE DEF q
  <1> QED BY <1>2, <1>3

LEMMA FetchStarted ==
    ASSUME KeysInv, NEW r \in Requests, NEW next \in {"look", "lookAgain"}, StartFetch(r, next)
    PROVE  \E q \in Request :
              /\ req' = [req EXCEPT ![r] = q] /\ req'[r] = q /\ q.pc = "fetch"
              /\ q.sent = now /\ q.next = next /\ q.began = req[r].began
  <1> DEFINE q == [req[r] EXCEPT !.pc = "fetch", !.sent = now, !.next = next]
  <1>1. req[r] \in Request /\ req \in [Requests -> Request] /\ now \in 0..MaxTime
    BY DEF KeysInv, TypeOK
  <1>2. /\ q \in Request /\ q.pc = "fetch" /\ q.sent = now /\ q.next = next
        /\ q.began = req[r].began
    BY <1>1 DEF Request
  <1>3. req' = [req EXCEPT ![r] = q] /\ req'[r] = q
    BY <1>1 DEF StartFetch, Goto
  <1> HIDE DEF q
  <1> QED BY <1>2, <1>3

LEMMA BegunFacts ==
    ASSUME KeysInv, NEW kid \in Kids,
           NEW pc \in {"checkAgain", "look", "accepted", "fetch"}
    PROVE  /\ Begun(pc, kid) \in Request /\ Begun(pc, kid).pc = pc
           /\ Begun(pc, kid).kid = kid /\ Begun(pc, kid).began = now
  BY ConstantsAssumption DEF Begun, Request, KeysInv, TypeOK

\* A request that finds its key in a cache that is not too old for it.
LEMMA Accepts ==
    ASSUME KeysInv, NEW q \in Request, q.pc = "accepted", q.kid \in keys, q.began <= now,
           kind = "portal" => q.began <= lastFetch + Hour
    PROVE  RequestOK(q)
  <1>1. /\ q.kid \in Kids /\ until[q.kid] # None /\ until[q.kid] \in Nat /\ lastFetch \in Nat
        /\ lastFetch <= until[q.kid] + Timeout
    BY TypeFacts DEF KeysInv, CacheOK
  <1>2. kind = "portal" => q.began <= until[q.kid] + Hour + Timeout
    BY <1>1, TypeFacts, RecordFacts
  <1> QED BY <1>1, <1>2
          DEF RequestOK, FetchOK, AnswerOK, LookOK, AcceptedOK, RejectedOK

\* One that misses it in a cache that is not too old for it.
LEMMA Rejects ==
    ASSUME KeysInv, NEW q \in Request, q.pc = "rejected", q.kid \notin keys, q.began <= now,
           lastFetch # None, q.began <= lastFetch + Slack
    PROVE  RequestOK(q)
  <1>1. q.kid \in published \intersect Usable[kind] => lastFetch <= since[q.kid] + Timeout
    BY DEF KeysInv, CacheOK
  <1>2. q.kid \in published => since[q.kid] \in Nat
    BY TypeFacts
  <1>3. q.kid \in published \intersect Usable[kind]
        => q.began <= since[q.kid] + (IF kind = "consent" THEN Hour - 1 + Timeout ELSE Timeout)
    BY <1>1, <1>2, TypeFacts, RecordFacts DEF Slack
  <1> QED BY <1>3 DEF RequestOK, FetchOK, AnswerOK, LookOK, AcceptedOK, RejectedOK

\* A step that leaves the lock alone, and neither begins nor ends a locked fetch.
LEMMA LockKept ==
    ASSUME KeysInv, NEW r \in Requests, NEW q, req' = [req EXCEPT ![r] = q],
           UNCHANGED <<kind, lock>>,
           kind = "consent" => (q.pc \in {"fetch", "store"} <=> req[r].pc \in {"fetch", "store"})
    PROVE  /\ lock' \in Requests \union {None}
           /\ \A s \in Requests :
                 lock' = s <=> kind = "consent" /\ req'[s].pc \in {"fetch", "store"}
  BY DEF KeysInv, TypeOK

-----------------------------------------------------------------------------
(* The steps of one request *)

LEMMA GetPublicKeyStep ==
    ASSUME KeysInv, NEW r \in Requests, GetPublicKey(r)
    PROVE  KeysInv'
  <1>1. PICK kid \in Kids :
          req' = [req EXCEPT ![r] = Begun(IF kid \in keys THEN "accepted" ELSE "checkAgain", kid)]
    BY DEF GetPublicKey, Goto
  <1>2. PICK q \in Request :
          /\ req' = [req EXCEPT ![r] = q] /\ q.kid = kid /\ q.began = now
          /\ \/ q.pc = "accepted" /\ kid \in keys
             \/ q.pc = "checkAgain"
    BY <1>1, BegunFacts
  <1>3. kind = "consent" /\ req[r].pc = "idle" /\ UNCHANGED <<kind, now, provider, keys, lastFetch, lock>>
    BY DEF GetPublicKey, cache
  <1>4. RequestOK(q)
    <2>1. CASE q.pc = "accepted" /\ kid \in keys
      BY <1>2, <1>3, <2>1, Accepts, TypeFacts
    <2>2. CASE q.pc = "checkAgain"
      BY <1>2, <1>3, <2>2, TypeFacts
         DEF RequestOK, FetchOK, AnswerOK, LookOK, AcceptedOK, RejectedOK
    <2> QED BY <1>2, <2>1, <2>2
  <1>5. /\ lock' \in Requests \union {None}
        /\ \A s \in Requests :
              lock' = s <=> kind = "consent" /\ req'[s].pc \in {"fetch", "store"}
    BY <1>2, <1>3, LockKept
  <1> QED BY <1>2, <1>3, <1>4, <1>5, OneRequest

LEMMA CheckAgainStep ==
    ASSUME KeysInv, NEW r \in Requests, CheckAgain(r)
    PROVE  KeysInv'
  <1>1. PICK pc \in {"accepted", "refresh"} :
          Finish(r, pc) /\ (pc = "accepted" => req[r].kid \in keys)
    BY DEF CheckAgain, Look
  <1>2. PICK q \in Request :
          /\ req' = [req EXCEPT ![r] = q] /\ req'[r] = q /\ q.pc = pc
          /\ q.kid = req[r].kid /\ q.began = req[r].began
    BY <1>1, Finished
  <1>3. req[r].pc = "checkAgain" /\ UNCHANGED <<kind, now, provider, keys, lastFetch, lock>>
    BY DEF CheckAgain, cache
  <1>4. kind = "consent" /\ req[r].began <= now
    BY <1>3 DEF KeysInv, RequestOK, LookOK
  <1>5. RequestOK(q)
    <2>1. CASE pc = "accepted"
      BY <1>1, <1>2, <1>4, <2>1, Accepts
    <2>2. CASE pc = "refresh"
      BY <1>2, <1>4, <2>2 DEF RequestOK, FetchOK, AnswerOK, LookOK, AcceptedOK, RejectedOK
    <2> QED BY <2>1, <2>2
  <1>6. /\ lock' \in Requests \union {None}
        /\ \A s \in Requests :
              lock' = s <=> kind = "consent" /\ req'[s].pc \in {"fetch", "store"}
    BY <1>2, <1>3, LockKept
  <1> QED BY <1>2, <1>3, <1>5, <1>6, OneRequest

LEMMA RefreshStep ==
    ASSUME KeysInv, NEW r \in Requests, Refresh(r)
    PROVE  KeysInv'
  <1>1. /\ req[r].pc = "refresh" /\ lock = None
        /\ UNCHANGED <<kind, now, provider, keys, lastFetch>>
    BY DEF Refresh
  <1>2. kind = "consent" /\ req[r].began <= now
    BY <1>1 DEF KeysInv, RequestOK, LookOK
  <1>3. CASE Throttled /\ Finish(r, "lookAgain") /\ UNCHANGED lock
    <2>1. PICK q \in Request :
            /\ req' = [req EXCEPT ![r] = q] /\ req'[r] = q /\ q.pc = "lookAgain"
            /\ q.kid = req[r].kid /\ q.began = req[r].began
      BY <1>3, Finished
    <2>2. lastFetch # None /\ req[r].began <= lastFetch + (Hour - 1)
      <3>1. lastFetch \in Nat /\ lastFetch # None /\ now - lastFetch < Hour
        BY <1>3, TypeFacts DEF Throttled
      <3>2. req[r].began \in Nat
        BY TypeFacts, RecordFacts
      <3> QED BY <1>2, <3>1, <3>2, TypeFacts
    <2>3. RequestOK(q)
      BY <1>2, <2>1, <2>2 DEF RequestOK, FetchOK, AnswerOK, LookOK, AcceptedOK, RejectedOK, Slack
    <2>4. /\ lock' \in Requests \union {None}
          /\ \A s \in Requests :
                lock' = s <=> kind = "consent" /\ req'[s].pc \in {"fetch", "store"}
      BY <1>1, <1>3, <2>1, LockKept
    <2> QED BY <1>1, <2>1, <2>3, <2>4, OneRequest
  <1>4. CASE StartFetch(r, "lookAgain") /\ lock' = r
    <2>1. PICK q \in Request :
            /\ req' = [req EXCEPT ![r] = q] /\ req'[r] = q /\ q.pc = "fetch"
            /\ q.sent = now /\ q.next = "lookAgain" /\ q.began = req[r].began
      BY <1>4, FetchStarted
    <2>2. RequestOK(q)
      BY <1>2, <2>1, TypeFacts DEF RequestOK, FetchOK, AnswerOK, LookOK, AcceptedOK, RejectedOK
    <2>3. \A s \in Requests :
             lock' = s <=> kind = "consent" /\ req'[s].pc \in {"fetch", "store"}
      <3>1. \A s \in Requests : req[s].pc \notin {"fetch", "store"}
        BY <1>1, <1>2, TypeFacts DEF KeysInv, TypeOK
      <3>2. \A s \in Requests : s # r => req'[s] = req[s]
        BY <2>1 DEF KeysInv, TypeOK
      <3> QED BY <1>2, <1>4, <2>1, <3>1, <3>2
    <2> QED BY <1>1, <1>4, <2>1, <2>2, <2>3, OneRequest
  <1> QED BY <1>3, <1>4 DEF Refresh

LEMMA EnsureKeysFreshStep ==
    ASSUME KeysInv, NEW r \in Requests, EnsureKeysFresh(r)
    PROVE  KeysInv'
  <1>1. /\ kind = "portal" /\ req[r].pc = "idle"
        /\ UNCHANGED <<kind, now, provider, keys, lastFetch, lock>>
    BY DEF EnsureKeysFresh, cache
  <1>2. PICK kid \in Kids :
          req' = [req EXCEPT ![r] =
                    IF NeedsRefresh THEN [Begun("fetch", kid) EXCEPT !.sent = now, !.next = "look"]
                    ELSE Begun("look", kid)]
    BY DEF EnsureKeysFresh, Goto
  <1>3. PICK q \in Request :
          /\ req' = [req EXCEPT ![r] = q] /\ q.began = now
          /\ \/ q.pc = "fetch" /\ q.sent = now /\ q.next = "look"
             \/ q.pc = "look" /\ ~NeedsRefresh
    <2> DEFINE b == [Begun("fetch", kid) EXCEPT !.sent = now, !.next = "look"]
    <2>1. now \in 0..MaxTime
      BY DEF KeysInv, TypeOK
    <2>2. b \in Request /\ b.pc = "fetch" /\ b.sent = now /\ b.next = "look" /\ b.began = now
      <3>1. PICK d : d = Begun("fetch", kid)
        OBVIOUS
      <3>2. d \in Request /\ d.pc = "fetch" /\ d.began = now
        BY <3>1, BegunFacts
      <3> QED BY <2>1, <3>1, <3>2 DEF Request
    <2>3. b = [Begun("fetch", kid) EXCEPT !.sent = now, !.next = "look"]
      OBVIOUS
    <2> HIDE DEF b
    <2>4. CASE NeedsRefresh
      BY <1>2, <2>2, <2>4, <2>3
    <2>5. CASE ~NeedsRefresh
      BY <1>2, <2>5, BegunFacts
    <2> QED BY <2>4, <2>5
  <1>4. RequestOK(q)
    <2>1. CASE q.pc = "fetch" /\ q.sent = now /\ q.next = "look"
      BY <1>1, <1>3, <2>1, TypeFacts
         DEF RequestOK, FetchOK, AnswerOK, LookOK, AcceptedOK, RejectedOK
    <2>2. CASE q.pc = "look" /\ ~NeedsRefresh
      <3>1. lastFetch # None /\ now <= lastFetch + Hour
        BY <2>2, TypeFacts DEF NeedsRefresh
      <3> QED BY <1>1, <1>3, <2>2, <3>1, TypeFacts
              DEF RequestOK, FetchOK, AnswerOK, LookOK, AcceptedOK, RejectedOK
    <2> QED BY <1>3, <2>1, <2>2
  <1>5. /\ lock' \in Requests \union {None}
        /\ \A s \in Requests :
              lock' = s <=> kind = "consent" /\ req'[s].pc \in {"fetch", "store"}
    BY <1>1, <1>3, LockKept
  <1> QED BY <1>1, <1>3, <1>4, <1>5, OneRequest

LEMMA LookUpStep ==
    ASSUME KeysInv, NEW r \in Requests, LookUp(r)
    PROVE  KeysInv'
  <1>1. req[r].pc = "look" /\ UNCHANGED <<kind, now, provider, keys, lastFetch, lock>>
    BY DEF LookUp, cache
  <1>2. kind = "portal" /\ req[r].began <= now /\ req[r].began <= lastFetch + Hour
    BY <1>1 DEF KeysInv, RequestOK, LookOK
  <1>3. PICK q \in Request :
          /\ req' = [req EXCEPT ![r] = q] /\ q.began = req[r].began
          /\ \/ q.pc = "accepted" /\ q.kid \in keys
             \/ q.pc = "fetch" /\ q.sent = now /\ q.next = "lookAgain"
    <2>1. CASE req[r].kid \in keys /\ Finish(r, "accepted")
      BY <2>1, Finished
    <2>2. CASE StartFetch(r, "lookAgain")
      BY <2>2, FetchStarted
    <2> QED BY <2>1, <2>2 DEF LookUp, Look
  <1>4. RequestOK(q)
    <2>1. CASE q.pc = "accepted" /\ q.kid \in keys
      BY <1>2, <1>3, <2>1, Accepts
    <2>2. CASE q.pc = "fetch" /\ q.sent = now /\ q.next = "lookAgain"
      <3>1. FetchOK(q)
        BY <1>2, <1>3, <2>2, TypeFacts DEF FetchOK
      <3>2. LookOK(q)
        BY <1>2, <1>3, <2>2 DEF LookOK
      <3>3. AnswerOK(q) /\ AcceptedOK(q) /\ RejectedOK(q)
        BY <2>2 DEF AnswerOK, AcceptedOK, RejectedOK
      <3> QED BY <3>1, <3>2, <3>3 DEF RequestOK
    <2> QED BY <1>3, <2>1, <2>2
  <1>5. /\ lock' \in Requests \union {None}
        /\ \A s \in Requests :
              lock' = s <=> kind = "consent" /\ req'[s].pc \in {"fetch", "store"}
    BY <1>1, <1>2, <1>3, LockKept
  <1> QED BY <1>1, <1>3, <1>4, <1>5, OneRequest

LEMMA AnswerStep ==
    ASSUME KeysInv, NEW r \in Requests, Answer(r)
    PROVE  KeysInv'
  <1> DEFINE b == [req[r] EXCEPT !.pc = "store", !.body = published]
  <1>1. req[r].pc = "fetch" /\ UNCHANGED <<kind, now, provider, keys, lastFetch, lock>>
    BY DEF Answer, cache
  <1>2. /\ b \in Request /\ b.pc = "store" /\ b.body = published /\ b.began = req[r].began
        /\ b.sent = req[r].sent /\ b.next = req[r].next
    <2>1. req[r] \in Request /\ published \in SUBSET Kids
      BY TypeFacts
    <2>2. b \in Request
      BY <2>1 DEF Request
    <2>3. /\ b.pc = "store" /\ b.body = published /\ b.began = req[r].began
          /\ b.sent = req[r].sent /\ b.next = req[r].next
      BY <2>1 DEF Request
    <2> QED BY <2>2, <2>3
  <1>3. req' = [req EXCEPT ![r] = b]
    BY DEF Answer, Goto
  <1> HIDE DEF b
  <1>4. PICK q \in Request :
          /\ req' = [req EXCEPT ![r] = q] /\ q.pc = "store" /\ q.body = published
          /\ q.began = req[r].began /\ q.sent = req[r].sent /\ q.next = req[r].next
    BY <1>2, <1>3
  <1>5. FetchOK(req[r]) /\ req[r].began <= now
    BY DEF KeysInv, RequestOK, LookOK
  <1>6. FetchOK(q) /\ q.sent <= now
    BY <1>1, <1>4, <1>5 DEF FetchOK
  <1>7. \A k \in published : until[k] # None /\ q.sent <= until[k]
    BY <1>6, TypeFacts DEF KeysInv, Recorded
  <1>8. RequestOK(q)
    BY <1>4, <1>5, <1>6, <1>7 DEF RequestOK, AnswerOK, LookOK, AcceptedOK, RejectedOK
  <1>9. /\ lock' \in Requests \union {None}
        /\ \A s \in Requests :
              lock' = s <=> kind = "consent" /\ req'[s].pc \in {"fetch", "store"}
    BY <1>1, <1>4, LockKept
  <1> QED BY <1>1, <1>4, <1>8, <1>9, OneRequest

\* The end of a fetch, which a consent verifier has done under the lock.
LEMMA LockReleased ==
    ASSUME KeysInv, NEW r \in Requests, NEW q, req' = [req EXCEPT ![r] = q],
           req[r].pc \in {"fetch", "store"}, q.pc \notin {"fetch", "store"},
           lock' = Released(r)
    PROVE  /\ lock' \in Requests \union {None}
           /\ \A s \in Requests :
                 lock' = s <=> kind = "consent" /\ req'[s].pc \in {"fetch", "store"}
  <1>1. \A s \in Requests : req'[s] = IF s = r THEN q ELSE req[s]
    BY DEF KeysInv, TypeOK
  <1>2. /\ lock \in Requests \union {None}
        /\ \A s \in Requests : lock = s <=> kind = "consent" /\ req[s].pc \in {"fetch", "store"}
    BY DEF KeysInv, TypeOK
  <1>3. lock' = None
    BY <1>2 DEF Released
  <1>4. \A s \in Requests : s # r => ~(kind = "consent" /\ req[s].pc \in {"fetch", "store"})
    BY <1>2
  <1> QED BY <1>1, <1>3, <1>4, TypeFacts

LEMMA FetchFailsStep ==
    ASSUME KeysInv, NEW r \in Requests, FetchFails(r)
    PROVE  KeysInv'
  <1>1. /\ req[r].pc \in {"fetch", "store"} /\ lock' = Released(r)
        /\ UNCHANGED <<kind, now, provider, keys, lastFetch>>
    BY DEF FetchFails
  <1>2. PICK q \in Request :
          /\ req' = [req EXCEPT ![r] = q] /\ q.pc = "rejected" /\ q.failed
          /\ q.began = req[r].began
    <2> DEFINE b == [Begun("rejected", req[r].kid) EXCEPT !.began = req[r].began, !.failed = TRUE]
    <2>1. /\ req[r].began \in 0..MaxTime /\ req[r].kid \in Kids \union {None}
          /\ 0 \in 0..MaxTime
      BY TypeFacts, RecordFacts
    <2>2. b \in Request /\ b.pc = "rejected" /\ b.failed /\ b.began = req[r].began
      BY <2>1 DEF Begun, Request
    <2>3. req' = [req EXCEPT ![r] = b]
      BY DEF FetchFails, Goto
    <2> HIDE DEF b
    <2> QED BY <2>2, <2>3
  <1>3. req[r].began <= now
    BY DEF KeysInv, RequestOK, LookOK
  <1>4. RequestOK(q)
    BY <1>2, <1>3 DEF RequestOK, FetchOK, AnswerOK, LookOK, AcceptedOK, RejectedOK
  <1>5. /\ lock' \in Requests \union {None}
        /\ \A s \in Requests :
              lock' = s <=> kind = "consent" /\ req'[s].pc \in {"fetch", "store"}
    BY <1>1, <1>2, LockReleased
  <1> QED BY <1>1, <1>2, <1>4, <1>5, OneRequest

LEMMA LookAgainStep ==
    ASSUME KeysInv, NEW r \in Requests, LookAgain(r)
    PROVE  KeysInv'
  <1>1. req[r].pc = "lookAgain" /\ UNCHANGED <<kind, now, provider, keys, lastFetch, lock>>
    BY DEF LookAgain, cache
  <1>2. lastFetch # None /\ req[r].began <= now /\ req[r].began <= lastFetch + Slack
    BY <1>1 DEF KeysInv, RequestOK, LookOK
  <1>3. PICK pc \in {"accepted", "rejected"} :
          /\ Finish(r, pc)
          /\ pc = "accepted" => req[r].kid \in keys
          /\ pc = "rejected" => req[r].kid \notin keys
    BY DEF LookAgain, Look
  <1>4. PICK q \in Request :
          /\ req' = [req EXCEPT ![r] = q] /\ req'[r] = q /\ q.pc = pc
          /\ q.kid = req[r].kid /\ q.began = req[r].began
    BY <1>3, Finished
  <1>5. kind = "portal" => q.began <= lastFetch + Hour
    BY <1>2, <1>4, TypeFacts, RecordFacts DEF Slack
  <1>6. RequestOK(q)
    BY <1>2, <1>3, <1>4, <1>5, Accepts, Rejects
  <1>7. /\ lock' \in Requests \union {None}
        /\ \A s \in Requests :
              lock' = s <=> kind = "consent" /\ req'[s].pc \in {"fetch", "store"}
    BY <1>1, <1>4, LockKept
  <1> QED BY <1>1, <1>4, <1>6, <1>7, OneRequest

LEMMA ReturnStep ==
    ASSUME KeysInv, NEW r \in Requests, Return(r)
    PROVE  KeysInv'
  <1>1. /\ req[r].pc \in {"accepted", "rejected"} /\ req' = [req EXCEPT ![r] = Idle]
        /\ UNCHANGED <<kind, now, provider, keys, lastFetch, lock>>
    BY DEF Return, Goto, cache
  <1>2. RequestOK(Idle)
    BY IdleFacts, TypeFacts DEF RequestOK, FetchOK, AnswerOK, LookOK, AcceptedOK, RejectedOK
  <1>3. /\ lock' \in Requests \union {None}
        /\ \A s \in Requests :
              lock' = s <=> kind = "consent" /\ req'[s].pc \in {"fetch", "store"}
    BY <1>1, IdleFacts, LockKept
  <1> QED BY <1>1, <1>2, <1>3, IdleFacts, OneRequest

\* The cache is replaced by an answer; every other request looks into a newer one.
LEMMA StoreStep ==
    ASSUME KeysInv, NEW r \in Requests, Store(r)
    PROVE  KeysInv'
  <1>1. /\ req[r].pc = "store" /\ keys' = UsableKeys(req[r].body) /\ lastFetch' = now
        /\ lock' = Released(r) /\ Finish(r, req[r].next)
        /\ UNCHANGED <<kind, now, provider>>
    BY DEF Store
  <1>2. /\ FetchOK(req[r]) /\ AnswerOK(req[r]) /\ req[r].began <= now
        /\ req[r].sent \in Nat /\ req[r].began \in Nat /\ req[r].body \subseteq Kids
    BY TypeFacts, RecordFacts DEF KeysInv, RequestOK, LookOK
  <1>3. PICK q \in Request :
          /\ req' = [req EXCEPT ![r] = q] /\ req'[r] = q /\ q.pc = req[r].next
          /\ q.kid = req[r].kid /\ q.began = req[r].began
    BY <1>1, <1>2, Finished DEF FetchOK
  <1>4. q.pc \in {"look", "lookAgain"} /\ (q.pc = "look" => kind = "portal")
    BY <1>1, <1>2, <1>3 DEF FetchOK
  <1>5. /\ lock' \in Requests \union {None}
        /\ \A s \in Requests :
              lock' = s <=> kind = "consent" /\ req'[s].pc \in {"fetch", "store"}
    BY <1>1, <1>3, <1>4, LockReleased
  <1>6. TypeOK'
    <2>1. keys' \subseteq Usable[kind] /\ lastFetch' \in 0..MaxTime
      BY <1>1 DEF UsableKeys, KeysInv, TypeOK
    <2>2. lastFetch' # None
      BY <2>1, TypeFacts
    <2>3. req' \in [Requests -> Request]
      BY <1>3 DEF KeysInv, TypeOK
    <2> QED BY <1>1, <1>5, <2>1, <2>2, <2>3 DEF KeysInv, TypeOK, provider
  <1>7. Recorded'
    BY <1>1, TypeFacts DEF KeysInv, Recorded, provider
  <1>8. CacheOK'
    <2>1. ASSUME NEW k \in keys' PROVE until[k] # None /\ now <= until[k] + Timeout
      <3>1. k \in req[r].body /\ k \in Kids /\ until[k] \in Nat \union {None}
        BY <1>1, <1>2, TypeFacts DEF UsableKeys
      <3>2. until[k] # None /\ req[r].sent <= until[k] /\ now <= req[r].sent + Timeout
        BY <1>1, <1>2, <3>1 DEF AnswerOK, FetchOK
      <3> QED BY <1>2, <3>1, <3>2, TypeFacts
    <2>2. ASSUME NEW k \in (published \intersect Usable[kind]) \ keys'
          PROVE  now <= since[k] + Timeout
      <3>1. k \in published \ req[r].body /\ since[k] \in Nat
        BY <1>1, TypeFacts DEF UsableKeys
      <3>2. req[r].sent <= since[k] /\ now <= req[r].sent + Timeout
        BY <1>1, <1>2, <3>1 DEF AnswerOK, FetchOK
      <3> QED BY <1>2, <3>1, <3>2, TypeFacts
    <2> QED BY <1>1, <2>1, <2>2 DEF CacheOK, provider
  <1>9. now # None /\ \A p \in Request : p.began <= now => p.began <= now + Hour /\ p.began <= now + Slack
    BY TypeFacts, RecordFacts DEF Slack
  <1>10. ASSUME NEW p \in Request, RequestOK(p)
         PROVE  RequestOK(p)'
    BY <1>1, <1>9, <1>10
       DEF RequestOK, FetchOK, AnswerOK, LookOK, AcceptedOK, RejectedOK, Slack, provider
  <1>11. RequestOK(q)'
    BY <1>1, <1>2, <1>3, <1>4, <1>9
       DEF RequestOK, FetchOK, AnswerOK, LookOK, AcceptedOK, RejectedOK, Slack
  <1>12. ASSUME NEW s \in Requests PROVE RequestOK(req[s])'
    <2>1. PICK p : p = req'[s]
      OBVIOUS
    <2>2. p \in Request /\ RequestOK(p)'
      <3>1. CASE s = r
        BY <1>3, <1>11, <2>1, <3>1
           DEF RequestOK, FetchOK, AnswerOK, LookOK, AcceptedOK, RejectedOK, Slack
      <3>2. CASE s # r
        <4>1. p = req[s] /\ RequestOK(req[s]) /\ req[s] \in Request
          BY <1>3, <2>1, <3>2, TypeFacts DEF KeysInv, TypeOK
        <4> QED BY <1>10, <4>1
      <3> QED BY <3>1, <3>2
    <2> QED BY <2>1, <2>2
            DEF RequestOK, FetchOK, AnswerOK, LookOK, AcceptedOK, RejectedOK, Slack
  <1> QED BY <1>6, <1>7, <1>8, <1>12 DEF KeysInv

-----------------------------------------------------------------------------
(* The steps of the world *)

\* Time passes or the provider changes its keys, and no verification moves.
LEMMA WorldStep ==
    ASSUME KeysInv, TypeOK', now <= now', Recorded', UNCHANGED <<kind, cache, req>>,
           \A k \in Kids :
              /\ until[k] # None => until'[k] # None /\ until[k] <= until'[k]
              /\ k \in published' => (since'[k] = since[k] /\ k \in published) \/ since'[k] = now,
           \A r \in Requests : req[r].pc \in {"fetch", "store"} => now' <= req[r].sent + Timeout
    PROVE  KeysInv'
  <1>1. /\ now' \in Nat /\ since' \in [Kids -> Nat] /\ published' \subseteq Kids
        /\ \A k \in Kids : until'[k] \in Nat \union {None}
    BY ConstantsAssumption DEF TypeOK
  <1>2. CacheOK'
    <2>1. ASSUME NEW k \in keys PROVE until'[k] # None /\ lastFetch <= until'[k] + Timeout
      <3>1. /\ k \in Kids /\ until[k] # None /\ lastFetch <= until[k] + Timeout
            /\ lastFetch \in Nat /\ until[k] \in Nat
        BY TypeFacts DEF KeysInv, CacheOK
      <3> QED BY <1>1, <3>1, TypeFacts
    <2>2. ASSUME lastFetch # None, NEW k \in (published' \intersect Usable[kind]) \ keys
          PROVE  lastFetch <= since'[k] + Timeout
      <3>1. k \in Kids /\ lastFetch \in Nat /\ lastFetch <= now
        BY <2>2, TypeFacts DEF KeysInv, Recorded
      <3>2. CASE since'[k] = now
        BY <3>1, <3>2, TypeFacts
      <3>3. CASE since'[k] = since[k] /\ k \in published
        BY <2>2, <3>3 DEF KeysInv, CacheOK
      <3> QED BY <1>1, <2>2, <3>1, <3>2, <3>3
    <2> QED BY <2>1, <2>2 DEF CacheOK, cache
  <1>3. ASSUME NEW r \in Requests PROVE RequestOK(req[r])'
    <2>1. PICK p : p = req[r]
      OBVIOUS
    <2>2. /\ p \in Request /\ RequestOK(p) /\ p = req'[r]
          /\ p.began \in Nat /\ p.sent \in Nat /\ p.kid \in Kids \union {None}
          /\ p.body \subseteq Kids
      BY <2>1, TypeFacts, RecordFacts DEF KeysInv
    <2>3. FetchOK(p)'
      BY <1>1, <2>1, <2>2, TypeFacts DEF RequestOK, FetchOK
    <2>4. AnswerOK(p)'
      <3> SUFFICES ASSUME p.pc = "store"
                   PROVE  /\ \A k \in p.body : until'[k] # None /\ p.sent <= until'[k]
                          /\ \A k \in published' \ p.body : p.sent <= since'[k]
        BY DEF AnswerOK
      <3>1. p.sent <= now
        BY <2>2 DEF RequestOK, FetchOK
      <3>2. ASSUME NEW k \in p.body PROVE until'[k] # None /\ p.sent <= until'[k]
        <4>1. k \in Kids /\ until[k] # None /\ p.sent <= until[k]
          BY <2>2 DEF RequestOK, AnswerOK
        <4> QED BY <1>1, <2>2, <4>1, TypeFacts
      <3>3. ASSUME NEW k \in published' \ p.body PROVE p.sent <= since'[k]
        <4>1. CASE since'[k] = since[k] /\ k \in published
          BY <2>2, <4>1 DEF RequestOK, AnswerOK
        <4> QED BY <1>1, <3>1, <4>1
      <3> QED BY <3>2, <3>3
    <2>5. LookOK(p)'
      BY <1>1, <2>2, TypeFacts DEF RequestOK, LookOK, Slack, cache
    <2>6. AcceptedOK(p)'
      <3> SUFFICES ASSUME p.pc = "accepted"
                   PROVE  /\ p.kid \in Kids /\ until'[p.kid] # None
                          /\ kind = "portal" => p.began <= until'[p.kid] + Hour + Timeout
        BY DEF AcceptedOK
      <3>1. /\ p.kid \in Kids /\ until[p.kid] # None
            /\ kind = "portal" => p.began <= until[p.kid] + Hour + Timeout
        BY <2>2 DEF RequestOK, AcceptedOK
      <3> QED BY <1>1, <2>2, <3>1, TypeFacts
    <2>7. RejectedOK(p)'
      <3> DEFINE delay == IF kind = "consent" THEN Hour - 1 + Timeout ELSE Timeout
      <3> SUFFICES ASSUME p.pc = "rejected", ~p.failed,
                          p.kid \in published' \intersect Usable[kind]
                   PROVE  p.began <= since'[p.kid] + delay
        BY DEF RejectedOK
      <3>1. p.kid \in Kids /\ delay \in Nat
        BY <1>1, TypeFacts
      <3>2. CASE since'[p.kid] = now
        <4>1. p.began <= now
          BY <2>2 DEF RequestOK, LookOK
        <4> QED BY <2>2, <3>1, <3>2, <4>1, TypeFacts
      <3>3. CASE since'[p.kid] = since[p.kid] /\ p.kid \in published
        BY <2>2, <3>3 DEF RequestOK, RejectedOK
      <3> QED BY <3>1, <3>2, <3>3
    <2>8. RequestOK(p)'
      BY <2>3, <2>4, <2>5, <2>6, <2>7 DEF RequestOK
    <2> QED BY <2>2, <2>8
            DEF RequestOK, FetchOK, AnswerOK, LookOK, AcceptedOK, RejectedOK, Slack
  <1> QED BY <1>2, <1>3 DEF KeysInv

LEMMA RotateStep ==
    ASSUME KeysInv, Rotate
    PROVE  KeysInv'
  <1>1. PICK k \in Kids :
          IF k \in published
          THEN published' = published \ {k} /\ UNCHANGED <<since, until>>
          ELSE /\ published' = published \union {k}
               /\ since' = [since EXCEPT ![k] = now]
               /\ until' = [until EXCEPT ![k] = now]
    BY DEF Rotate
  <1>2. /\ rotations < MaxRotations /\ rotations' = rotations + 1
        /\ UNCHANGED <<kind, now, cache, req>>
    BY DEF Rotate
  <1>3. /\ since \in [Kids -> 0..MaxTime] /\ until \in [Kids -> (0..MaxTime) \union {None}]
        /\ published \subseteq Kids /\ now \in 0..MaxTime
    BY DEF KeysInv, TypeOK
  <1>4. /\ since' \in [Kids -> 0..MaxTime] /\ until' \in [Kids -> (0..MaxTime) \union {None}]
        /\ published' \subseteq Kids
    BY <1>1, <1>3
  <1>5. rotations' \in 0..MaxRotations
    BY <1>2, ConstantsAssumption DEF KeysInv, TypeOK
  <1>6. TypeOK'
    BY <1>2, <1>4, <1>5 DEF KeysInv, TypeOK, cache
  <1>7. ASSUME NEW j \in Kids
        PROVE  /\ until[j] # None => until'[j] # None /\ until[j] <= until'[j]
               /\ j \in published' => (since'[j] = since[j] /\ j \in published) \/ since'[j] = now
               /\ since'[j] <= now
               /\ until'[j] # None => until'[j] <= now
               /\ j \in published' => until'[j] = now
    <2>1. /\ since[j] <= now /\ (until[j] # None => until[j] <= now)
          /\ j \in published => until[j] = now
      BY DEF KeysInv, Recorded
    <2>2. now \in Nat /\ now # None /\ until[j] \in Nat \union {None}
      BY TypeFacts
    <2>3. CASE j # k \/ k \in published
      <3>1. /\ until'[j] = until[j] /\ since'[j] = since[j]
            /\ j \in published' => j \in published
        BY <1>1, <1>3, <2>3
      <3> QED BY <2>1, <2>2, <3>1
    <2>4. CASE j = k /\ k \notin published
      <3>1. until'[j] = now /\ since'[j] = now
        BY <1>1, <1>3, <2>4
      <3> QED BY <2>1, <2>2, <3>1
    <2> QED BY <2>3, <2>4
  <1>8. Recorded'
    BY <1>2, <1>7 DEF KeysInv, Recorded, cache
  <1>9. \A r \in Requests : req[r].pc \in {"fetch", "store"} => now <= req[r].sent + Timeout
    BY DEF KeysInv, RequestOK, FetchOK
  <1>10. now <= now'
    BY <1>2, TypeFacts
  <1> QED BY <1>2, <1>6, <1>7, <1>8, <1>9, <1>10, WorldStep

LEMMA TickStep ==
    ASSUME KeysInv, Tick
    PROVE  KeysInv'
  <1>1. /\ now < MaxTime /\ now' = now + 1
        /\ \A r \in Requests : req[r].pc \in {"fetch", "store"} => now < req[r].sent + Timeout
        /\ until' = [k \in Kids |-> IF k \in published THEN now' ELSE until[k]]
        /\ UNCHANGED <<kind, published, since, rotations, cache, req>>
    BY DEF Tick
  <1>2. now' \in 0..MaxTime /\ now <= now' /\ now' # None
    BY <1>1, TypeFacts
  <1>3. until' \in [Kids -> (0..MaxTime) \union {None}]
    BY <1>1, <1>2 DEF KeysInv, TypeOK
  <1>4. TypeOK'
    BY <1>1, <1>2, <1>3 DEF KeysInv, TypeOK, cache
  <1>5. ASSUME NEW k \in Kids
        PROVE  /\ until[k] # None => until'[k] # None /\ until[k] <= until'[k]
               /\ since'[k] <= now'
               /\ until'[k] # None => until'[k] <= now'
               /\ k \in published' => until'[k] = now'
    <2>1. /\ since[k] <= now /\ (until[k] # None => until[k] <= now) /\ since[k] \in Nat
          /\ until[k] \in Nat \union {None} /\ now \in Nat
      BY TypeFacts DEF KeysInv, Recorded
    <2>2. until'[k] = IF k \in published THEN now' ELSE until[k]
      BY <1>1
    <2> QED BY <1>1, <1>2, <2>1, <2>2
  <1>6. Recorded'
    <2>1. lastFetch # None => lastFetch <= now'
      BY <1>1, TypeFacts DEF KeysInv, Recorded
    <2> QED BY <1>1, <1>5, <2>1 DEF Recorded, cache
  <1>7. ASSUME NEW r \in Requests, req[r].pc \in {"fetch", "store"}
        PROVE  now' <= req[r].sent + Timeout
    BY <1>1, <1>7, TypeFacts, RecordFacts
  <1> QED BY <1>1, <1>2, <1>4, <1>5, <1>6, <1>7, WorldStep

LEMMA KeysNext == KeysInv /\ [Next]_vars => KeysInv'
  <1> SUFFICES ASSUME KeysInv, [Next]_vars PROVE KeysInv'
    OBVIOUS
  <1>1. CASE UNCHANGED vars
    BY <1>1 DEF vars, provider, cache, KeysInv, TypeOK, Recorded, CacheOK, RequestOK, FetchOK,
                AnswerOK, LookOK, AcceptedOK, RejectedOK, Slack
  <1>2. ASSUME NEW r \in Requests, Arrival(r) \/ Step(r) PROVE KeysInv'
    BY <1>2, GetPublicKeyStep, EnsureKeysFreshStep, CheckAgainStep, RefreshStep, LookUpStep,
       AnswerStep, FetchFailsStep, StoreStep, LookAgainStep, ReturnStep DEF Arrival, Step
  <1>3. CASE Rotate \/ Tick
    BY <1>3, RotateStep, TickStep
  <1> QED BY <1>1, <1>2, <1>3 DEF Next

-----------------------------------------------------------------------------
(* Theorems *)

\* However verifications, rotations and failures interleave, the invariant holds.
THEOREM KeysInvariance == Spec => []KeysInv
  <1>1. Init => KeysInv
    BY KeysInit
  <1>2. KeysInv /\ [Next]_vars => KeysInv'
    BY KeysNext
  <1> QED BY <1>1, <1>2, PTL DEF Spec

\* The variables keep their types, and the lock is held exactly by the fetch of a
\* consent verifier (fetchJWKS).
THEOREM KeysTypeCorrect == Spec => []TypeOK
  <1>1. KeysInv => TypeOK
    BY DEF KeysInv
  <1> QED BY <1>1, KeysInvariance, PTL

\* How long the portal accepts a key that has been withdrawn (ensureKeysFresh).
THEOREM WithdrawnKeysExpire == Spec => []AcceptedWasPublished
  <1>1. KeysInv => AcceptedWasPublished
    BY DEF KeysInv, RequestOK, AcceptedOK, AcceptedWasPublished
  <1> QED BY <1>1, KeysInvariance, PTL

\* How long a new key may be rejected (getPublicKey, validateToken).
THEOREM NewKeysArrive == Spec => []RejectedOnlyWhenNew
  <1>1. KeysInv => RejectedOnlyWhenNew
    BY DEF KeysInv, RequestOK, RejectedOK, RejectedOnlyWhenNew
  <1> QED BY <1>1, KeysInvariance, PTL
=============================================================================
