----------------------------- MODULE TokenKeys -----------------------------
(***************************************************************************)
(* The key sets that two services keep to verify tokens: JWTVerifier of    *)
(* the consent engine (v1/auth/jwt_verifier.go) and JWTAuthMiddleware of   *)
(* the portal backend (v1/middleware/jwt_auth.go).  Both cache the keys    *)
(* which the identity provider publishes, and fetch them again             *)
(*   - consent: for a key they do not have, once an hour, with the write   *)
(*     lock held from the check of the age to the end of the fetch;        *)
(*   - portal: when the set is over an hour old, and for every key they do *)
(*     not have; the lock is taken only to store what was fetched, so that *)
(*     fetches overlap and may be stored in another order.                 *)
(* A fetch is a request, the provider's answer and the store, between      *)
(* which keys are rotated and time passes.  One verifier is modelled,      *)
(* which is of either kind.                                                *)
(***************************************************************************)
EXTENDS Naturals

CONSTANTS
    Requests,   \* slots for verifications in flight
    Kids,       \* the ids of the provider's keys; an id always names one key
    Kinds,      \* {"consent", "portal"}, or one of them
    Usable,     \* the ids of the keys each kind can use (type, use and size)
    FirstSets,  \* the sets the provider may publish at first
    Hour,       \* the age at which a key set is renewed, in ticks
    Timeout,    \* the timeout of the HTTP client
    MaxTime,    \* a bound on the clock
    MaxRotations, \* a bound on the changes of the published set
    None

ASSUME ConstantsAssumption ==
    /\ Kinds \subseteq {"consent", "portal"}
    /\ Usable \in [Kinds -> SUBSET Kids]
    /\ FirstSets \subseteq SUBSET Kids
    /\ Hour \in Nat \ {0} /\ Timeout \in Nat /\ MaxTime \in Nat /\ MaxRotations \in Nat
    /\ None \notin Kids \union Requests \union Nat

VARIABLES
    kind,       \* the kind of the verifier, which does not change
    now,        \* the clock
    published,  \* the keys in the provider's set
    since,      \* history: when each key was last added to it
    until,      \* history: the last time at which each key was in it, or None
    rotations,  \* the number of changes of the published set
    keys,       \* the cached keys
    lastFetch,  \* when they were stored, or None
    lock,       \* the request that holds the write lock during its fetch
    req         \* the local state of every request slot

provider == <<published, since, until, rotations>>
cache == <<keys, lastFetch, lock>>
vars == <<kind, now, provider, cache, req>>

\* A verification at step pc of a token signed with key kid, begun at time began;
\* next is the step after its fetch, sent when that began, body what it has
\* answered and failed whether it has failed.
Begun(pc, kid) == [pc |-> pc, kid |-> kid, began |-> now, next |-> "none",
                   sent |-> 0, body |-> {}, failed |-> FALSE]
Idle == [pc |-> "idle", kid |-> None, began |-> 0, next |-> "none",
         sent |-> 0, body |-> {}, failed |-> FALSE]

\* NewJWTVerifier starts a first fetch in a goroutine; the portal waits for a token.
Init ==
    /\ kind \in Kinds
    /\ now = 0
    /\ published \in FirstSets
    /\ since = [k \in Kids |-> 0]
    /\ until = [k \in Kids |-> IF k \in published THEN 0 ELSE None]
    /\ rotations = 0
    /\ keys = {} /\ lastFetch = None /\ lock = None
    /\ \E boot \in Requests :
          req = [r \in Requests |-> IF r = boot /\ kind = "consent"
                                    THEN [Idle EXCEPT !.pc = "refresh"] ELSE Idle]

Goto(r, q) == req' = [req EXCEPT ![r] = q]
Finish(r, pc) == Goto(r, [req[r] EXCEPT !.pc = pc, !.next = "none", !.sent = 0, !.body = {}])
StartFetch(r, next) ==
    Goto(r, [req[r] EXCEPT !.pc = "fetch", !.sent = now, !.next = next])
Look(r, otherwise) ==
    IF req[r].kid \in keys THEN Finish(r, "accepted") ELSE otherwise

-----------------------------------------------------------------------------
(* The consent engine *)

\* getPublicKey: a cached key is used whatever its age.
GetPublicKey(r) ==
    /\ kind = "consent" /\ req[r].pc = "idle" /\ lock = None
    /\ \E kid \in Kids :
          Goto(r, Begun(IF kid \in keys THEN "accepted" ELSE "checkAgain", kid))
    /\ UNCHANGED <<kind, now, provider, cache>>

\* Under the write lock, which is released again before the fetch takes it.
CheckAgain(r) ==
    /\ req[r].pc = "checkAgain" /\ lock = None
    /\ Look(r, Finish(r, "refresh"))
    /\ UNCHANGED <<kind, now, provider, cache>>

\* Mutant: a set that is not empty is never renewed.
AnyAge == lastFetch # None /\ keys # {}

\* Less than an hour since the last fetch, and it has found something.
Throttled == lastFetch # None /\ now - lastFetch < Hour /\ keys # {}

\* Mutant: the early return keeps the lock.
RefreshLocked(r) ==
    /\ req[r].pc = "refresh" /\ lock = None
    /\ lock' = r
    /\ IF Throttled THEN Finish(r, "lookAgain") ELSE StartFetch(r, "lookAgain")
    /\ UNCHANGED <<kind, now, provider, keys, lastFetch>>

\* Mutant: the lock is released before the request.
RefreshUnlocked(r) ==
    /\ req[r].pc = "refresh" /\ lock = None
    /\ IF Throttled THEN Finish(r, "lookAgain") ELSE StartFetch(r, "lookAgain")
    /\ UNCHANGED <<kind, now, provider, cache>>

\* fetchJWKS up to its HTTP request.
Refresh(r) ==
    /\ req[r].pc = "refresh" /\ lock = None
    /\ IF Throttled
       THEN Finish(r, "lookAgain") /\ UNCHANGED lock
       ELSE StartFetch(r, "lookAgain") /\ lock' = r
    /\ UNCHANGED <<kind, now, provider, keys, lastFetch>>

-----------------------------------------------------------------------------
(* The portal backend *)

\* Mutant: only an empty set is fetched again.
NeedsFirst == keys = {}

NeedsRefresh == keys = {} \/ now - lastFetch > Hour

\* validateToken and ensureKeysFresh.
EnsureKeysFresh(r) ==
    /\ kind = "portal" /\ req[r].pc = "idle"
    /\ \E kid \in Kids :
          Goto(r, IF NeedsRefresh
                  THEN [Begun("fetch", kid) EXCEPT !.sent = now, !.next = "look"]
                  ELSE Begun("look", kid))
    /\ UNCHANGED <<kind, now, provider, cache>>

\* The key function: an unknown key is looked for once more after a fetch.
LookUp(r) ==
    /\ req[r].pc = "look"
    /\ Look(r, StartFetch(r, "lookAgain"))
    /\ UNCHANGED <<kind, now, provider, cache>>

-----------------------------------------------------------------------------
(* Both *)

\* The provider answers with the set it publishes at that moment.
Answer(r) ==
    /\ req[r].pc = "fetch"
    /\ Goto(r, [req[r] EXCEPT !.pc = "store", !.body = published])
    /\ UNCHANGED <<kind, now, provider, cache>>

Released(r) == IF lock = r THEN None ELSE lock

\* No answer in time, another status than 200, or a body that cannot be parsed:
\* the cached keys stay, and the verification fails.
FetchFails(r) ==
    /\ req[r].pc \in {"fetch", "store"}
    /\ Goto(r, [Begun("rejected", req[r].kid) EXCEPT !.began = req[r].began, !.failed = TRUE])
    /\ lock' = Released(r)
    /\ UNCHANGED <<kind, now, provider, keys, lastFetch>>

\* The keys of an answer that can be used; the others are passed over.
UsableKeys(body) == body \intersect Usable[kind]

\* Mutant: new keys are added to the old ones.
StoreMerged(r) ==
    /\ req[r].pc = "store"
    /\ keys' = keys \union UsableKeys(req[r].body)
    /\ lastFetch' = now
    /\ lock' = Released(r)
    /\ Finish(r, req[r].next)
    /\ UNCHANGED <<kind, now, provider>>

\* The cached set is replaced by the usable keys of the answer.
Store(r) ==
    /\ req[r].pc = "store"
    /\ keys' = UsableKeys(req[r].body)
    /\ lastFetch' = now
    /\ lock' = Released(r)
    /\ Finish(r, req[r].next)
    /\ UNCHANGED <<kind, now, provider>>

LookAgain(r) ==
    /\ req[r].pc = "lookAgain" /\ lock = None
    /\ Look(r, Finish(r, "rejected"))
    /\ UNCHANGED <<kind, now, provider, cache>>

\* The middleware passes the request on, or answers 401.
Return(r) == /\ req[r].pc \in {"accepted", "rejected"}
             /\ Goto(r, Idle)
             /\ UNCHANGED <<kind, now, provider, cache>>

\* The provider adds a key or withdraws one.
Rotate ==
    /\ rotations < MaxRotations
    /\ \E k \in Kids :
          IF k \in published
          THEN published' = published \ {k} /\ UNCHANGED <<since, until>>
          ELSE /\ published' = published \union {k}
               /\ since' = [since EXCEPT ![k] = now]
               /\ until' = [until EXCEPT ![k] = now]
    /\ rotations' = rotations + 1
    /\ UNCHANGED <<kind, now, cache, req>>

\* A fetch, its store included, takes at most Timeout.
Tick ==
    /\ now < MaxTime
    /\ \A r \in Requests : req[r].pc \in {"fetch", "store"} => now < req[r].sent + Timeout
    /\ now' = now + 1
    /\ until' = [k \in Kids |-> IF k \in published THEN now' ELSE until[k]]
    /\ UNCHANGED <<kind, published, since, rotations, cache, req>>

Arrival(r) == GetPublicKey(r) \/ EnsureKeysFresh(r)
Step(r) == \/ CheckAgain(r) \/ Refresh(r) \/ LookUp(r)
           \/ Answer(r) \/ FetchFails(r) \/ Store(r) \/ LookAgain(r) \/ Return(r)

Next == \/ \E r \in Requests : Arrival(r) \/ Step(r)
        \/ Rotate \/ Tick

\* A goroutine runs on while it can: its HTTP call ends in time, and a lock that
\* is free again and again is got in the end.
Spec == Init /\ [][Next]_vars /\ \A r \in Requests : SF_vars(Step(r))

-----------------------------------------------------------------------------
(* Properties *)

Request == [pc: {"idle", "checkAgain", "refresh", "look", "fetch", "store", "lookAgain",
                 "accepted", "rejected"},
            kid: Kids \union {None}, began: 0..MaxTime, next: {"none", "look", "lookAgain"},
            sent: 0..MaxTime, body: SUBSET Kids, failed: BOOLEAN]

\* The type invariant; the write lock is held across steps by the fetch of a
\* consent verifier only, so that its fetches do not overlap.
TypeOK ==
    /\ kind \in Kinds /\ now \in 0..MaxTime
    /\ published \subseteq Kids
    /\ since \in [Kids -> 0..MaxTime] /\ until \in [Kids -> 0..MaxTime \union {None}]
    /\ rotations \in 0..MaxRotations
    /\ keys \subseteq Usable[kind] /\ lastFetch \in 0..MaxTime \union {None}
    /\ (keys # {} => lastFetch # None)
    /\ req \in [Requests -> Request]
    /\ lock \in Requests \union {None}
    /\ \A r \in Requests : lock = r <=> kind = "consent" /\ req[r].pc \in {"fetch", "store"}

\* The portal accepts a key only if the provider published it at most an hour and
\* one timeout before the verification began, however fetches overlap and in
\* whatever order they are stored; the consent engine accepts a key only if it has
\* been published at all (its cached keys are renewed for unknown keys only).
\* The hour is the code's (ensureKeysFresh).  It is not what the portal's README
\* documents, a JWT_CACHE_DURATION of 15 minutes, which no code reads: a withdrawn
\* key may be accepted for 45 minutes longer than an operator expects.
AcceptedWasPublished ==
    \A r \in Requests :
       LET q == req[r] IN
       q.pc = "accepted" =>
          /\ until[q.kid] # None
          /\ kind = "portal" => q.began <= until[q.kid] + Hour + Timeout

\* How long a new key may be rejected although no fetch of the verification fails:
\* by the consent engine while a set fetched without it is less than an hour old,
\* by the portal only while an answer without it is still under way to the cache.
RejectedOnlyWhenNew ==
    \A r \in Requests :
       LET q == req[r]
           delay == IF kind = "consent" THEN Hour - 1 + Timeout ELSE Timeout
       IN
       q.pc = "rejected" /\ ~q.failed /\ q.kid \in published \intersect Usable[kind]
       => q.began <= since[q.kid] + delay

\* Every verification comes to an end, although a fetch of the consent engine
\* keeps all others waiting for its lock.
EveryVerificationEnds ==
    \A r \in Requests : req[r].pc # "idle" ~> req[r].pc = "idle"
=============================================================================
