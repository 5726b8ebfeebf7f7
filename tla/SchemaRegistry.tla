--------------------------- MODULE SchemaRegistry ---------------------------
(***************************************************************************)
(* The unified schemas of the orchestration engine                         *)
(* (src/exchange/orchestration-engine/database/schema_db.go): versions are *)
(* added, and one of them is made the active one by a transaction of two   *)
(* updates.  PostgreSQL runs it at READ COMMITTED: every statement sees    *)
(* the rows committed when it starts, waits for the locks on them, and     *)
(* keeps its own until the end.                                            *)
(***************************************************************************)
EXTENDS Naturals

CONSTANTS
    Requests,    \* slots for activations in flight
    Versions,    \* the versions requests may name, stored or not
    Stored,      \* those stored at the beginning
    None

ASSUME ConstantsAssumption == Stored \subseteq Versions /\ None \notin Versions

VARIABLES
    rows,        \* the committed versions
    active,      \* those of them with is_active
    tx,          \* the transaction of every request slot
    last,        \* history: the version of the last successful activation
    late         \* history: the versions created while an activation ran

vars == <<rows, active, tx, last, late>>

\* A transaction for a version, whose first statement saw the rows sees, and
\* which has locked the rows locks.
Idle == [pc |-> "idle", version |-> None, sees |-> {}, locks |-> {}]

Init == /\ rows = Stored
        /\ active = {}
        /\ tx = [r \in Requests |-> Idle]
        /\ last = None
        /\ late = {}

Goes(r, t) == tx' = [tx EXCEPT ![r] = t]

\* Rows that another transaction has locked.
LockedToo(r) == UNION {tx[o].locks : o \in Requests \ {r}}

\* Mutant: only the active rows are updated, and locked.
SeesActive(S) == S \intersect active

\* UPDATE unified_schemas SET is_active = FALSE has no WHERE.
Sees(S) == S

\* CreateSchema inserts an inactive row; versions are unique.
CreateSchema(v) ==
    /\ v \notin rows
    /\ rows' = rows \union {v}
    /\ late' = IF \E r \in Requests : tx[r].pc # "idle" THEN late \union {v} ELSE late
    /\ UNCHANGED <<active, tx, last>>

\* ActivateSchema begins, and its first statement takes its snapshot.
Begin(r) ==
    /\ tx[r].pc = "idle"
    /\ \E v \in Versions :
          Goes(r, [Idle EXCEPT !.pc = "deactivate", !.version = v, !.sees = Sees(rows)])
    /\ UNCHANGED <<rows, active, last, late>>

\* The first statement ends when all the rows it saw are locked.
Deactivate(r) ==
    LET t == tx[r] IN
    /\ t.pc = "deactivate"
    /\ t.sees \intersect LockedToo(r) = {}
    /\ Goes(r, [t EXCEPT !.pc = "activate", !.locks = t.sees])
    /\ UNCHANGED <<rows, active, last, late>>

\* Mutant: a version that is not stored is no reason to roll back.
FoundAny(r) == TRUE

\* rowsAffected, of the second statement
Found(r) == tx[r].version \in rows

\* Mutant: the rollback is left out, and the transaction keeps its locks.
RolledBackLate(t) == [t EXCEPT !.pc = "leaked"]

\* The deferred Rollback.
RolledBack(t) == Idle

\* The second statement; when it affects no row the transaction is undone.
Activate(r) ==
    LET t == tx[r] IN
    /\ t.pc = "activate"
    /\ t.version \notin LockedToo(r)
    /\ Goes(r, IF Found(r)
               THEN [t EXCEPT !.pc = "commit", !.locks = @ \union (rows \intersect {t.version})]
               ELSE RolledBack(t))
    /\ UNCHANGED <<rows, active, last, late>>

\* Both updates become visible at once.
Commit(r) ==
    LET t == tx[r] IN
    /\ t.pc = "commit"
    /\ active' = (active \ t.locks) \union (rows \intersect {t.version})
    /\ last' = t.version
    /\ Goes(r, Idle)
    /\ UNCHANGED <<rows, late>>

\* A statement fails, or the process dies: nothing of the transaction stays.
Abort(r) ==
    /\ tx[r].pc # "idle"
    /\ Goes(r, RolledBack(tx[r]))
    /\ UNCHANGED <<rows, active, last, late>>

Next == \/ \E v \in Versions : CreateSchema(v)
        \/ \E r \in Requests :
              Begin(r) \/ Deactivate(r) \/ Activate(r) \/ Commit(r) \/ Abort(r)

\* A statement that can go on does, and PostgreSQL's lock queues are fair to
\* those that wait.
Fairness == \A r \in Requests :
    SF_vars(Deactivate(r)) /\ SF_vars(Activate(r)) /\ WF_vars(Commit(r))

Spec == Init /\ [][Next]_vars /\ Fairness

-----------------------------------------------------------------------------
(* Properties *)

Transactions == [pc : {"idle", "deactivate", "activate", "commit"},
                 version : Versions \union {None},
                 sees : SUBSET Versions, locks : SUBSET Versions]

\* Types; an active version is a stored one, and no row has two locks.
TypeOK ==
    /\ rows \subseteq Versions
    /\ active \subseteq rows
    /\ tx \in [Requests -> Transactions]
    /\ last \in Versions \union {None}
    /\ late \subseteq rows
    /\ \A r \in Requests : tx[r].pc = "commit" => tx[r].version \in rows
    /\ \A r, o \in Requests : r # o => tx[r].locks \intersect tx[o].locks = {}

\* What ActivateSchema guarantees: the version that was activated last is active,
\* and any other that still is was created while an activation ran, because only
\* such a row escapes an UPDATE of all rows.  That there is no other is what the
\* repository says, and is OneActiveSchema below.
ActivationServes ==
    /\ last # None => last \in active
    /\ active \ {last} \subseteq late

\* Once there is an active schema there always is one: an activation never
\* leaves the federator to its fallback, whatever it races with or fails at.
StaysActive == [][active # {} => active' # {}]_vars

\* No activation waits for ever for another one's locks.
EveryActivationEnds == \A r \in Requests : tx[r].pc # "idle" ~> tx[r].pc = "idle"

-----------------------------------------------------------------------------
(* What the repository says and the code does not guarantee *)

\* ActivateSchema, "Deactivate all schemas", and GetActiveSchema, "the currently
\* active schema" (schema_db.go); POST .../activate makes a version "the active
\* schema" (openapi.yaml).  With two, GetActiveSchema serves either of them.
OneActiveSchema == \A v, w \in active : v = w
=============================================================================
