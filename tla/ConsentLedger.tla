--------------------------- MODULE ConsentLedger ---------------------------
(***************************************************************************)
(* What the consent engine promises of its table, without its requests,    *)
(* deadlines and statements: a ledger of consents, each of which keeps its *)
(* terms, is asked once, and is settled any number of times by whoever may *)
(* settle it.  ConsentEngine implements it.                                *)
(***************************************************************************)
CONSTANTS Ids, Owners, Emails, Apps, FieldLists, GrantDurations,
          Nobody, Replaced, Revoker,    \* values of by, beside the e-mails
          None

Terms == [owner: Owners, email: Emails, app: Apps, fields: FieldLists,
          duration: GrantDurations]

Entries == [terms: Terms,
            status: {"pending", "approved", "rejected", "expired", "revoked"},
            by: Emails \union {Nobody, Replaced, Revoker}]

VARIABLE ledger    \* by key: None, or the terms, the status and who set it

Init == ledger = [id \in Ids |-> None]

Entry(terms, status, by) == [terms |-> terms, status |-> status, by |-> by]

\* The two active statuses each name at most one consent of a person and an
\* application.
Rivals(a, b) == /\ a.terms.owner = b.terms.owner
                /\ a.terms.email = b.terms.email
                /\ a.terms.app = b.terms.app
                /\ a.status = b.status

Unrivalled(id) ==
    ledger'[id].status \in {"pending", "approved"} =>
       \A other \in Ids \ {id} :
          ledger'[other] # None => ~Rivals(ledger'[other], ledger'[id])

\* What the three actions make of the ledger.
Asked(id, terms) == [ledger EXCEPT ![id] = Entry(terms, "pending", Nobody)]
Settled(id, status, by) == [ledger EXCEPT ![id] = Entry(ledger[id].terms, status, by)]
Succeeded(old, id, terms) ==
    [ledger EXCEPT ![old] = Entry(ledger[old].terms, "revoked", Replaced),
                   ![id] = Entry(terms, "pending", Nobody)]

\* A consent is asked for.
Ask(id) == /\ ledger[id] = None /\ ledger'[id] # None
           /\ \E terms \in Terms : ledger' = Asked(id, terms)
           /\ Unrivalled(id)

\* Who a status comes from: nobody but the person a consent is about decides on it,
\* and its expiry says nothing new.
Settles(entry, status, by) ==
    \/ status \in {"approved", "rejected"} /\ by = entry.terms.email
    \/ status = "expired" /\ by \in {Nobody, entry.terms.email}
    \/ status = "revoked" /\ by = Revoker

\* A consent is decided, revoked or expires; nothing makes it pending again.
Settle(id) ==
    /\ ledger[id] # None /\ ledger'[id] # ledger[id]
    /\ \E status \in {"approved", "rejected", "expired", "revoked"},
          by \in Emails \union {Nobody, Revoker} :
          /\ Settles(ledger[id], status, by)
          /\ ledger' = Settled(id, status, by)
    /\ Unrivalled(id)

\* A consent for other fields takes the place of an earlier one: both change, or
\* neither does.
Replace(old, id) ==
    /\ ledger[old] # None /\ ledger[id] = None
    /\ \E terms \in Terms :
          /\ terms.owner = ledger[old].terms.owner
          /\ terms.app = ledger[old].terms.app
          /\ ledger' = Succeeded(old, id, terms)
    /\ Unrivalled(id)

Next == \/ \E id \in Ids : Ask(id) \/ Settle(id)
        \/ \E old, id \in Ids : Replace(old, id)

Spec == Init /\ [][Next]_ledger
=============================================================================
