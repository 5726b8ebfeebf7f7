-------------------------- MODULE MCConsentEngine --------------------------
(***************************************************************************)
(* A small consent engine for TLC: one owner, one application, two field   *)
(* lists, and two e-mail addresses that may open the portal.               *)
(***************************************************************************)
EXTENDS ConsentEngine, TLC

CONSTANTS r1, r2, owner, ada, bob, app, f1, f2

MCPendingTimeout == [t \in {"realtime"} |-> 1]
MCGrantLength == [d \in {"PT1H"} |-> 1]

Ask(email, fields) == [owner |-> owner, email |-> email, app |-> app,
                       fields |-> fields, type |-> "realtime", duration |-> "PT1H"]
MCCreateRequests == {Ask(ada, f1), Ask(ada, f2)}
MCLookups == {[by |-> "email", key |-> ada, app |-> app]}
MCPortalRequests == {[user |-> ada, action |-> "approve"],
                     [user |-> ada, action |-> "reject"],
                     [user |-> bob, action |-> "approve"]}

Interchangeable == Permutations(Requests) \union Permutations(FieldLists)
=============================================================================
