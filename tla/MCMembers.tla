----------------------------- MODULE MCMembers -----------------------------
(***************************************************************************)
(* Two IdP users, two requests; creations may ask for the same e-mail.     *)
(***************************************************************************)
EXTENDS Members, TLC

CONSTANTS u1, u2, r1, r2, name, phone, v1, v2, ada, bob

Profile(n, p) == (name :> n) @@ (phone :> p)
MCCreations == {[email |-> e, profile |-> Profile(v1, v1)] : e \in Emails}
MCUpdates == {<<>>, name :> v2, phone :> v2, Profile(v1, v1)}

Interchangeable == Permutations(Requests) \union Permutations(Users) \union Permutations(Emails)
=============================================================================
